--------------------------- MODULE InboundProofs ---------------------------
(***************************************************************************)
(* The safety properties of Inbound, for every set of messages and         *)
(* contexts, any number of workers, every limit, every threshold of the    *)
(* breaker and every set of faults.                                        *)
(*                                                                         *)
(* None of them is inductive alone.  A message is handled once because its *)
(* row is there before a worker goes on with it and no two workers go on   *)
(* with the same one (OnceOK).  A question, or a reply past the limit, is  *)
(* bounded together with those that workers have decided and not yet sent  *)
(* (GuardsOK, LimitOK).  A closed breaker has counted no more failures     *)
(* than came in a row (BreakersOK).                                        *)
(***************************************************************************)
EXTENDS Inbound, FiniteSetTheorems, SequenceTheorems, TLAPS

Reply == {"", "ask_clarification", "ask_which_shift", "counted", "uncounted", "unrecorded"}
Activity == [step : {"idle", "persist", "understand", "send"}, sid : Sids \cup {""},
             opens : BOOLEAN, reply : Reply]

TypesOK ==
  /\ TypeOK
  /\ worker \in [Workers -> Activity]
  /\ \A w \in Workers : worker[w].step = "idle" => worker[w] = Idle
  /\ clar \in Nat /\ which \in Nat
  /\ breaker \in [Workers -> Breaker] /\ streak \in [Workers -> 0..FailureThreshold]

\* A worker that has committed the row of its message and goes on with it.
Owns(w, s) == worker[w].step \in {"understand", "send"} /\ worker[w].sid = s

OnceOK ==
  /\ \A v, w \in Workers : \A s \in Sids : Owns(v, s) /\ Owns(w, s) => v = w
  /\ \A s \in Sids : handled[s] = 0 \/ (handled[s] = 1 /\ s \in rows /\ \A w \in Workers : ~Owns(w, s))

\* The workers about to send a reply of a kind.
Sending(kind) == {w \in Workers : worker[w].step = "send" /\ worker[w].reply = kind}

GuardsOK ==
  /\ clar + Cardinality(Sending("ask_clarification")) <= Cardinality(Workers)
  /\ which + Cardinality(Sending("ask_which_shift")) <= 2 + Cardinality(Workers) - 1

\* The replies that asked the limit and are past it, of an hour's rows.
Late(win) == {i \in DOMAIN win : i > Limit /\ win[i]}

LimitOK ==
  Limit > 0 /\ Len(window) >= Limit =>
    Cardinality(Late(window)) + Cardinality(Sending("counted")) <= Cardinality(Workers) - 1

BreakersOK ==
  \A w \in Workers :
    IF breaker[w].opened THEN streak[w] = FailureThreshold
    ELSE breaker[w].failures <= streak[w] /\ breaker[w].failures < FailureThreshold
-----------------------------------------------------------------------------
\* A message taken by a worker, or given back, is one of the conversation's.
LEMMA QueueOps ==
  ASSUME NEW queued, Bag(queued), DOMAIN queued \subseteq Sids, NEW s \in Sids
  PROVE  /\ Bag(BagAdd(queued, s)) /\ DOMAIN BagAdd(queued, s) \subseteq Sids
         /\ Bag(BagRemove(queued, s)) /\ DOMAIN BagRemove(queued, s) \subseteq Sids
<1>1. queued \in [DOMAIN queued -> Nat \ {0}]
  BY DEF Bag
<1>2. Bag(BagAdd(queued, s)) /\ DOMAIN BagAdd(queued, s) \subseteq Sids
  BY <1>1 DEF Bag, BagAdd
<1>3. Bag(BagRemove(queued, s)) /\ DOMAIN BagRemove(queued, s) \subseteq Sids
  BY <1>1 DEF Bag, BagRemove
<1> QED
  BY <1>2, <1>3

\* Neither routing table asks one of the two questions past its guard.
LEMMA NoQuestionRouted ==
  ASSUME NEW r \in Interpretations \cup Parses
  PROVE  r.reply \notin Question /\ r.redirect \notin Question
<1>1. \A ctx \in Contexts : ctx \in Context
  BY ContextsAssumption
<1>2. \A ctx \in Contexts : Redirect(ctx) \notin Question
  BY <1>1 DEF Redirect, Holds, Question, Context, LiveStatus, TerminalStatus
<1>3. \A ctx \in Contexts : AbsenceReport(ctx) \notin Question /\ Acceptance(ctx) \notin Question
  BY <1>1, <1>2 DEF AbsenceReport, Acceptance, Resolved, Holds, Question, Context
<1>4. \A ctx \in Contexts : Withdrawn(ctx) \notin Question
  BY <1>2 DEF Withdrawn, Tried, Question
<1>5. \A ctx \in Contexts : RouteConfirm(ctx) \notin Question
  BY <1>3, <1>4 DEF RouteConfirm, Question
<1>6. ASSUME NEW i \in IntentName, NEW ctx \in Contexts
      PROVE  RouteInterpreted(i, ctx) \notin Question
  BY <1>2, <1>3, <1>4 DEF RouteInterpreted, Tried, Question
<1>7. ASSUME NEW i, NEW ctx \in Contexts
      PROVE  RouteParsed(i, ctx) \notin Question
  BY <1>2, <1>3, <1>4, <1>5 DEF RouteParsed, Tried, Question
<1> QED
  BY <1>2, <1>6, <1>7 DEF Interpretations, Parses, Routed

\* A reply passes its guard: a question only while the rows of it were few, a reply that
\* the limit counts only below the limit.
LEMMA GuardPassed ==
  ASSUME clar \in Nat, which \in Nat, NEW r \in Interpretations \cup Parses
  PROVE  LET kind == Kind(Admitted(Guarded(r))) IN
         /\ kind \in Reply \ {""}
         /\ kind = "ask_clarification" => clar = 0
         /\ kind = "ask_which_shift" => which < 2
         /\ kind = "counted" => ~OutboundLimitReached(window)
<1> DEFINE reply == Admitted(Guarded(r))
<1>1. Kind(reply) \in Reply \ {""}
  BY DEF Kind, Reply, Question
<1>2. Kind(reply) \in Question => reply = Guarded(r) /\ Kind(reply) = reply
  BY DEF Kind, Admitted, Question
<1>3. Kind(reply) = "counted" => ~OutboundLimitReached(window)
  BY DEF Kind, Admitted, Question, Limited
<1>4. Guarded(r) = "ask_clarification" => clar = 0
  BY NoQuestionRouted DEF Guarded, ClarifyOnce, AskWhichShiftAgain, Question
<1>5. Guarded(r) = "ask_which_shift" => which < 2
  BY NoQuestionRouted DEF Guarded, ClarifyOnce, AskWhichShiftAgain, Question
<1> QED
  BY <1>1, <1>2, <1>3, <1>4, <1>5 DEF Question


\* What a worker decides to send, and the breaker it leaves.
LEMMA Understanding ==
  ASSUME TypesOK, NEW w \in Workers, Understand(w)
  PROVE  /\ worker[w].step = "understand"
         /\ \E kind \in Reply \ {""} :
              /\ worker' = [worker EXCEPT ![w] = [worker[w] EXCEPT !.step = "send", !.reply = kind]]
              /\ kind = "ask_clarification" => clar = 0
              /\ kind = "ask_which_shift" => which < 2
              /\ kind = "counted" => ~OutboundLimitReached(window)
         /\ UNCHANGED <<posts, acked, queue, rows, conversation, paused, clar, which, window,
                        disturbances, handled, lost>>
<1> DEFINE Decides(kind) ==
      /\ worker' = [worker EXCEPT ![w] = [worker[w] EXCEPT !.step = "send", !.reply = kind]]
      /\ kind = "ask_clarification" => clar = 0
      /\ kind = "ask_which_shift" => which < 2
      /\ kind = "counted" => ~OutboundLimitReached(window)
<1>1. worker[w].step = "understand" /\ UNCHANGED <<posts, acked, queue, rows, conversation, paused,
        clar, which, window, disturbances, handled, lost>>
  BY DEF Understand, Tables, Asking
<1>2. ASSUME NEW routed \in SUBSET (Interpretations \cup Parses), Replies(w, routed)
      PROVE  \E kind \in Reply \ {""} : Decides(kind)
  <2>1. PICK r \in routed :
          worker' = [worker EXCEPT ![w] = [worker[w] EXCEPT !.step = "send", !.reply = Kind(Admitted(Guarded(r)))]]
    BY <1>2 DEF Replies, Becomes
  <2>2. Kind(Admitted(Guarded(r))) \in Reply \ {""} /\ Decides(Kind(Admitted(Guarded(r))))
    BY <2>1, GuardPassed DEF TypesOK
  <2> QED
    BY <2>2
<1>3. ASSUME ForwardToManager(w)
      PROVE  \E kind \in Reply \ {""} : Decides(kind)
  <2>1. Kind("manager_agent_paused") = "unrecorded"
    BY DEF Kind, Question, Limited, Logged
  <2>2. Decides("unrecorded")
    BY <1>3, <2>1 DEF ForwardToManager, Becomes
  <2> QED
    BY <2>2 DEF Reply
<1>4. ForwardToManager(w) \/ Replies(w, Interpretations) \/ Replies(w, Parses)
  BY DEF Understand, CircuitOpen, Interpreted, Unstructured, Unavailable
<1> QED
  BY <1>1, <1>2, <1>3, <1>4

-----------------------------------------------------------------------------
\* Types.

LEMMA ActivityTyped ==
  ASSUME TypesOK, NEW w \in Workers
  PROVE  /\ worker[w] \in Activity /\ Idle \in Activity
         /\ worker[w].step # "idle" => worker[w].sid \in Sids
         /\ \A kind \in Reply : [worker[w] EXCEPT !.step = "send", !.reply = kind] \in Activity
         /\ [worker[w] EXCEPT !.step = "understand"] \in Activity
<1>1. worker[w] \in Activity
  BY DEF TypesOK
<1>2. Idle \in Activity /\ Idle.step = "idle"
  BY DEF Idle, Activity, Reply
<1>3. worker[w].step # "idle" => worker[w].sid \in Sids
  BY <1>2 DEF TypesOK, TypeOK
<1>4. \A kind \in Reply : [worker[w] EXCEPT !.step = "send", !.reply = kind] \in Activity
  BY <1>1 DEF Activity
<1>5. [worker[w] EXCEPT !.step = "understand"] \in Activity
  BY <1>1 DEF Activity
<1> QED
  BY <1>1, <1>2, <1>3, <1>4, <1>5

\* A worker that changes what it is doing to an activity of its type.
LEMMA WorkerTyped ==
  ASSUME TypesOK, NEW w \in Workers, NEW a \in Activity, Becomes(w, a),
         a.step = "idle" => a = Idle, a.step # "idle" => a.sid \in Sids,
         a.step \in {"understand", "send"} => a.sid \in rows', rows \subseteq rows'
  PROVE  /\ worker' \in [Workers -> Activity]
         /\ \A v \in Workers : worker'[v].step = "idle" => worker'[v] = Idle
         /\ \A v \in Workers : worker'[v] # Idle => worker'[v].sid \in Sids
         /\ \A v \in Workers : worker'[v].step \in {"understand", "send"} => worker'[v].sid \in rows'
<1>1. worker \in [Workers -> Activity] /\ worker' = [worker EXCEPT ![w] = a]
  BY DEF TypesOK, Becomes
<1>2. \A v \in Workers : worker'[v] = IF v = w THEN a ELSE worker[v]
  BY <1>1
<1> QED
  BY <1>1, <1>2 DEF TypesOK, TypeOK

\* The breaker's operations stay in its type.
LEMMA BreakerTyped ==
  ASSUME NEW b \in Breaker
  PROVE  /\ Closed \in Breaker /\ Asked(b) \in Breaker /\ RecordSuccess(b) \in Breaker
         /\ RecordFailure(b) \in Breaker /\ Aged(b) \in Breaker
<1> USE BreakerAssumption
<1>1. Closed \in Breaker /\ RecordSuccess(b) \in Breaker /\ Asked(b) \in Breaker
  BY DEF Breaker, Closed, RecordSuccess, Asked
<1>2. RecordFailure(b) \in Breaker
  BY DEF Breaker, RecordFailure
<1>3. Aged(b) \in Breaker
  BY DEF Breaker, Aged
<1> QED
  BY <1>1, <1>2, <1>3


\* Understanding calls the model at most twice, and leaves a breaker and a streak.
LEMMA BreakerUnderstanding ==
  ASSUME TypesOK, NEW w \in Workers, Understand(w)
  PROVE  \E b \in Breaker, n \in 0..FailureThreshold :
           /\ breaker' = [breaker EXCEPT ![w] = b] /\ streak' = [streak EXCEPT ![w] = n]
           /\ \/ b = breaker[w] /\ n = streak[w]
              \/ b = Closed /\ n = 0
              \/ ~IsOpen(breaker[w]) /\ b = RecordFailure(Asked(breaker[w])) /\ n = Fails(streak[w])
              \/ b = RecordFailure(Closed) /\ n = Fails(0)
<1>1. breaker \in [Workers -> Breaker] /\ streak \in [Workers -> 0..FailureThreshold]
  BY DEF TypesOK
<1>2. breaker = [breaker EXCEPT ![w] = breaker[w]] /\ streak = [streak EXCEPT ![w] = streak[w]]
  BY <1>1
<1>3. /\ Asked(breaker[w]) \in Breaker /\ RecordFailure(Asked(breaker[w])) \in Breaker
      /\ RecordSuccess(Asked(breaker[w])) = Closed /\ Closed \in Breaker
      /\ RecordFailure(Closed) \in Breaker
  BY <1>1, BreakerTyped DEF RecordSuccess
<1>4. \A n \in 0..FailureThreshold : Fails(n) \in 0..FailureThreshold /\ 0 \in 0..FailureThreshold
  BY BreakerAssumption DEF Fails, AtMost
<1>5. 0 \in 0..FailureThreshold
  BY BreakerAssumption
<1>6. CASE ForwardToManager(w) \/ CircuitOpen(w)
  <2>1. UNCHANGED <<breaker, streak>>
    BY <1>6 DEF ForwardToManager, CircuitOpen
  <2>2. /\ breaker' = [breaker EXCEPT ![w] = breaker[w]] /\ streak' = [streak EXCEPT ![w] = streak[w]]
        /\ breaker[w] \in Breaker /\ streak[w] \in 0..FailureThreshold
    BY <2>1, <1>1, <1>2
  <2> QED
    BY <2>2
<1>7. CASE Interpreted(w) \/ Unstructured(w)
  <2>1. breaker' = [breaker EXCEPT ![w] = Closed] /\ streak' = [streak EXCEPT ![w] = 0]
    BY <1>7, <1>3 DEF Interpreted, Unstructured
  <2> QED
    BY <2>1, <1>3, <1>5
<1>8. CASE Unavailable(w)
  <2>1. \/ /\ breaker' = [breaker EXCEPT ![w] = RecordFailure(Asked(breaker[w]))]
           /\ streak' = [streak EXCEPT ![w] = Fails(streak[w])]
        \/ /\ breaker' = [breaker EXCEPT ![w] = RecordFailure(Closed)]
           /\ streak' = [streak EXCEPT ![w] = Fails(0)]
    BY <1>8, <1>3 DEF Unavailable
  <2>2. ~IsOpen(breaker[w])
    BY <1>8 DEF Unavailable
  <2> QED
    BY <2>1, <2>2, <1>1, <1>3, <1>4, <1>5
<1> QED
  BY <1>6, <1>7, <1>8 DEF Understand

LEMMA TypesInit == Init => TypesOK
<1> SUFFICES ASSUME Init PROVE TypesOK
  OBVIOUS
<1>1. window \in Seq(BOOLEAN)
  <2>1. << >> \in Seq(BOOLEAN)
    BY EmptySeq
  <2>2. [i \in 1..Limit |-> TRUE] \in Seq(BOOLEAN)
    BY LimitAssumption, IsASeq
  <2> QED
    BY <2>1, <2>2 DEF Init
<1>2. Bag(queue) /\ DOMAIN queue \subseteq Sids
  BY DEF Init, Bag
<1>3. Idle \in Activity /\ Idle.step = "idle"
  BY DEF Idle, Activity, Reply
<1>4. /\ breaker \in [Workers -> Breaker] /\ streak \in [Workers -> 0..FailureThreshold]
      /\ worker \in [Workers -> Activity] /\ \A w \in Workers : worker[w] = Idle
  BY <1>3, BreakerAssumption DEF Init, Breaker, Closed
<1>5. /\ posts \in [Sids -> 0..MaxPosts] /\ acked \subseteq Sids /\ rows \subseteq Sids
      /\ lost \subseteq Sids /\ handled \in [Sids -> Nat]
  BY BoundsAssumption DEF Init
<1>6. paused \in BOOLEAN /\ conversation \in BOOLEAN
  BY Zenon DEF Init
<1>7. clar \in Nat /\ which \in Nat
  BY SMT DEF Init
<1> QED
  BY <1>1, <1>2, <1>3, <1>4, <1>5, <1>6, <1>7 DEF TypesOK, TypeOK

LEMMA TypesStep == TypesOK /\ [Next]_vars => TypesOK'
<1> SUFFICES ASSUME TypesOK, [Next]_vars PROVE TypesOK'
  OBVIOUS
<1> USE DEF Tables, Asking
<1>1. ASSUME NEW s \in Sids, TwilioInbound(s)
      PROVE  TypesOK'
  <2>1. posts' \in [Sids -> 0..MaxPosts]
    BY <1>1, BoundsAssumption DEF TypesOK, TypeOK, TwilioInbound
  <2>2. acked' \subseteq Sids
    BY <1>1 DEF TypesOK, TypeOK, TwilioInbound, Rejected
  <2>3. Bag(queue') /\ DOMAIN queue' \subseteq Sids
    BY <1>1, QueueOps DEF TypesOK, TypeOK, TwilioInbound
  <2>4. UNCHANGED <<rows, conversation, worker, paused, breaker, clar, which, window, handled, lost, streak>>
    BY <1>1 DEF TwilioInbound
  <2> QED
    BY <2>1, <2>2, <2>3, <2>4 DEF TypesOK, TypeOK
<1>2. ASSUME NEW w \in Workers, NEW s \in DOMAIN queue, Take(w, s)
      PROVE  TypesOK'
  <2>1. s \in Sids /\ Bag(queue') /\ DOMAIN queue' \subseteq Sids
    BY <1>2, QueueOps DEF TypesOK, TypeOK, Take
  <2>2. UNCHANGED <<posts, acked, rows, conversation, paused, breaker, clar, which, window, handled, lost, streak>>
    BY <1>2 DEF Take
  <2>3. CASE UNCHANGED worker
    BY <2>1, <2>2, <2>3 DEF TypesOK, TypeOK
  <2>4. CASE Becomes(w, [Idle EXCEPT !.step = "persist", !.sid = s, !.opens = ~conversation])
    <3> DEFINE a == [Idle EXCEPT !.step = "persist", !.sid = s, !.opens = ~conversation]
    <3>1. a \in Activity /\ a.step = "persist" /\ a.sid = s
      BY <2>1 DEF Idle, Activity, Reply, TypesOK, TypeOK
    <3>2. Becomes(w, a)
      BY <2>4
    <3> HIDE DEF a
    <3>3. /\ worker' \in [Workers -> Activity]
          /\ \A v \in Workers : worker'[v].step = "idle" => worker'[v] = Idle
          /\ \A v \in Workers : worker'[v] # Idle => worker'[v].sid \in Sids
          /\ \A v \in Workers : worker'[v].step \in {"understand", "send"} => worker'[v].sid \in rows'
      BY <3>1, <3>2, <2>1, <2>2, WorkerTyped
    <3> QED
      BY <3>3, <2>1, <2>2 DEF TypesOK, TypeOK
  <2> QED
    BY <1>2, <2>3, <2>4 DEF Take
<1>3. ASSUME NEW w \in Workers, Persist(w)
      PROVE  TypesOK'
  <2> DEFINE a == IF Duplicate(w) THEN Idle ELSE [worker[w] EXCEPT !.step = "understand"]
  <2>1. worker[w] \in Activity /\ worker[w].step = "persist" /\ worker[w].sid \in Sids
    BY <1>3, ActivityTyped DEF Persist
  <2>2. /\ a \in Activity /\ (a.step = "idle" => a = Idle) /\ (a.step # "idle" => a.sid \in Sids)
        /\ a.step \in {"understand", "send"} => ~Duplicate(w) /\ a.sid = worker[w].sid
    BY <2>1, ActivityTyped DEF Idle, Activity
  <2>3. rows' = Committed(w) /\ rows \subseteq rows' /\ rows' \subseteq Sids
    BY <1>3, <2>1 DEF Persist, Committed, TypesOK, TypeOK
  <2>4. a.step \in {"understand", "send"} => a.sid \in rows'
    BY <2>2, <2>3 DEF Committed
  <2>5. Becomes(w, a)
    BY <1>3 DEF Persist
  <2> HIDE DEF a
  <2>6. /\ worker' \in [Workers -> Activity]
        /\ \A v \in Workers : worker'[v].step = "idle" => worker'[v] = Idle
        /\ \A v \in Workers : worker'[v] # Idle => worker'[v].sid \in Sids
        /\ \A v \in Workers : worker'[v].step \in {"understand", "send"} => worker'[v].sid \in rows'
    BY <2>2, <2>3, <2>4, <2>5, WorkerTyped
  <2>7. lost' \subseteq Sids
    BY <1>3, <2>1 DEF Persist, TypesOK, TypeOK
  <2>8. conversation' = TRUE /\ UNCHANGED <<posts, acked, queue, paused, breaker, clar, which, window, handled, streak>>
    BY <1>3 DEF Persist
  <2> QED
    BY <2>3, <2>6, <2>7, <2>8 DEF TypesOK, TypeOK
<1>4. ASSUME NEW w \in Workers, Understand(w)
      PROVE  TypesOK'
  <2>1. PICK kind \in Reply : Becomes(w, [worker[w] EXCEPT !.step = "send", !.reply = kind])
    BY <1>4, Understanding DEF Becomes
  <2> DEFINE a == [worker[w] EXCEPT !.step = "send", !.reply = kind]
  <2>2. /\ worker[w] \in Activity /\ worker[w].step = "understand"
        /\ worker[w].sid \in Sids /\ worker[w].sid \in rows
    BY <1>4, ActivityTyped, Understanding DEF TypesOK, TypeOK
  <2>3. a \in Activity /\ a.step = "send" /\ a.sid = worker[w].sid
    BY <2>2, ActivityTyped DEF Activity
  <2>4. UNCHANGED <<posts, acked, queue, rows, conversation, paused, clar, which, window, handled, lost>>
    BY <1>4, Understanding
  <2>5. Becomes(w, a)
    BY <2>1
  <2> HIDE DEF a
  <2>6. /\ worker' \in [Workers -> Activity]
        /\ \A v \in Workers : worker'[v].step = "idle" => worker'[v] = Idle
        /\ \A v \in Workers : worker'[v] # Idle => worker'[v].sid \in Sids
        /\ \A v \in Workers : worker'[v].step \in {"understand", "send"} => worker'[v].sid \in rows'
    BY <2>2, <2>3, <2>4, <2>5, WorkerTyped
  <2>7. breaker' \in [Workers -> Breaker] /\ streak' \in [Workers -> 0..FailureThreshold]
    BY <1>4, BreakerUnderstanding DEF TypesOK
  <2> QED
    BY <2>4, <2>6, <2>7 DEF TypesOK, TypeOK
<1>5. ASSUME NEW w \in Workers, Send(w)
      PROVE  TypesOK'
  <2>1. worker[w].sid \in Sids /\ Becomes(w, Idle)
    BY <1>5, ActivityTyped DEF Send
  <2>2. UNCHANGED <<posts, acked, queue, rows, conversation, paused, breaker, lost, streak>>
    BY <1>5 DEF Send
  <2>3. Idle \in Activity /\ Idle.step = "idle"
    BY ActivityTyped DEF Idle
  <2>4. /\ worker' \in [Workers -> Activity]
        /\ \A v \in Workers : worker'[v].step = "idle" => worker'[v] = Idle
        /\ \A v \in Workers : worker'[v] # Idle => worker'[v].sid \in Sids
        /\ \A v \in Workers : worker'[v].step \in {"understand", "send"} => worker'[v].sid \in rows'
    BY <2>1, <2>2, <2>3, WorkerTyped
  <2>5. handled' \in [Sids -> Nat]
    BY <1>5, <2>1 DEF Send, TypesOK, TypeOK
  <2>6. clar' \in Nat /\ which' \in Nat
    BY <1>5 DEF Send, TypesOK
  <2>7. window' \in Seq(BOOLEAN)
    <3>1. window \in Seq(BOOLEAN)
      BY DEF TypesOK, TypeOK
    <3>2. Append(window, worker[w].reply = "counted") \in Seq(BOOLEAN)
      BY <3>1, AppendProperties
    <3> QED
      BY <1>5, <3>1, <3>2 DEF Send
  <2> QED
    BY <2>2, <2>4, <2>5, <2>6, <2>7 DEF TypesOK, TypeOK
<1>6. ASSUME NEW w \in Workers, TaskFails(w)
      PROVE  TypesOK'
  <2>1. worker[w].sid \in Sids /\ Becomes(w, Idle)
    BY <1>6 DEF TaskFails, TypesOK, TypeOK
  <2>2. UNCHANGED <<posts, acked, rows, conversation, paused, clar, which, window, handled>>
    BY <1>6 DEF TaskFails
  <2>3. Idle \in Activity /\ Idle.step = "idle"
    BY ActivityTyped DEF Idle
  <2>4. /\ worker' \in [Workers -> Activity]
        /\ \A v \in Workers : worker'[v].step = "idle" => worker'[v] = Idle
        /\ \A v \in Workers : worker'[v] # Idle => worker'[v].sid \in Sids
        /\ \A v \in Workers : worker'[v].step \in {"understand", "send"} => worker'[v].sid \in rows'
    BY <2>1, <2>2, <2>3, WorkerTyped
  <2>5. Bag(queue') /\ DOMAIN queue' \subseteq Sids /\ lost' \subseteq Sids
    BY <1>6, <2>1, QueueOps DEF TaskFails, TypesOK, TypeOK
  <2>6. breaker' \in [Workers -> Breaker] /\ streak' \in [Workers -> 0..FailureThreshold]
    <3>1. Closed \in Breaker /\ 0 \in 0..FailureThreshold
      BY BreakerAssumption DEF Breaker, Closed
    <3> QED
      BY <1>6, <3>1 DEF TaskFails, TypesOK
  <2> QED
    BY <2>2, <2>4, <2>5, <2>6 DEF TypesOK, TypeOK
<1>7. CASE PauseSwitch
  BY <1>7 DEF PauseSwitch, TypesOK, TypeOK
<1>8. CASE ReplyAges
  <2>1. window' \in Seq(BOOLEAN)
    BY <1>8, HeadTailProperties DEF ReplyAges, TypesOK, TypeOK
  <2> QED
    BY <1>8, <2>1 DEF ReplyAges, TypesOK, TypeOK
<1>9. ASSUME NEW w \in Workers, OfferSent(w)
      PROVE  TypesOK'
  <2>1. window' \in Seq(BOOLEAN)
    BY <1>9, AppendProperties DEF OfferSent, TypesOK, TypeOK
  <2> QED
    BY <1>9, <2>1 DEF OfferSent, TypesOK, TypeOK
<1>10. CASE MinutePasses
  <2>1. breaker' \in [Workers -> Breaker]
    BY <1>10, BreakerTyped DEF MinutePasses, TypesOK
  <2> QED
    BY <1>10, <2>1 DEF MinutePasses, TypesOK, TypeOK
<1>11. CASE PurgeOldMessages
  <2>1. clar' \in Nat /\ which' \in Nat
    BY <1>11 DEF PurgeOldMessages, TypesOK
  <2> QED
    BY <1>11, <2>1 DEF PurgeOldMessages, TypesOK, TypeOK
<1>12. CASE UNCHANGED vars
  BY <1>12 DEF vars, TypesOK, TypeOK
<1> QED
  BY <1>1, <1>2, <1>3, <1>4, <1>5, <1>6, <1>7, <1>8, <1>9, <1>10, <1>11, <1>12 DEF Next, Works

\* Every row, counter, breaker and worker keeps its type, and what is being understood or
\* answered is on record (handle_inbound).
THEOREM TypeCorrect == Spec => []TypeOK
<1>1. TypesOK => TypeOK
  BY DEF TypesOK
<1> QED
  BY <1>1, TypesInit, TypesStep, PTL DEF Spec
-----------------------------------------------------------------------------
\* A message is handled once.

LEMMA OnceInit == Init => OnceOK
<1> SUFFICES ASSUME Init PROVE OnceOK
  OBVIOUS
<1>1. Idle.step = "idle"
  BY DEF Idle
<1>2. (\A w \in Workers : worker[w] = Idle) /\ (\A s \in Sids : handled[s] = 0)
  BY DEF Init
<1>3. \A w \in Workers : \A s \in Sids : ~Owns(w, s)
  BY <1>1, <1>2 DEF Owns
<1> QED
  BY <1>2, <1>3 DEF OnceOK

\* A worker that stops leaves its message to nobody.
LEMMA LetsGo ==
  ASSUME TypesOK, OnceOK, NEW w \in Workers, Becomes(w, Idle)
  PROVE  \A v \in Workers : \A s \in Sids :
           (Owns(v, s))' <=> (v # w /\ Owns(v, s))
<1>1. \A v \in Workers : worker'[v] = IF v = w THEN Idle ELSE worker[v]
  BY DEF TypesOK, Becomes
<1>2. Idle.step = "idle"
  BY DEF Idle
<1> QED
  BY <1>1, <1>2 DEF Owns

LEMMA OnceStep == TypesOK /\ OnceOK /\ [Next]_vars => OnceOK'
<1> SUFFICES ASSUME TypesOK, OnceOK, [Next]_vars PROVE OnceOK'
  OBVIOUS
<1> USE DEF Tables, Asking
<1>0. worker \in [Workers -> Activity]
  BY DEF TypesOK
<1>1. ASSUME NEW w \in Workers, NEW s \in DOMAIN queue, Take(w, s)
      PROVE  OnceOK'
  <2>1. UNCHANGED <<rows, handled>> /\ worker[w] = Idle
    BY <1>1 DEF Take
  <2>2. \A v \in Workers : \A t \in Sids : (Owns(v, t))' <=> Owns(v, t)
    <3> DEFINE a == [Idle EXCEPT !.step = "persist", !.sid = s, !.opens = ~conversation]
    <3>0. a.step = "persist" /\ Idle.step = "idle"
      BY DEF Idle
    <3>3. worker' = worker \/ worker' = [worker EXCEPT ![w] = a]
      BY <1>1 DEF Take, Becomes
    <3> HIDE DEF a
    <3>1. worker'[w].step \in {"idle", "persist"} /\ worker[w].step = "idle"
      BY <1>0, <2>1, <3>0, <3>3
    <3>2. \A v \in Workers \ {w} : worker'[v] = worker[v]
      BY <1>0, <1>1 DEF Take, Becomes
    <3> QED
      BY <3>1, <3>2 DEF Owns
  <2> QED
    BY <2>1, <2>2 DEF OnceOK
<1>2. ASSUME NEW w \in Workers, Persist(w)
      PROVE  OnceOK'
  <2>1. UNCHANGED handled /\ rows' = Committed(w) /\ rows \subseteq rows' /\ worker[w].step = "persist"
    BY <1>2 DEF Persist, Committed
  <2>2. CASE Duplicate(w)
    <3>1. Becomes(w, Idle)
      BY <1>2, <2>2 DEF Persist
    <3> QED
      BY <2>1, <3>1, LetsGo DEF OnceOK
  <2>3. CASE ~Duplicate(w)
    <3>1. worker' = [worker EXCEPT ![w] = [worker[w] EXCEPT !.step = "understand"]]
      BY <1>2, <2>3 DEF Persist, Becomes
    <3>2. \A v \in Workers : \A t \in Sids :
            (Owns(v, t))' <=> IF v = w THEN t = worker[w].sid ELSE Owns(v, t)
      BY <1>0, <3>1 DEF Owns, Activity
    <3>3. worker[w].sid \notin rows /\ worker[w].sid \in rows'
      BY <2>1, <2>3 DEF Duplicate, Committed
    <3>4. \A v \in Workers : \A t \in Sids : Owns(v, t) => t \in rows
      BY DEF Owns, TypesOK, TypeOK
    <3>5. \A u, v \in Workers : \A t \in Sids : (Owns(u, t))' /\ (Owns(v, t))' => u = v
      BY <3>2, <3>3, <3>4 DEF OnceOK
    <3>6. \A t \in Sids : handled[t] = 0 \/
            (handled[t] = 1 /\ t \in rows' /\ \A v \in Workers : ~(Owns(v, t))')
      BY <2>1, <3>2, <3>3 DEF OnceOK
    <3> QED
      BY <2>1, <3>5, <3>6 DEF OnceOK
  <2> QED
    BY <2>2, <2>3
<1>3. ASSUME NEW w \in Workers, Understand(w)
      PROVE  OnceOK'
  <2>1. UNCHANGED <<rows, handled>> /\ worker[w].step = "understand"
    BY <1>3, Understanding
  <2>2. PICK kind \in Reply :
          worker' = [worker EXCEPT ![w] = [worker[w] EXCEPT !.step = "send", !.reply = kind]]
    BY <1>3, Understanding
  <2>3. \A v \in Workers : \A t \in Sids : (Owns(v, t))' <=> Owns(v, t)
    BY <1>0, <2>1, <2>2 DEF Owns, Activity
  <2> QED
    BY <2>1, <2>3 DEF OnceOK
<1>4. ASSUME NEW w \in Workers, Send(w)
      PROVE  OnceOK'
  <2>0. PICK s \in Sids : s = worker[w].sid
    BY <1>4, ActivityTyped DEF Send
  <2>1. /\ s \in rows /\ Owns(w, s) /\ Becomes(w, Idle) /\ UNCHANGED rows
        /\ handled' = [handled EXCEPT ![s] = handled[s] + 1]
    BY <1>4, <2>0 DEF Send, Owns, TypesOK, TypeOK
  <2>2. handled[s] = 0 /\ handled'[s] = 1 /\ \A t \in Sids \ {s} : handled'[t] = handled[t]
    BY <2>1 DEF OnceOK, TypesOK, TypeOK
  <2>3. \A v \in Workers : \A t \in Sids : (Owns(v, t))' <=> (v # w /\ Owns(v, t))
    BY <2>1, LetsGo
  <2>4. \A v \in Workers : ~(Owns(v, s))'
    BY <2>1, <2>3 DEF OnceOK
  <2>5. \A t \in Sids : handled'[t] = 0 \/
          (handled'[t] = 1 /\ t \in rows' /\ \A v \in Workers : ~(Owns(v, t))')
    <3> TAKE t \in Sids
    <3>1. CASE t = s
      BY <3>1, <2>1, <2>2, <2>4
    <3>2. CASE t # s
      BY <3>2, <2>1, <2>2, <2>3 DEF OnceOK
    <3> QED
      BY <3>1, <3>2
  <2> QED
    BY <2>3, <2>5 DEF OnceOK
<1>5. ASSUME NEW w \in Workers, TaskFails(w)
      PROVE  OnceOK'
  <2>1. Becomes(w, Idle) /\ UNCHANGED <<rows, handled>>
    BY <1>5 DEF TaskFails
  <2> QED
    BY <2>1, LetsGo DEF OnceOK
<1>6. ASSUME UNCHANGED <<rows, worker, handled>>
      PROVE  OnceOK'
  BY <1>6 DEF OnceOK, Owns
<1>7. ASSUME NEW s \in Sids, TwilioInbound(s)
      PROVE  UNCHANGED <<rows, worker, handled>>
  BY <1>7 DEF TwilioInbound
<1>8. CASE PauseSwitch \/ ReplyAges \/ MinutePasses \/ PurgeOldMessages
           \/ UNCHANGED vars
  BY <1>6, <1>8 DEF PauseSwitch, ReplyAges, MinutePasses, PurgeOldMessages, vars
<1>9. ASSUME NEW w \in Workers, OfferSent(w)
      PROVE  UNCHANGED <<rows, worker, handled>>
  BY <1>9 DEF OfferSent
<1> QED
  BY <1>1, <1>2, <1>3, <1>4, <1>5, <1>6, <1>7, <1>8, <1>9 DEF Next, Works

\* A message is handled at most once, however often the provider and the broker deliver
\* it and however many workers take it, because its row is committed before it is
\* understood and only the worker that committed it goes on (_persist_inbound).
THEOREM HandledOnce == Spec => []HandledAtMostOnce
<1>1. TypesOK /\ OnceOK => HandledAtMostOnce
  BY DEF OnceOK, HandledAtMostOnce
<1> QED
  BY <1>1, TypesInit, TypesStep, OnceInit, OnceStep, PTL DEF Spec
-----------------------------------------------------------------------------
\* The breaker counts failures in a row.

LEMMA BreakersInit == Init => BreakersOK
  BY BreakerAssumption DEF Init, BreakersOK, Closed

LEMMA BreakersStep == TypesOK /\ BreakersOK /\ [Next]_vars => BreakersOK'
<1> SUFFICES ASSUME TypesOK, BreakersOK, [Next]_vars PROVE BreakersOK'
  OBVIOUS
<1> USE DEF Tables, Asking
<1> DEFINE Counts(b, n) == IF b.opened THEN n = FailureThreshold
                           ELSE b.failures <= n /\ b.failures < FailureThreshold
<1>0. breaker \in [Workers -> Breaker] /\ streak \in [Workers -> 0..FailureThreshold]
  BY DEF TypesOK
<1>1. \A w \in Workers : Counts(breaker[w], streak[w])
  BY DEF BreakersOK
<1>2. Counts(Closed, 0) /\ Closed \in Breaker
  BY BreakerAssumption DEF Closed, Breaker
<1>3. ASSUME NEW b \in Breaker, NEW n \in 0..FailureThreshold, ~b.opened, Counts(b, n)
      PROVE  Counts(RecordFailure(b), Fails(n))
  <2>1. b.failures \in Nat /\ b.failures <= n /\ b.failures < FailureThreshold
    BY <1>3 DEF Breaker
  <2>2. CASE b.failures + 1 >= FailureThreshold
    BY <2>1, <2>2, BreakerAssumption DEF RecordFailure, Fails, AtMost
  <2>3. CASE ~(b.failures + 1 >= FailureThreshold)
    <3>1. RecordFailure(b).failures = b.failures + 1 /\ RecordFailure(b).opened = b.opened
      BY <2>3 DEF RecordFailure, Breaker
    <3> QED
      BY <1>3, <2>1, <2>3, <3>1, BreakerAssumption DEF Fails, AtMost
  <2> QED
    BY <2>2, <2>3
<1>4. ASSUME NEW b \in Breaker, NEW n \in 0..FailureThreshold, ~IsOpen(b), Counts(b, n)
      PROVE  Counts(Asked(b), n) /\ ~Asked(b).opened
  BY <1>4, BreakerAssumption DEF Asked, Closed
<1>5. ASSUME NEW w \in Workers, Understand(w)
      PROVE  BreakersOK'
  <2>1. PICK b \in Breaker, n \in 0..FailureThreshold :
           /\ breaker' = [breaker EXCEPT ![w] = b] /\ streak' = [streak EXCEPT ![w] = n]
           /\ \/ b = breaker[w] /\ n = streak[w]
              \/ b = Closed /\ n = 0
              \/ ~IsOpen(breaker[w]) /\ b = RecordFailure(Asked(breaker[w])) /\ n = Fails(streak[w])
              \/ b = RecordFailure(Closed) /\ n = Fails(0)
    BY <1>5, BreakerUnderstanding
  <2>2. Counts(b, n)
    <3>1. CASE b = breaker[w] /\ n = streak[w]
      BY <3>1, <1>1
    <3>2. CASE b = Closed /\ n = 0
      BY <3>2, <1>2
    <3>3. CASE ~IsOpen(breaker[w]) /\ b = RecordFailure(Asked(breaker[w])) /\ n = Fails(streak[w])
      <4>1. Counts(Asked(breaker[w]), streak[w]) /\ ~Asked(breaker[w]).opened
        BY <3>3, <1>0, <1>1, <1>4
      <4>2. Asked(breaker[w]) \in Breaker /\ streak[w] \in 0..FailureThreshold
        BY <1>0, BreakerTyped
      <4> QED
        BY <3>3, <4>1, <4>2, <1>3
    <3>4. CASE b = RecordFailure(Closed) /\ n = Fails(0)
      <4>1. 0 \in 0..FailureThreshold /\ ~Closed.opened
        BY BreakerAssumption DEF Closed
      <4> QED
        BY <3>4, <4>1, <1>2, <1>3
    <3> QED
      BY <2>1, <3>1, <3>2, <3>3, <3>4
  <2>3. \A v \in Workers : breaker'[v] = (IF v = w THEN b ELSE breaker[v])
                           /\ streak'[v] = (IF v = w THEN n ELSE streak[v])
    BY <1>0, <2>1
  <2> HIDE DEF Counts
  <2>4. \A v \in Workers : Counts(breaker'[v], streak'[v])
    BY <1>1, <2>2, <2>3
  <2> QED
    BY <2>4 DEF Counts, BreakersOK
<1>6. ASSUME NEW w \in Workers, TaskFails(w)
      PROVE  BreakersOK'
  <2>1. CASE UNCHANGED <<breaker, streak>>
    BY <2>1 DEF BreakersOK
  <2>2. CASE breaker' = [breaker EXCEPT ![w] = Closed] /\ streak' = [streak EXCEPT ![w] = 0]
    <3>1. \A v \in Workers : \/ breaker'[v] = Closed /\ streak'[v] = 0
                             \/ breaker'[v] = breaker[v] /\ streak'[v] = streak[v]
      BY <1>0, <2>2
    <3> HIDE DEF Counts
    <3>2. \A v \in Workers : Counts(breaker'[v], streak'[v])
      BY <1>1, <1>2, <3>1
    <3> QED
      BY <3>2 DEF Counts, BreakersOK
  <2> QED
    BY <1>6, <2>1, <2>2 DEF TaskFails
<1>7. CASE MinutePasses
  <2>1. \A w \in Workers : /\ breaker'[w].opened = breaker[w].opened
                           /\ breaker'[w].failures = breaker[w].failures
    BY <1>0, <1>7 DEF MinutePasses, Aged, Breaker
  <2>2. streak' = streak
    BY <1>7 DEF MinutePasses
  <2> QED
    BY <2>1, <2>2 DEF BreakersOK
<1>8. ASSUME UNCHANGED <<breaker, streak>>
      PROVE  BreakersOK'
  BY <1>8 DEF BreakersOK
<1>9. ASSUME NEW w \in Workers,
             (\E s \in DOMAIN queue : Take(w, s)) \/ Persist(w) \/ Send(w) \/ OfferSent(w)
      PROVE  UNCHANGED <<breaker, streak>>
  BY <1>9 DEF Take, Persist, Send, OfferSent
<1>10. ASSUME NEW s \in Sids, TwilioInbound(s)
       PROVE  UNCHANGED <<breaker, streak>>
  BY <1>10 DEF TwilioInbound
<1>11. CASE PauseSwitch \/ ReplyAges \/ PurgeOldMessages \/ UNCHANGED vars
  BY <1>8, <1>11 DEF PauseSwitch, ReplyAges, PurgeOldMessages, vars
<1> QED
  BY <1>5, <1>6, <1>7, <1>8, <1>9, <1>10, <1>11 DEF Next, Works

\* The breaker of a process is open only after FailureThreshold failed calls in a row,
\* whatever came in between, restarts of the process included (CircuitBreaker of llm.py).
THEOREM BreakerOpensOnFailuresInARow == Spec => []OpensOnFailuresInARow
<1>1. TypesOK /\ BreakersOK => OpensOnFailuresInARow
  BY BreakerAssumption DEF BreakersOK, OpensOnFailuresInARow, TypesOK
<1> QED
  BY <1>1, TypesInit, TypesStep, BreakersInit, BreakersStep, PTL DEF Spec
-----------------------------------------------------------------------------
\* The guards of the replies, by what is sent and what is about to be.

LEMMA SomeWorkers ==
  ASSUME NEW S \in SUBSET Workers
  PROVE  /\ IsFiniteSet(S) /\ Cardinality(S) \in Nat
         /\ Cardinality(Workers) \in Nat /\ Cardinality(Workers) >= 1
         /\ Cardinality(S) <= Cardinality(Workers)
         /\ \A T \in SUBSET S : Cardinality(T) \in Nat /\ Cardinality(T) <= Cardinality(S)
         /\ \A w \in S : Cardinality(S \ {w}) = Cardinality(S) - 1
<1>1. IsFiniteSet(S) /\ Cardinality(S) \in Nat /\ Cardinality(S) <= Cardinality(Workers)
  BY WorkersAssumption, FS_Subset, FS_CardinalityType
<1>2. Cardinality(Workers) \in Nat /\ Cardinality(Workers) >= 1
  BY WorkersAssumption, FS_EmptySet, FS_CardinalityType
<1>3. \A T \in SUBSET S : Cardinality(T) \in Nat /\ Cardinality(T) <= Cardinality(S)
  BY <1>1, FS_Subset, FS_CardinalityType
<1>4. \A w \in S : Cardinality(S \ {w}) = Cardinality(S) - 1
  BY <1>1, FS_RemoveElement
<1> QED
  BY <1>1, <1>2, <1>3, <1>4

LEMMA OneMore ==
  ASSUME NEW S, IsFiniteSet(S), NEW x, NEW T \in SUBSET (S \cup {x})
  PROVE  Cardinality(T) <= Cardinality(S) + 1
<1>1. Cardinality(S) \in Nat
  BY FS_CardinalityType
<1>2. IsFiniteSet(S \cup {x})
  BY FS_AddElement
<1>3. Cardinality(S \cup {x}) = Cardinality(S) \/ Cardinality(S \cup {x}) = Cardinality(S) + 1
  BY FS_AddElement
<1>4. IsFiniteSet(T) /\ Cardinality(T) <= Cardinality(S \cup {x})
  BY <1>2, FS_Subset
<1>5. Cardinality(T) \in Nat
  BY <1>4, FS_CardinalityType
<1> QED
  BY <1>1, <1>3, <1>4, <1>5

LEMMA OneToOne ==
  ASSUME NEW S, IsFiniteSet(S), NEW T, IsFiniteSet(T),
         NEW f \in [S -> T], \A i, j \in S : f[i] = f[j] => i = j
  PROVE  Cardinality(S) <= Cardinality(T)
<1>1. ~(Cardinality(T) < Cardinality(S))
  BY FS_PigeonHole
<1>2. Cardinality(S) \in Nat /\ Cardinality(T) \in Nat
  BY FS_CardinalityType
<1> QED
  BY <1>1, <1>2

\* What the end of an hour's rows takes away, and one more row adds.
LEMMA LateRows ==
  ASSUME NEW win \in Seq(BOOLEAN)
  PROVE  /\ IsFiniteSet(Late(win)) /\ Cardinality(Late(win)) \in Nat
         /\ Len(win) <= Limit => Cardinality(Late(win)) = 0
         /\ Cardinality(Late(Append(win, TRUE))) <= Cardinality(Late(win)) + 1
         /\ Cardinality(Late(Append(win, FALSE))) <= Cardinality(Late(win))
         /\ win # << >> => Cardinality(Late(Tail(win))) <= Cardinality(Late(win))
<1>1. Len(win) \in Nat /\ DOMAIN win = 1..Len(win)
  BY LenProperties
<1>2. IsFiniteSet(1..Len(win)) /\ Cardinality({}) = 0
  BY <1>1, FS_Interval, FS_EmptySet
<1>3. IsFiniteSet(Late(win)) /\ Cardinality(Late(win)) \in Nat
  <2>1. Late(win) \subseteq 1..Len(win)
    BY <1>1 DEF Late
  <2> QED
    BY <1>2, <2>1, FS_Subset, FS_CardinalityType
<1>4. ASSUME Len(win) <= Limit PROVE Cardinality(Late(win)) = 0
  <2>1. Late(win) = {}
    BY <1>1, <1>4, LimitAssumption DEF Late
  <2> QED
    BY <1>2, <2>1
<1>5. ASSUME NEW b \in BOOLEAN
      PROVE  /\ DOMAIN Append(win, b) = 1..Len(win) + 1
             /\ \A i \in 1..Len(win) : Append(win, b)[i] = win[i]
             /\ Append(win, b)[Len(win) + 1] = b
  <2>1. Append(win, b) \in Seq(BOOLEAN) /\ Len(Append(win, b)) = Len(win) + 1
    BY AppendProperties
  <2>2. DOMAIN Append(win, b) = 1..Len(win) + 1
    BY <2>1, LenProperties
  <2> QED
    BY <2>2, AppendProperties
<1>6. Late(Append(win, TRUE)) \subseteq Late(win) \cup {Len(win) + 1}
  BY <1>1, <1>5 DEF Late
<1>7. Late(Append(win, FALSE)) \subseteq Late(win)
  BY <1>1, <1>5 DEF Late
<1>8. Cardinality(Late(Append(win, TRUE))) <= Cardinality(Late(win)) + 1
  BY <1>3, <1>6, OneMore
<1>9. Cardinality(Late(Append(win, FALSE))) <= Cardinality(Late(win))
  BY <1>3, <1>7, FS_Subset
<1>10. ASSUME win # << >>
       PROVE  Cardinality(Late(Tail(win))) <= Cardinality(Late(win))
  <2>1. /\ DOMAIN Tail(win) = 1..Len(win) - 1
        /\ \A i \in 1..Len(win) - 1 : Tail(win)[i] = win[i + 1]
    <3>1. Tail(win) \in Seq(BOOLEAN) /\ Len(Tail(win)) = Len(win) - 1
      BY <1>10, HeadTailProperties
    <3>2. DOMAIN Tail(win) = 1..Len(win) - 1
      BY <3>1, LenProperties
    <3> QED
      BY <1>10, <3>1, <3>2, HeadTailProperties
  <2> DEFINE f == [i \in Late(Tail(win)) |-> i + 1]
  <2>2. \A i \in Late(Tail(win)) : i \in Nat /\ i + 1 \in Late(win)
    BY <1>1, <2>1, LimitAssumption DEF Late
  <2>3. IsFiniteSet(Late(Tail(win)))
    <3>1. Late(Tail(win)) \subseteq 1..Len(win)
      BY <1>1, <2>1 DEF Late
    <3> QED
      BY <1>2, <3>1, FS_Subset
  <2>4. f \in [Late(Tail(win)) -> Late(win)]
    BY <2>2
  <2>5. \A i, j \in Late(Tail(win)) : f[i] = f[j] => i = j
    BY <2>2
  <2> HIDE DEF f
  <2> QED
    BY <1>3, <2>3, <2>4, <2>5, OneToOne
<1> QED
  BY <1>3, <1>4, <1>8, <1>9, <1>10

LEMMA GuardsInit == Init => GuardsOK
<1> SUFFICES ASSUME Init PROVE GuardsOK
  OBVIOUS
<1>1. \A kind : Sending(kind) = {}
  BY DEF Init, Sending, Idle
<1>2. Cardinality({}) = 0 /\ Cardinality(Workers) \in Nat /\ Cardinality(Workers) >= 1
  BY SomeWorkers, FS_EmptySet
<1>3. clar = 0 /\ which \in 0..2
  BY DEF Init
<1>5. \A kind : Cardinality(Sending(kind)) = 0
  BY <1>1, <1>2
<1>6. clar + Cardinality(Sending("ask_clarification")) <= Cardinality(Workers)
  BY <1>2, <1>3, <1>5
<1>7. which + Cardinality(Sending("ask_which_shift")) <= 2 + Cardinality(Workers) - 1
  BY <1>2, <1>3, <1>5
<1> QED
  BY <1>6, <1>7 DEF GuardsOK

\* Nothing is sent and no worker decides a reply.
LEMMA GuardsKept ==
  ASSUME TypesOK, GuardsOK, clar' \in 0..clar, which' \in 0..which,
         \A kind \in Reply : (Sending(kind))' \subseteq Sending(kind)
  PROVE  GuardsOK'
<1>1. \A kind : Sending(kind) \in SUBSET Workers
  BY DEF Sending
<1>2. \A kind \in Reply : /\ Cardinality(Sending(kind)) \in Nat
                          /\ Cardinality((Sending(kind))') \in Nat
                          /\ Cardinality((Sending(kind))') <= Cardinality(Sending(kind))
  BY <1>1, SomeWorkers
<1>3. Cardinality(Workers) \in Nat /\ clar \in Nat /\ which \in Nat
  BY <1>1, SomeWorkers DEF TypesOK, TypeOK
<1>4. {"ask_clarification", "ask_which_shift", "counted"} \subseteq Reply
  BY DEF Reply
<1>5. (clar + Cardinality(Sending("ask_clarification")) <= Cardinality(Workers))'
  BY <1>2, <1>3, <1>4 DEF GuardsOK
<1>6. (which + Cardinality(Sending("ask_which_shift")) <= 2 + Cardinality(Workers) - 1)'
  BY <1>2, <1>3, <1>4 DEF GuardsOK
<1> QED
  BY <1>5, <1>6 DEF GuardsOK

LEMMA GuardsStep == TypesOK /\ GuardsOK /\ [Next]_vars => GuardsOK'
<1> SUFFICES ASSUME TypesOK, GuardsOK, [Next]_vars PROVE GuardsOK'
  OBVIOUS
<1> USE DEF Tables, Asking
<1>1. \A kind : Sending(kind) \in SUBSET Workers
  BY DEF Sending
<1>2. /\ Cardinality(Workers) \in Nat /\ Cardinality(Workers) >= 1 /\ clar \in Nat /\ which \in Nat
      /\ worker \in [Workers -> Activity]
  <2>1. clar \in Nat /\ which \in Nat /\ worker \in [Workers -> Activity]
    BY DEF TypesOK, TypeOK
  <2>2. Cardinality(Workers) \in Nat /\ Cardinality(Workers) >= 1
    BY <1>1, SomeWorkers
  <2> QED
    BY <2>1, <2>2
<1>3. ASSUME UNCHANGED <<clar, which>>, \A kind \in Reply : (Sending(kind))' \subseteq Sending(kind)
      PROVE  GuardsOK'
  <2>1. clar' \in 0..clar /\ which' \in 0..which
    BY <1>2, <1>3
  <2> QED
    BY <1>3, <2>1, GuardsKept
<1>4. ASSUME NEW w \in Workers, Becomes(w, Idle) \/ worker' = worker \/ worker'[w].step = "understand",
             \A v \in Workers \ {w} : worker'[v] = worker[v]
      PROVE  \A kind \in Reply : (Sending(kind))' \subseteq Sending(kind)
  <2>0. Idle.step = "idle"
    BY DEF Idle
  <2>1. worker'[w].step # "send" \/ worker' = worker
    BY <1>2, <1>4, <2>0 DEF Becomes
  <2> QED
    BY <1>4, <2>1 DEF Sending
<1>5. ASSUME NEW w \in Workers, NEW s \in DOMAIN queue, Take(w, s)
      PROVE  GuardsOK'
  <2> DEFINE a == [Idle EXCEPT !.step = "persist", !.sid = s, !.opens = ~conversation]
  <2>1. a.step = "persist"
    BY DEF Idle
  <2>2. worker' = worker \/ worker' = [worker EXCEPT ![w] = a]
    BY <1>5 DEF Take, Becomes
  <2> HIDE DEF a
  <2>3. \A kind \in Reply : (Sending(kind))' \subseteq Sending(kind)
    BY <1>2, <2>1, <2>2 DEF Sending
  <2>4. UNCHANGED <<clar, which>>
    BY <1>5 DEF Take
  <2> QED
    BY <1>3, <2>3, <2>4
<1>6. ASSUME NEW w \in Workers, Persist(w)
      PROVE  GuardsOK'
  <2>1. \/ Becomes(w, Idle)
        \/ worker' = [worker EXCEPT ![w] = [worker[w] EXCEPT !.step = "understand"]]
    BY <1>6 DEF Persist, Becomes
  <2>2. [worker[w] EXCEPT !.step = "understand"].step = "understand"
    BY <1>2 DEF Activity
  <2>3. Becomes(w, Idle) \/ worker'[w].step = "understand"
    BY <1>2, <2>1, <2>2
  <2>4. \A v \in Workers \ {w} : worker'[v] = worker[v]
    BY <1>2, <2>1 DEF Becomes
  <2>5. UNCHANGED <<clar, which>>
    BY <1>6 DEF Persist
  <2> QED
    BY <1>3, <1>4, <2>3, <2>4, <2>5
<1>7. ASSUME NEW w \in Workers, TaskFails(w)
      PROVE  GuardsOK'
  <2>1. Becomes(w, Idle) /\ UNCHANGED <<clar, which>>
    BY <1>7 DEF TaskFails
  <2>2. \A v \in Workers \ {w} : worker'[v] = worker[v]
    BY <1>2, <2>1 DEF Becomes
  <2> QED
    BY <1>3, <1>4, <2>1, <2>2
<1>8. ASSUME NEW w \in Workers, Understand(w)
      PROVE  GuardsOK'
  <2>1. worker[w].step = "understand" /\ UNCHANGED <<clar, which>>
    BY <1>8, Understanding
  <2>2. PICK kind :
          /\ kind \in Reply
          /\ worker' = [worker EXCEPT ![w] = [worker[w] EXCEPT !.step = "send", !.reply = kind]]
          /\ kind = "ask_clarification" => clar = 0
          /\ kind = "ask_which_shift" => which < 2
          /\ kind = "counted" => ~OutboundLimitReached(window)
    BY <1>8, Understanding
  <2>3. \A v \in Workers \ {w} : worker'[v] = worker[v]
    BY <1>2, <2>2
  <2>4. worker'[w].step = "send" /\ worker'[w].reply = kind
    BY <1>2, <2>2 DEF Activity
  <2>5. \A k \in Reply : k # kind => (Sending(k))' \subseteq Sending(k)
    BY <2>3, <2>4 DEF Sending
  <2>6. \A k \in Reply : /\ (Sending(k))' \in SUBSET Workers
                         /\ Cardinality((Sending(k))') \in Nat
                         /\ Cardinality((Sending(k))') <= Cardinality(Workers)
                         /\ Cardinality(Sending(k)) \in Nat
    <3>1. \A k \in Reply : (Sending(k))' \in SUBSET Workers
      BY DEF Sending
    <3> QED
      BY <1>1, <3>1, SomeWorkers
  <2>7. \A k \in Reply : k # kind => Cardinality((Sending(k))') <= Cardinality(Sending(k))
    BY <1>1, <2>5, SomeWorkers
  <2>8. {"ask_clarification", "ask_which_shift", "counted"} \subseteq Reply
    BY DEF Reply
  <2>9. (clar + Cardinality(Sending("ask_clarification")) <= Cardinality(Workers))'
    <3>1. CASE kind = "ask_clarification"
      <4>1. clar' = 0
        BY <2>1, <2>2, <3>1
      <4>2. "ask_clarification" \in Reply
        BY <2>8
      <4>3. /\ Cardinality((Sending("ask_clarification"))') \in Nat
            /\ Cardinality((Sending("ask_clarification"))') <= Cardinality(Workers)
        BY <2>6, <4>2
      <4> QED
        BY <1>2, <4>1, <4>3
    <3>2. CASE kind # "ask_clarification"
      <4>1. clar' = clar /\ Cardinality((Sending("ask_clarification"))') <= Cardinality(Sending("ask_clarification"))
        BY <2>1, <2>7, <2>8, <3>2
      <4> QED
        BY <1>2, <2>6, <2>8, <4>1 DEF GuardsOK
    <3> QED
      BY <3>1, <3>2
  <2>10. (which + Cardinality(Sending("ask_which_shift")) <= 2 + Cardinality(Workers) - 1)'
    <3>1. CASE kind = "ask_which_shift"
      <4>1. which' <= 1
        BY <1>2, <2>1, <2>2, <3>1
      <4> QED
        BY <1>2, <2>1, <2>6, <2>8, <4>1
    <3>2. CASE kind # "ask_which_shift"
      <4>1. which' = which /\ Cardinality((Sending("ask_which_shift"))') <= Cardinality(Sending("ask_which_shift"))
        BY <2>1, <2>7, <2>8, <3>2
      <4> QED
        BY <1>2, <2>6, <2>8, <4>1 DEF GuardsOK
    <3> QED
      BY <3>1, <3>2
  <2> QED
    BY <2>9, <2>10 DEF GuardsOK
<1>9. ASSUME NEW w \in Workers, Send(w)
      PROVE  GuardsOK'
  <2>1. worker[w].step = "send" /\ Becomes(w, Idle)
    BY <1>9 DEF Send
  <2>2. \A k \in Reply : (Sending(k))' = Sending(k) \ {w}
    <3>1. \A v \in Workers \ {w} : worker'[v] = worker[v]
      BY <1>2, <2>1 DEF Becomes
    <3>2. worker'[w].step # "send"
      BY <1>2, <2>1 DEF Becomes, Idle
    <3> QED
      BY <3>1, <3>2 DEF Sending
  <2>3. CASE UNCHANGED <<clar, which>>
    BY <1>3, <2>2, <2>3
  <2>4. CASE /\ clar' = IF worker[w].reply = "ask_clarification" THEN clar + 1 ELSE clar
             /\ which' = IF worker[w].reply = "ask_which_shift" THEN which + 1 ELSE which
    <3>1. PICK kind : kind \in Reply /\ kind = worker[w].reply
      BY <1>2 DEF Activity
    <3>2. w \in Sending(kind)
      BY <2>1, <3>1 DEF Sending
    <3>3. \A k \in Reply : /\ Cardinality(Sending(k)) \in Nat /\ Cardinality((Sending(k))') \in Nat
                           /\ Cardinality((Sending(k))') <= Cardinality(Sending(k))
                           /\ w \in Sending(k) => Cardinality((Sending(k))') = Cardinality(Sending(k)) - 1
      BY <1>1, <2>2, SomeWorkers
    <3>4. {"ask_clarification", "ask_which_shift", "counted"} \subseteq Reply
      BY DEF Reply
    <3>5. (clar + Cardinality(Sending("ask_clarification")) <= Cardinality(Workers))'
      <4>1. \/ clar' = clar
            \/ clar' = clar + 1 /\ w \in Sending("ask_clarification")
        BY <2>4, <3>1, <3>2
      <4> QED
        BY <1>2, <3>3, <3>4, <4>1, SMTT(30) DEF GuardsOK
    <3>6. (which + Cardinality(Sending("ask_which_shift")) <= 2 + Cardinality(Workers) - 1)'
      <4>1. \/ which' = which
            \/ which' = which + 1 /\ w \in Sending("ask_which_shift")
        BY <2>4, <3>1, <3>2
      <4> QED
        BY <1>2, <3>3, <3>4, <4>1, SMTT(30) DEF GuardsOK
    <3> QED
      BY <3>5, <3>6 DEF GuardsOK
  <2> QED
    BY <1>9, <2>3, <2>4 DEF Send
<1>10. CASE PurgeOldMessages
  <2>1. clar' \in 0..clar /\ which' \in 0..which /\ UNCHANGED worker
    BY <1>10 DEF PurgeOldMessages
  <2>2. \A kind \in Reply : (Sending(kind))' \subseteq Sending(kind)
    BY <2>1 DEF Sending
  <2> QED
    BY <2>1, <2>2, GuardsKept
<1>11. ASSUME UNCHANGED <<clar, which, worker>>
       PROVE  GuardsOK'
  <2>1. \A kind \in Reply : (Sending(kind))' \subseteq Sending(kind)
    BY <1>11 DEF Sending
  <2> QED
    BY <1>3, <1>11, <2>1
<1>12. ASSUME NEW s \in Sids, TwilioInbound(s)
       PROVE  UNCHANGED <<clar, which, worker>>
  BY <1>12 DEF TwilioInbound
<1>13. ASSUME NEW w \in Workers, OfferSent(w)
       PROVE  UNCHANGED <<clar, which, worker>>
  BY <1>13 DEF OfferSent
<1>14. CASE PauseSwitch \/ ReplyAges \/ MinutePasses \/ UNCHANGED vars
  BY <1>11, <1>14 DEF PauseSwitch, ReplyAges, MinutePasses, vars
<1> QED
  BY <1>5, <1>6, <1>7, <1>8, <1>9, <1>10, <1>11, <1>12, <1>13, <1>14 DEF Next, Works

LEMMA QuestionsFollow == TypesOK /\ GuardsOK => QuestionsBounded
<1> SUFFICES ASSUME TypesOK, GuardsOK PROVE QuestionsBounded
  OBVIOUS
<1>1. \A kind : Cardinality(Sending(kind)) \in Nat
  BY SomeWorkers DEF Sending
<1>2. Cardinality(Workers) \in Nat /\ clar \in Nat /\ which \in Nat
  BY SomeWorkers DEF TypesOK, TypeOK
<1> QED
  BY <1>1, <1>2 DEF GuardsOK, QuestionsBounded

\* The two questions of the loop guards are asked as often as the guards say and once more
\* by each other worker, for any number of workers (_clarify_once, _ask_which_shift_again).
THEOREM QuestionsAreBounded == Spec => []QuestionsBounded
  BY TypesInit, TypesStep, GuardsInit, GuardsStep, QuestionsFollow, PTL DEF Spec
-----------------------------------------------------------------------------
\* The limit.

LEMMA LimitInit == Init => LimitOK
<1> SUFFICES ASSUME Init PROVE LimitOK
  OBVIOUS
<1>1. Sending("counted") = {} /\ Cardinality({}) = 0
  BY FS_EmptySet DEF Init, Sending, Idle
<1>2. Cardinality(Workers) \in Nat /\ Cardinality(Workers) >= 1
  BY WorkersAssumption, FS_EmptySet, FS_CardinalityType
<1>3. window \in Seq(BOOLEAN) /\ Len(window) <= Limit
  <2>1. CASE window = << >>
    BY <2>1, LimitAssumption
  <2>2. CASE window = [i \in 1..Limit |-> TRUE]
    BY <2>2, LimitAssumption, IsASeq, LenProperties
  <2> QED
    BY <2>1, <2>2 DEF Init
<1>4. Cardinality(Late(window)) = 0
  BY <1>3, LateRows
<1>5. Cardinality(Sending("counted")) = 0
  BY <1>1
<1>6. Cardinality(Late(window)) + Cardinality(Sending("counted")) <= Cardinality(Workers) - 1
  BY <1>2, <1>4, <1>5
<1> QED
  BY <1>6 DEF LimitOK

\* Nobody decides a reply that asks the limit; rows only leave the hour.
LEMMA LimitKept ==
  ASSUME TypesOK, LimitOK, window' = window \/ (window # << >> /\ window' = Tail(window)),
         (Sending("counted"))' \subseteq Sending("counted")
  PROVE  LimitOK'
<1>1. Sending("counted") \in SUBSET Workers
  BY DEF Sending
<1>2. /\ Cardinality(Sending("counted")) \in Nat /\ Cardinality((Sending("counted"))') \in Nat
      /\ Cardinality((Sending("counted"))') <= Cardinality(Sending("counted"))
      /\ Cardinality(Workers) \in Nat
  BY <1>1, SomeWorkers
<1>3. window \in Seq(BOOLEAN) /\ Len(window) \in Nat
  BY LenProperties DEF TypesOK, TypeOK
<1>4. window' \in Seq(BOOLEAN) /\ Len(window') \in Nat /\ Len(window') <= Len(window)
  BY <1>3, HeadTailProperties
<1>5. /\ Cardinality(Late(window)) \in Nat /\ Cardinality(Late(window')) \in Nat
      /\ Cardinality(Late(window')) <= Cardinality(Late(window))
  <2>1. Cardinality(Late(window)) \in Nat /\ Cardinality(Late(window')) \in Nat
    BY <1>3, <1>4, LateRows
  <2>2. CASE window' = window
    BY <2>1, <2>2
  <2>3. CASE window # << >> /\ window' = Tail(window)
    BY <1>3, <2>1, <2>3, LateRows
  <2> QED
    BY <2>1, <2>2, <2>3
<1> QED
  BY <1>2, <1>3, <1>4, <1>5, LimitAssumption DEF LimitOK

\* A worker that is not left with a reply to send adds a row.
LEMMA RowAdded ==
  ASSUME TypesOK, LimitOK, NEW w \in Workers, NEW b \in BOOLEAN, window' = Append(window, b),
         (Sending("counted"))' = Sending("counted") \ {w}, b => w \in Sending("counted")
  PROVE  LimitOK'
<1> DEFINE S == Sending("counted")
           T == (Sending("counted"))'
<1>1. S \in SUBSET Workers /\ T \in SUBSET (Workers \ {w}) /\ T \in SUBSET S
  BY DEF Sending
<1>2. Cardinality(S) \in Nat /\ Cardinality(Workers) \in Nat
  BY <1>1, SomeWorkers
<1>3. Cardinality(T) \in Nat /\ Cardinality(T) <= Cardinality(S)
  BY <1>1, SomeWorkers
<1>4. Cardinality(T) <= Cardinality(Workers) - 1
  <2>1. Cardinality(Workers \ {w}) = Cardinality(Workers) - 1
    BY SomeWorkers
  <2>2. Cardinality(T) <= Cardinality(Workers \ {w})
    BY <1>1, SomeWorkers
  <2> QED
    BY <2>1, <2>2
<1>5. w \in S => Cardinality(T) = Cardinality(S) - 1
  BY <1>1, SomeWorkers
<1>6. window \in Seq(BOOLEAN) /\ Len(window) \in Nat
  BY LenProperties DEF TypesOK, TypeOK
<1>7. window' \in Seq(BOOLEAN) /\ Len(window') = Len(window) + 1
  BY <1>6, AppendProperties
<1>8. /\ Cardinality(Late(window)) \in Nat /\ Cardinality(Late(window')) \in Nat
      /\ Len(window') <= Limit => Cardinality(Late(window')) = 0
  BY <1>6, <1>7, LateRows
<1>9. /\ b => Cardinality(Late(window')) <= Cardinality(Late(window)) + 1
      /\ ~b => Cardinality(Late(window')) <= Cardinality(Late(window))
  <2>1. CASE b = TRUE
    BY <1>6, <2>1, LateRows
  <2>2. CASE b = FALSE
    BY <1>6, <2>2, LateRows
  <2> QED
    BY <2>1, <2>2
<1>10. Limit > 0 /\ Len(window) >= Limit => Cardinality(Late(window)) + Cardinality(S) <= Cardinality(Workers) - 1
  BY DEF LimitOK
<1> HIDE DEF S, T
<1>11. Limit > 0 /\ Len(window') >= Limit => Cardinality(Late(window')) + Cardinality(T) <= Cardinality(Workers) - 1
  <2> SUFFICES ASSUME Limit > 0, Len(window') >= Limit
               PROVE  Cardinality(Late(window')) + Cardinality(T) <= Cardinality(Workers) - 1
    OBVIOUS
  <2>1. CASE Len(window') = Limit
    BY <1>2, <1>3, <1>4, <1>8, <2>1, LimitAssumption
  <2>2. CASE Len(window') # Limit
    <3>1. Cardinality(Late(window)) + Cardinality(S) <= Cardinality(Workers) - 1
      BY <1>6, <1>7, <1>10, <2>2, LimitAssumption
    <3>2. CASE b
      <4>1. Cardinality(T) = Cardinality(S) - 1
        BY <1>5, <3>2 DEF S
      <4>2. Cardinality(Late(window')) <= Cardinality(Late(window)) + 1
        BY <1>9, <3>2
      <4> QED
        BY <1>2, <1>3, <1>8, <3>1, <4>1, <4>2
    <3>3. CASE ~b
      <4>1. Cardinality(Late(window')) <= Cardinality(Late(window))
        BY <1>9, <3>3
      <4> QED
        BY <1>2, <1>3, <1>8, <3>1, <4>1
    <3> QED
      BY <3>2, <3>3
  <2> QED
    BY <2>1, <2>2
<1> QED
  BY <1>11 DEF LimitOK, T

LEMMA LimitStep == TypesOK /\ LimitOK /\ [Next]_vars => LimitOK'
<1> SUFFICES ASSUME TypesOK, LimitOK, [Next]_vars PROVE LimitOK'
  OBVIOUS
<1> USE DEF Tables, Asking
<1>1. worker \in [Workers -> Activity] /\ window \in Seq(BOOLEAN) /\ Len(window) \in Nat
  BY LenProperties DEF TypesOK, TypeOK
<1>2. ASSUME NEW w \in Workers, NEW a, worker' = [worker EXCEPT ![w] = a], a.step # "send"
      PROVE  (Sending("counted"))' = Sending("counted") \ {w}
  BY <1>1, <1>2 DEF Sending
<1>3. ASSUME NEW w \in Workers, NEW s \in DOMAIN queue, Take(w, s)
      PROVE  LimitOK'
  <2> DEFINE a == [Idle EXCEPT !.step = "persist", !.sid = s, !.opens = ~conversation]
  <2>1. a.step = "persist"
    BY DEF Idle
  <2>2. (worker' = worker \/ worker' = [worker EXCEPT ![w] = a]) /\ window' = window
    BY <1>3 DEF Take, Becomes
  <2> HIDE DEF a
  <2>3. (Sending("counted"))' \subseteq Sending("counted")
    <3>1. CASE worker' = worker
      BY <3>1 DEF Sending
    <3>2. CASE worker' = [worker EXCEPT ![w] = a]
      BY <1>2, <2>1, <3>2
    <3> QED
      BY <2>2, <3>1, <3>2
  <2> QED
    BY <2>2, <2>3, LimitKept
<1>4. ASSUME NEW w \in Workers, Persist(w)
      PROVE  LimitOK'
  <2> DEFINE a == IF Duplicate(w) THEN Idle ELSE [worker[w] EXCEPT !.step = "understand"]
  <2>1. a.step # "send"
    BY <1>1 DEF Idle, Activity
  <2>2. worker' = [worker EXCEPT ![w] = a] /\ window' = window
    BY <1>4 DEF Persist, Becomes
  <2> HIDE DEF a
  <2> QED
    BY <1>2, <2>1, <2>2, LimitKept
<1>5. ASSUME NEW w \in Workers, TaskFails(w)
      PROVE  LimitOK'
  <2>1. Idle.step # "send" /\ worker' = [worker EXCEPT ![w] = Idle] /\ window' = window
    BY <1>5 DEF TaskFails, Becomes, Idle
  <2> QED
    BY <1>2, <2>1, LimitKept
<1>6. ASSUME NEW w \in Workers, Understand(w)
      PROVE  LimitOK'
  <2>1. worker[w].step = "understand" /\ window' = window
    BY <1>6, Understanding
  <2>2. PICK kind :
          /\ kind \in Reply
          /\ worker' = [worker EXCEPT ![w] = [worker[w] EXCEPT !.step = "send", !.reply = kind]]
          /\ kind = "counted" => ~OutboundLimitReached(window)
    BY <1>6, Understanding
  <2>3. CASE kind = "counted"
    <3>1. ~(Limit > 0 /\ Len(window') >= Limit)
      BY <2>1, <2>2, <2>3 DEF OutboundLimitReached
    <3> QED
      BY <3>1 DEF LimitOK
  <2>4. CASE kind # "counted"
    <3>1. (Sending("counted"))' \subseteq Sending("counted")
      BY <1>1, <2>2, <2>4 DEF Sending, Activity
    <3> QED
      BY <2>1, <3>1, LimitKept
  <2> QED
    BY <2>3, <2>4
<1>7. ASSUME NEW w \in Workers, Send(w)
      PROVE  LimitOK'
  <2>1. worker[w].step = "send" /\ worker' = [worker EXCEPT ![w] = Idle] /\ Idle.step # "send"
    BY <1>7 DEF Send, Becomes, Idle
  <2>2. (Sending("counted"))' = Sending("counted") \ {w}
    BY <1>2, <2>1
  <2>3. CASE window' = window
    BY <2>2, <2>3, LimitKept
  <2>4. CASE window' = Append(window, worker[w].reply = "counted")
    <3> DEFINE b == worker[w].reply = "counted"
    <3>1. b \in BOOLEAN /\ (b => w \in Sending("counted")) /\ window' = Append(window, b)
      BY <2>1, <2>4 DEF Sending
    <3> HIDE DEF b
    <3> QED
      BY <2>2, <3>1, RowAdded
  <2> QED
    BY <1>7, <2>3, <2>4 DEF Send
<1>8. ASSUME NEW w \in Workers, OfferSent(w)
      PROVE  LimitOK'
  <2>1. worker[w].step # "send" /\ UNCHANGED worker /\ window' = Append(window, FALSE)
    <3>1. worker[w] = Idle /\ UNCHANGED worker /\ window' = Append(window, FALSE)
      BY <1>8 DEF OfferSent
    <3>2. Idle.step # "send"
      BY DEF Idle
    <3> QED
      BY <3>1, <3>2
  <2>2. (Sending("counted"))' = Sending("counted") \ {w}
    BY <2>1 DEF Sending
  <2> QED
    BY <2>1, <2>2, RowAdded
<1>9. ASSUME UNCHANGED worker, window' = window \/ (window # << >> /\ window' = Tail(window))
      PROVE  LimitOK'
  <2>1. (Sending("counted"))' \subseteq Sending("counted")
    BY <1>9 DEF Sending
  <2> QED
    BY <1>9, <2>1, LimitKept
<1>10. ASSUME NEW s \in Sids, TwilioInbound(s)
       PROVE  UNCHANGED <<window, worker>>
  BY <1>10 DEF TwilioInbound
<1>11. CASE PauseSwitch \/ ReplyAges \/ MinutePasses \/ PurgeOldMessages \/ UNCHANGED vars
  BY <1>9, <1>11 DEF PauseSwitch, ReplyAges, MinutePasses, PurgeOldMessages, vars
<1> QED
  BY <1>3, <1>4, <1>5, <1>6, <1>7, <1>8, <1>9, <1>10, <1>11 DEF Next, Works

LEMMA LimitFollows == TypesOK /\ LimitOK => LimitedRepliesHeldBack
<1> SUFFICES ASSUME TypesOK, LimitOK, Limit > 0
             PROVE  Cardinality(Late(window)) <= Cardinality(Workers) - 1
  BY DEF LimitedRepliesHeldBack, Late
<1>1. Cardinality(Sending("counted")) \in Nat /\ Cardinality(Workers) \in Nat /\ Cardinality(Workers) >= 1
  BY SomeWorkers DEF Sending
<1>2. window \in Seq(BOOLEAN) /\ Len(window) \in Nat
  BY LenProperties DEF TypesOK, TypeOK
<1>3. Cardinality(Late(window)) \in Nat /\ (Len(window) <= Limit => Cardinality(Late(window)) = 0)
  BY <1>2, LateRows
<1> QED
  BY <1>1, <1>2, <1>3, LimitAssumption DEF LimitOK

\* Once the hour has its Limit messages, of whatever kind, the replies that ask the limit
\* go past it at most as often as there are other workers, for every limit and any number
\* of workers; what is sent without asking counts and is not held back
\* (_outbound_limit_reached and _send_template).
THEOREM LimitedRepliesAreHeldBack == Spec => []LimitedRepliesHeldBack
  BY TypesInit, TypesStep, LimitInit, LimitStep, LimitFollows, PTL DEF Spec
=============================================================================
