--------------------- MODULE ConfigHandlerSettingsProofs ---------------------
(***************************************************************************)
(* Proof that ConfigHandler implements ComponentSettings under the mapping *)
(* of ConfigHandler!CS: a push owes every setting it changes, each         *)
(* callback copies one owed setting from the candidate and pays it off,    *)
(* and the other callbacks leave the settings and the debts alone.  That   *)
(* a callback pays off its setting rests on a fact of its own: on_config   *)
(* never queues a callback twice (OnceIInv), so once a callback has run    *)
(* its name is no longer queued.                                           *)
(***************************************************************************)
EXTENDS ConfigHandlerAppliedProofs

(* No callback name is queued twice. *)
OnceIInv == IsInjective(pending)

----------------------------------------------------------------------------
(* A callback pushed under a condition is queued at most once. *)
LEMMA WhenInjective ==
    ASSUME NEW b, NEW x
    PROVE  IsInjective(When(b, x))
BY DEF When, IsInjective

(* Two queues with no name in common, each without repetition, make one   *)
(* queue without repetition.                                              *)
LEMMA ConcatInjective ==
    ASSUME NEW S, NEW s \in Seq(S), NEW t \in Seq(S),
           IsInjective(s), IsInjective(t), Range(s) \cap Range(t) = {}
    PROVE  IsInjective(s \o t)
<1>1. /\ Len(s \o t) = Len(s) + Len(t)
      /\ \A i \in 1 .. Len(s) + Len(t) :
            (s \o t)[i] = IF i <= Len(s) THEN s[i] ELSE t[i - Len(s)]
      /\ s \o t \in Seq(S)
    BY ConcatProperties
<1>2. /\ DOMAIN (s \o t) = 1 .. Len(s) + Len(t)
      /\ DOMAIN s = 1 .. Len(s) /\ DOMAIN t = 1 .. Len(t)
      /\ Len(s) \in Nat /\ Len(t) \in Nat
    BY <1>1
<1>3. /\ \A i \in 1 .. Len(s) : s[i] \in Range(s)
      /\ \A i \in 1 .. Len(t) : t[i] \in Range(t)
    BY <1>2 DEF Range
<1>. QED
    BY <1>1, <1>2, <1>3 DEF IsInjective

(* Running the head of a queue without repetition leaves a queue without  *)
(* repetition in which the head is no longer queued.                      *)
LEMMA TailInjective ==
    ASSUME NEW S, NEW s \in Seq(S), s # <<>>, IsInjective(s)
    PROVE  /\ IsInjective(Tail(s))
           /\ Head(s) \notin Range(Tail(s))
<1>1. /\ Tail(s) \in Seq(S) /\ Len(Tail(s)) = Len(s) - 1
      /\ \A i \in 1 .. Len(Tail(s)) : Tail(s)[i] = s[i + 1]
    BY HeadTailProperties
<1>2. /\ Len(s) \in Nat \ {0} /\ Head(s) = s[1]
      /\ DOMAIN s = 1 .. Len(s) /\ DOMAIN Tail(s) = 1 .. Len(s) - 1
    BY <1>1, EmptySeq, LenProperties
<1>3. IsInjective(Tail(s))
    BY <1>1, <1>2 DEF IsInjective
<1>4. Head(s) \notin Range(Tail(s))
    BY <1>1, <1>2 DEF IsInjective, Range
<1>. QED
    BY <1>3, <1>4

(* Appending a queue of other names keeps a queue without repetition. *)
LEMMA ChainStep ==
    ASSUME NEW p \in Seq(CallbackNames), NEW w \in Seq(CallbackNames),
           IsInjective(p), IsInjective(w), Range(p) \cap Range(w) = {}
    PROVE  /\ p \o w \in Seq(CallbackNames) /\ IsInjective(p \o w)
           /\ Range(p \o w) = Range(p) \cup Range(w)
BY ConcatInjective, ConcatRange

(* on_config queues every callback at most once: each section pushes its  *)
(* own callback, and the restart comes last.                              *)
LEMMA QueueInjective ==
    ASSUME NEW c1, NEW new, NEW q \in BOOLEAN
    PROVE  IsInjective(Callbacks(c1, new) \o When(q, "restart"))
<1>. DEFINE x1 == IF new.dispatcher.enabled THEN "start_dispatcher"
                  ELSE "stop_dispatcher"
            W1 == When(c1.dispatcher.enabled # new.dispatcher.enabled, x1)
            W2 == When(c1.dispatcher.global_pps_threshold
                       # new.dispatcher.global_pps_threshold, "leaky_bucket")
            W3 == When(c1.stats # new.stats, "stats")
            W4 == When(c1.debug # new.debug, "debug")
            W5 == When(CgroupChange(c1, new), "cgroup")
            W6 == When(c1.npb # new.npb, "npb")
            W7 == When(q, "restart")
            P2 == W1 \o W2
            P3 == P2 \o W3
            P4 == P3 \o W4
            P5 == P4 \o W5
            P6 == P5 \o W6
            P7 == P6 \o W7
            N == CallbackNames
<1>1. Callbacks(c1, new) \o When(q, "restart") = P7
    BY DEF Callbacks
<1>2. /\ W1 \in Seq(N) /\ Range(W1) \subseteq {"start_dispatcher", "stop_dispatcher"}
      /\ W2 \in Seq(N) /\ Range(W2) \subseteq {"leaky_bucket"}
      /\ W3 \in Seq(N) /\ Range(W3) \subseteq {"stats"}
      /\ W4 \in Seq(N) /\ Range(W4) \subseteq {"debug"}
      /\ W5 \in Seq(N) /\ Range(W5) \subseteq {"cgroup"}
      /\ W6 \in Seq(N) /\ Range(W6) \subseteq {"npb"}
      /\ W7 \in Seq(N) /\ Range(W7) \subseteq {"restart"}
    <2>1. x1 \in N /\ CgroupChange(c1, new) \in BOOLEAN
        BY DEF CallbackNames, CgroupChange
    <2>. QED
        BY <2>1, WhenRange DEF CallbackNames
<1>3. /\ IsInjective(W1) /\ IsInjective(W2) /\ IsInjective(W3) /\ IsInjective(W4)
      /\ IsInjective(W5) /\ IsInjective(W6) /\ IsInjective(W7)
    BY WhenInjective
<1>. HIDE DEF W1, W2, W3, W4, W5, W6, W7, P2, P3, P4, P5, P6, P7
<1>4. /\ P2 \in Seq(N) /\ IsInjective(P2)
      /\ Range(P2) \subseteq {"start_dispatcher", "stop_dispatcher", "leaky_bucket"}
    <2>1. Range(W1) \cap Range(W2) = {}
        BY <1>2, <1>3
    <2>2. /\ W1 \o W2 \in Seq(CallbackNames) /\ IsInjective(W1 \o W2)
          /\ Range(W1 \o W2) = Range(W1) \cup Range(W2)
        BY <1>2, <1>3, <2>1, ChainStep DEF N
    <2>. QED
        BY <1>2, <1>3, <2>2 DEF P2, N
<1>5. /\ P3 \in Seq(N) /\ IsInjective(P3)
      /\ Range(P3) \subseteq {"start_dispatcher", "stop_dispatcher", "leaky_bucket",
                              "stats"}
    <2>1. Range(P2) \cap Range(W3) = {}
        BY <1>2, <1>3, <1>4
    <2>2. /\ P2 \o W3 \in Seq(CallbackNames) /\ IsInjective(P2 \o W3)
          /\ Range(P2 \o W3) = Range(P2) \cup Range(W3)
        BY <1>2, <1>3, <1>4, <2>1, ChainStep DEF N
    <2>. QED
        BY <1>2, <1>3, <1>4, <2>2 DEF P3, N
<1>6. /\ P4 \in Seq(N) /\ IsInjective(P4)
      /\ Range(P4) \subseteq {"start_dispatcher", "stop_dispatcher", "leaky_bucket",
                              "stats", "debug"}
    <2>1. Range(P3) \cap Range(W4) = {}
        BY <1>2, <1>3, <1>5
    <2>2. /\ P3 \o W4 \in Seq(CallbackNames) /\ IsInjective(P3 \o W4)
          /\ Range(P3 \o W4) = Range(P3) \cup Range(W4)
        BY <1>2, <1>3, <1>5, <2>1, ChainStep DEF N
    <2>. QED
        BY <1>2, <1>3, <1>5, <2>2 DEF P4, N
<1>7. /\ P5 \in Seq(N) /\ IsInjective(P5)
      /\ Range(P5) \subseteq {"start_dispatcher", "stop_dispatcher", "leaky_bucket",
                              "stats", "debug", "cgroup"}
    <2>1. Range(P4) \cap Range(W5) = {}
        BY <1>2, <1>3, <1>6
    <2>2. /\ P4 \o W5 \in Seq(CallbackNames) /\ IsInjective(P4 \o W5)
          /\ Range(P4 \o W5) = Range(P4) \cup Range(W5)
        BY <1>2, <1>3, <1>6, <2>1, ChainStep DEF N
    <2>. QED
        BY <1>2, <1>3, <1>6, <2>2 DEF P5, N
<1>8. /\ P6 \in Seq(N) /\ IsInjective(P6)
      /\ Range(P6) \subseteq {"start_dispatcher", "stop_dispatcher", "leaky_bucket",
                              "stats", "debug", "cgroup", "npb"}
    <2>1. Range(P5) \cap Range(W6) = {}
        BY <1>2, <1>3, <1>7
    <2>2. /\ P5 \o W6 \in Seq(CallbackNames) /\ IsInjective(P5 \o W6)
          /\ Range(P5 \o W6) = Range(P5) \cup Range(W6)
        BY <1>2, <1>3, <1>7, <2>1, ChainStep DEF N
    <2>. QED
        BY <1>2, <1>3, <1>7, <2>2 DEF P6, N
<1>9. IsInjective(P7)
    <2>1. Range(P6) \cap Range(W7) = {}
        BY <1>2, <1>3, <1>8
    <2>2. /\ P6 \o W7 \in Seq(CallbackNames) /\ IsInjective(P6 \o W7)
          /\ Range(P6 \o W7) = Range(P6) \cup Range(W7)
        BY <1>2, <1>3, <1>8, <2>1, ChainStep DEF N
    <2>. QED
        BY <1>2, <1>3, <1>8, <2>2 DEF P7, N
<1>. QED
    BY <1>1, <1>9
----------------------------------------------------------------------------
(* No step queues a callback twice: a push queues each callback at most   *)
(* once on an empty queue, a callback removes the head.                   *)
LEMMA InitOnce == Init => OnceIInv
BY DEF Init, OnceIInv, IsInjective

LEMMA NextOnce ==
    ASSUME ConfigAssumption, IInv, OnceIInv, [Next]_vars
    PROVE  OnceIInv'
<1>1. CASE \E rt \in RuntimeConfigs : on_config(rt)
    <2>1. PICK rt \in RuntimeConfigs : on_config(rt)
        BY <1>1
    <2>. DEFINE new == ToModule(rt)
                c1 == AdoptModeAndYaml(candidate, new)
                c == CandidateAfter(c1, new)
    <2>2. CASE DispatcherPanics(c1, new)
        BY <2>1, <2>2 DEF on_config, OnceIInv
    <2>3. CASE ~DispatcherPanics(c1, new)
        <3>1. pending' = Callbacks(c1, new)
                  \o When(QueueRestart(c, RestartDispatcher(c1, new)), "restart")
            BY <2>1, <2>3 DEF on_config
        <3>2. QueueRestart(c, RestartDispatcher(c1, new)) \in BOOLEAN
            BY DEF QueueRestart
        <3>. QED
            BY <3>1, <3>2, QueueInjective DEF OnceIInv
    <2>. QED
        BY <2>2, <2>3
<1>2. CASE Callback
    <2>1. PICK name : Dequeue(name)
        BY <1>2 DEF Callback, start_dispatcher, stop_dispatcher,
                    leaky_bucket_callback, stats_callback, debug_callback,
                    cgroup_callback, npb_callback, restart_callback
    <2>2. pending # <<>> /\ pending' = Tail(pending) /\ pending \in Seq(CallbackNames)
        BY <2>1 DEF Dequeue, IInv
    <2>. QED
        BY <2>2, TailInjective DEF OnceIInv
<1>3. CASE UNCHANGED vars
    BY <1>3 DEF vars, OnceIInv
<1>. QED
    BY <1>1, <1>2, <1>3 DEF Next

(* Queued is membership in the queue's range. *)
LEMMA QueuedIsRange ==
    ASSUME NEW s \in Seq(CallbackNames), NEW name
    PROVE  (\E i \in 1 .. Len(s) : s[i] = name) <=> name \in Range(s)
BY RangeEquality
----------------------------------------------------------------------------
(* The settings the callbacks still owe, as ConfigHandler!CS maps them. *)
Owed == {f \in DOMAIN SettingCallback : Queued(SettingCallback[f])}

SettingFields == {"debugger", "npb_rate", "stats_host", "metric_on", "metric_port"}

(* Each owed setting has its own callback. *)
LEMMA SettingCallbackFacts ==
    /\ DOMAIN SettingCallback = {"debugger", "npb_rate", "stats_host"}
    /\ \A f, g \in DOMAIN SettingCallback :
           SettingCallback[f] = SettingCallback[g] => f = g
    /\ \A f \in DOMAIN SettingCallback : SettingCallback[f] \in {"debug", "npb", "stats"}
BY DEF SettingCallback

(* A setting the components run with is the field of that name. *)
LEMMA RunningSettingAt ==
    ASSUME NEW comp, NEW g \in SettingFields
    PROVE  RunningSetting(comp)[g] = comp[g]
BY DEF RunningSetting, SettingFields

(* A callback that copies its setting from the candidate pays it off: its *)
(* name was queued, and, queued once, it is queued no more.               *)
LEMMA ApplyStep ==
    ASSUME IInv, AppliedIInv, OnceIInv,
           NEW f \in DOMAIN SettingCallback, Dequeue(SettingCallback[f]),
           components' = [components EXCEPT ![f] = SettingOf(candidate)[f]]
    PROVE  CS!Apply(f)
<1>. DEFINE name == SettingCallback[f]
<1>1. /\ pending # <<>> /\ pending' = Tail(pending)
      /\ pending \in Seq(CallbackNames) /\ pending' \in Seq(CallbackNames)
      /\ Range(pending) = {name} \cup Range(pending')
      /\ candidate' = candidate
    BY DequeueStep DEF Dequeue, IInv
<1>2. name \notin Range(pending')
    <2>1. Head(pending) = name
        BY DEF Dequeue
    <2>. QED
        BY <1>1, <2>1, TailInjective DEF OnceIInv
<1>3. \A g \in DOMAIN SettingCallback :
         /\ g \in Owed <=> SettingCallback[g] \in Range(pending)
         /\ g \in Owed' <=> SettingCallback[g] \in Range(pending')
    BY <1>1, QueuedIsRange DEF Owed, Queued
<1>4. f \in Owed /\ Owed' = Owed \ {f}
    <2>1. Owed \subseteq DOMAIN SettingCallback /\ Owed' \subseteq DOMAIN SettingCallback
        BY DEF Owed
    <2>2. name \in Range(pending)
        BY <1>1
    <2>3. \A g \in DOMAIN SettingCallback \ {f} :
             SettingCallback[g] \in Range(pending) <=> SettingCallback[g] \in Range(pending')
        BY <1>1, SettingCallbackFacts
    <2>. QED
        BY <1>2, <1>3, <2>1, <2>2, <2>3
<1>5. /\ RunningSetting(components')[f] = SettingOf(candidate)[f]
      /\ \A g \in SettingFields \ {f} :
             RunningSetting(components')[g] = RunningSetting(components)[g]
    <2>1. SettingFields \subseteq DOMAIN components /\ f \in SettingFields
        BY SettingCallbackFacts DEF AppliedIInv, ComponentFields, SettingFields
    <2>. QED
        BY <2>1, RunningSettingAt
<1>. QED
    BY <1>1, <1>4, <1>5 DEF CS!Apply, Owed, SettingFields

(* A callback that writes no setting leaves the settings and the debts as *)
(* they are: its name is not the callback of a setting.                   *)
LEMMA OtherStep ==
    ASSUME IInv, AppliedIInv, NEW name \in CallbackNames \ {"debug", "npb", "stats"},
           Dequeue(name), NEW h \in {"running", "bucket", "cgroup_mem"}, NEW v,
           components' = [components EXCEPT ![h] = v] \/ components' = components
    PROVE  UNCHANGED CS!svars
<1>1. /\ pending \in Seq(CallbackNames) /\ pending' \in Seq(CallbackNames)
      /\ Range(pending) = {name} \cup Range(pending')
      /\ Range(pending') \subseteq Range(pending)
      /\ candidate' = candidate
    <2>1. pending # <<>> /\ pending' = Tail(pending) /\ pending \in Seq(CallbackNames)
        BY DEF Dequeue, IInv
    <2>. QED
        BY <2>1, DequeueStep, TailRange
<1>2. Owed' = Owed
    <2>1. \A g \in DOMAIN SettingCallback :
             /\ g \in Owed <=> SettingCallback[g] \in Range(pending)
             /\ g \in Owed' <=> SettingCallback[g] \in Range(pending')
        BY <1>1, QueuedIsRange DEF Owed, Queued
    <2>2. \A g \in DOMAIN SettingCallback :
             SettingCallback[g] \in Range(pending) <=> SettingCallback[g] \in Range(pending')
        BY <1>1, SettingCallbackFacts
    <2>3. Owed \subseteq DOMAIN SettingCallback /\ Owed' \subseteq DOMAIN SettingCallback
        BY DEF Owed
    <2>. QED
        BY <2>1, <2>2, <2>3
<1>3. RunningSetting(components') = RunningSetting(components)
    <2>1. SettingFields \subseteq DOMAIN components
        BY DEF AppliedIInv, ComponentFields, SettingFields
    <2>2. \A g \in SettingFields : components'[g] = components[g]
        BY <2>1 DEF SettingFields
    <2>. QED
        BY <2>2 DEF RunningSetting, SettingFields
<1>. QED
    BY <1>1, <1>2, <1>3 DEF CS!svars, Owed

(* Membership in the debts is the callback's being queued. *)
LEMMA OwedIsRange ==
    ASSUME pending \in Seq(CallbackNames), NEW g \in DOMAIN SettingCallback
    PROVE  g \in Owed <=> SettingCallback[g] \in Range(pending)
BY QueuedIsRange DEF Owed, Queued

(* A push starts with nothing owed, applies the metrics server inline,    *)
(* leaves the components the callbacks write alone and queues the         *)
(* callback of every one of them whose section changed; a push that       *)
(* panics in the dispatcher section keeps the settings the candidate had. *)
LEMMA PushStep ==
    ASSUME ConfigAssumption, IInv, IInv', AppliedIInv,
           NEW rt \in RuntimeConfigs, on_config(rt)
    PROVE  [CS!Next]_CS!svars
<1>. DEFINE new == ToModule(rt)
            c1 == AdoptModeAndYaml(candidate, new)
            c == CandidateAfter(c1, new)
            r == RestartDispatcher(c1, new)
<1>1. pending = <<>> /\ ~panicked /\ Range(pending) = {}
    BY DEF on_config, Range
<1>2. /\ c1.debug = candidate.debug /\ c1.stats = candidate.stats
      /\ c1.npb = candidate.npb /\ c1.metric_server = candidate.metric_server
    BY DEF AdoptModeAndYaml
<1>3. Owed = {}
    BY <1>1, QueuedIsRange DEF IInv, Owed, Queued
<1>4. CASE DispatcherPanics(c1, new)
    <2>1. candidate' = c1 /\ pending' = pending /\ components' = components
        BY <1>4 DEF on_config
    <2>2. SettingOf(candidate') = SettingOf(candidate)
        BY <1>2, <2>1 DEF SettingOf
    <2>. QED
        BY <2>1, <2>2 DEF CS!svars, Queued
<1>5. CASE ~DispatcherPanics(c1, new)
    <2>1. /\ candidate' = c
          /\ pending' = Callbacks(c1, new) \o When(QueueRestart(c, r), "restart")
          /\ components' = MetricServerAfter(components, c1, new)
        BY <1>1, <1>5 DEF on_config
    <2>2. /\ "debug" \in DOMAIN new /\ "stats" \in DOMAIN new
          /\ "npb" \in DOMAIN new /\ "metric_server" \in DOMAIN new
          /\ "dispatcher" \in DOMAIN new
        BY DEF ToModule
    <2>3. /\ c.debug = new.debug /\ c.stats = new.stats /\ c.npb = new.npb
          /\ c.metric_server = new.metric_server /\ c.dispatcher = new.dispatcher
        BY <2>2 DEF CandidateAfter
    <2>4. Range(Callbacks(c1, new)) \subseteq Range(pending')
        <3>1. r \in BOOLEAN /\ rt.enabled \in BOOLEAN
            BY ConfigAssumption DEF RestartDispatcher
        <3>2. new.dispatcher.enabled = rt.enabled
            BY DEF ToModule
        <3>. QED
            BY <2>1, <2>2, <2>3, <3>1, <3>2, QueuedRange, ConfigAssumption
    <2>5. /\ c1.stats # new.stats => "stats" \in Range(pending')
          /\ c1.debug # new.debug => "debug" \in Range(pending')
          /\ c1.npb # new.npb => "npb" \in Range(pending')
        BY <2>4, CallbacksPushed
    <2>6. /\ components'.metric_on = new.metric_server.enabled
          /\ components'.metric_port = new.metric_server.port
          /\ components'.debugger = components.debugger
          /\ components'.npb_rate = components.npb_rate
          /\ components'.stats_host = components.stats_host
        BY <1>1, <1>2, <2>1 DEF MetricServerAfter, AppliedIInv, ComponentFields
    <2>7. /\ "debugger" \in Owed' <=> "debug" \in Range(pending')
          /\ "npb_rate" \in Owed' <=> "npb" \in Range(pending')
          /\ "stats_host" \in Owed' <=> "stats" \in Range(pending')
        <3>1. pending' \in Seq(CallbackNames)
            BY DEF IInv
        <3>. QED
            BY <3>1, QueuedIsRange DEF Owed, Queued, SettingCallback
    <2>8. Owed' \subseteq {"debugger", "npb_rate", "stats_host"}
        BY SettingCallbackFacts DEF Owed
    <2>9. /\ SettingOf(candidate').debugger # SettingOf(candidate).debugger
                 => c1.debug # new.debug
          /\ SettingOf(candidate').npb_rate # SettingOf(candidate).npb_rate
                 => c1.npb # new.npb
          /\ SettingOf(candidate').stats_host # SettingOf(candidate).stats_host
                 => c1.stats # new.stats
          /\ SettingOf(candidate').metric_on = new.metric_server.enabled
          /\ SettingOf(candidate').metric_port = new.metric_server.port
        BY <1>2, <2>1, <2>3 DEF SettingOf
    <2>10. CS!Push
        BY <1>3, <2>5, <2>6, <2>7, <2>8, <2>9
           DEF CS!Push, Owed, RunningSetting
    <2>. QED
        BY <2>10 DEF CS!Next
<1>. QED
    BY <1>4, <1>5

(* Every step of the handler is a step of ComponentSettings or leaves its *)
(* state alone: a push is a Push, the debug, NPB and stats callbacks each  *)
(* Apply their setting, and the other callbacks touch no setting.         *)
LEMMA NextSettings ==
    ASSUME ConfigAssumption, IInv, IInv', AppliedIInv, OnceIInv, [Next]_vars
    PROVE  [CS!Next]_CS!svars
<1>1. CASE \E rt \in RuntimeConfigs : on_config(rt)
    BY <1>1, PushStep
<1>2. CASE start_dispatcher
    <2>1. PICK ok \in MemChecks :
              /\ Dequeue("start_dispatcher")
              /\ components' = IF candidate.tap_mode = Analyzer
                     THEN [components EXCEPT !.running = TRUE]
                     ELSE IF ~K8sCluster
                          THEN [components EXCEPT !.running = @ \/ ok]
                          ELSE components
        BY <1>2 DEF start_dispatcher
    <2>2. CASE candidate.tap_mode = Analyzer
        BY <2>1, <2>2, OtherStep DEF CallbackNames
    <2>3. CASE candidate.tap_mode # Analyzer /\ ~K8sCluster
        BY <2>1, <2>3, OtherStep DEF CallbackNames
    <2>4. CASE candidate.tap_mode # Analyzer /\ K8sCluster
        BY <2>1, <2>4, OtherStep DEF CallbackNames
    <2>. QED
        BY <2>2, <2>3, <2>4 DEF CS!Next
<1>3. CASE stop_dispatcher
    <2>1. UNCHANGED CS!svars
        BY <1>3, OtherStep DEF stop_dispatcher, CallbackNames
    <2>. QED
        BY <2>1
<1>4. CASE restart_callback
    <2>1. UNCHANGED CS!svars
        BY <1>4, OtherStep DEF restart_callback, CallbackNames
    <2>. QED
        BY <2>1
<1>5. CASE leaky_bucket_callback
    <2>1. UNCHANGED CS!svars
        BY <1>5, OtherStep DEF leaky_bucket_callback, CallbackNames
    <2>. QED
        BY <2>1
<1>6. CASE cgroup_callback
    <2>1. UNCHANGED CS!svars
        BY <1>6, OtherStep DEF cgroup_callback, CallbackNames
    <2>. QED
        BY <2>1
<1>7. CASE debug_callback
    <2>1. "debugger" \in DOMAIN SettingCallback /\ SettingCallback["debugger"] = "debug"
          /\ SettingOf(candidate)["debugger"] = candidate.debug.enabled
        BY DEF SettingCallback, SettingOf
    <2>2. CS!Apply("debugger")
        BY <1>7, <2>1, ApplyStep DEF debug_callback
    <2>. QED
        BY <2>2 DEF CS!Next
<1>8. CASE npb_callback
    <2>1. "npb_rate" \in DOMAIN SettingCallback /\ SettingCallback["npb_rate"] = "npb"
          /\ SettingOf(candidate)["npb_rate"] = candidate.npb.bps_threshold
        BY DEF SettingCallback, SettingOf
    <2>2. CS!Apply("npb_rate")
        BY <1>8, <2>1, ApplyStep DEF npb_callback
    <2>. QED
        BY <2>2 DEF CS!Next
<1>9. CASE stats_callback
    <2>1. "stats_host" \in DOMAIN SettingCallback /\ SettingCallback["stats_host"] = "stats"
          /\ SettingOf(candidate)["stats_host"] = candidate.stats.host
        BY DEF SettingCallback, SettingOf
    <2>2. CS!Apply("stats_host")
        BY <1>9, <2>1, ApplyStep DEF stats_callback
    <2>. QED
        BY <2>2 DEF CS!Next
<1>10. CASE UNCHANGED vars
    BY <1>10 DEF vars, CS!svars, Queued
<1>. QED
    BY <1>1, <1>2, <1>3, <1>4, <1>5, <1>6, <1>7, <1>8, <1>9, <1>10 DEF Next, Callback

(* ConfigHandler implements ComponentSettings, for every set of runtime   *)
(* configurations: the handler starts with every setting applied, each    *)
(* push of on_config (handler.rs 1334-1363, 1782-1840) applies the metrics *)
(* server inline and queues the callback of every other setting it        *)
(* changes, and each of those callbacks, run by the caller, copies its    *)
(* setting from the candidate and is then owed no more.                   *)
THEOREM ImplementsComponentSettings == Spec => SettingsSpec
<1>1. ConfigAssumption /\ Init => CS!Init
    BY DEF Init, Applied, RunningSetting, SettingOf, Queued, SettingCallback, CS!Init
<1>2. ConfigAssumption /\ Init => IInv /\ AppliedIInv /\ OnceIInv
    BY InitIInv, InitApplied, InitOnce
<1>3. ConfigAssumption /\ IInv /\ AppliedIInv /\ OnceIInv /\ [Next]_vars
          => IInv' /\ AppliedIInv' /\ OnceIInv'
    BY NextIInv, NextApplied, NextOnce
<1>4. ConfigAssumption /\ IInv /\ AppliedIInv /\ OnceIInv /\ [Next]_vars
          => [CS!Next]_CS!svars
    BY <1>3, NextSettings
<1>. QED
    BY <1>1, <1>2, <1>3, <1>4, ConfigAssumption, PTL DEF Spec, SettingsSpec, CS!Spec

(* Hence, in the handler, once none of the debug, NPB and stats callbacks *)
(* is queued, the debugger, the NPB bps limit, the stats host and the     *)
(* metrics server run with what the candidate prescribes, even while the  *)
(* dispatcher, bucket or cgroup callbacks of a push are still pending.     *)
THEOREM HandlerSettingsSettled == Spec => []CS!Settled
BY ImplementsComponentSettings, CS!SettledHolds DEF SettingsSpec
====
