------------------------- MODULE ConfigHandlerProofs -------------------------
(***************************************************************************)
(* Proof that, for every set of pushes and every environment, a dispatcher *)
(* is running once the callbacks of a push have run only if the candidate  *)
(* configuration enables it.  The invariant alone is not inductive: while  *)
(* callbacks are pending the dispatcher may still run after a push that    *)
(* disabled it.  The strengthening says what the queue guarantees then:    *)
(* start_dispatcher and the restart callback are queued only for an        *)
(* enabled candidate, and a running dispatcher the candidate disables has  *)
(* stop_dispatcher still ahead of it in the queue.                         *)
(***************************************************************************)
EXTENDS ConfigHandler, SequenceTheorems, TLAPS

Starters == {"start_dispatcher", "restart"}

IInv ==
    /\ pending \in Seq(CallbackNames)
    /\ "running" \in DOMAIN components
    /\ components.running \in BOOLEAN
    /\ candidate.dispatcher.enabled \in BOOLEAN
    /\ Range(pending) \cap Starters # {} => candidate.dispatcher.enabled
    /\ components.running /\ ~candidate.dispatcher.enabled
           => "stop_dispatcher" \in Range(pending)

----------------------------------------------------------------------------
(* A callback pushed under a condition is a sequence of names whose range *)
(* is that callback or nothing.                                           *)
LEMMA WhenRange ==
    ASSUME NEW S, NEW b \in BOOLEAN, NEW x \in S
    PROVE  /\ When(b, x) \in Seq(S)
           /\ Range(When(b, x)) = IF b THEN {x} ELSE {}
BY DEF When, Range

(* Running the head of the queue leaves the other names queued. *)
LEMMA TailRange ==
    ASSUME NEW S, NEW s \in Seq(S), s # <<>>
    PROVE  /\ Tail(s) \in Seq(S)
           /\ Range(s) = {Head(s)} \cup Range(Tail(s))
<1>1. Tail(s) \in Seq(S) /\ Len(Tail(s)) = Len(s) - 1
      /\ \A i \in 1 .. Len(Tail(s)) : Tail(s)[i] = s[i + 1]
    BY HeadTailProperties
<1>2. Len(s) \in Nat \ {0} /\ Head(s) = s[1]
    BY EmptySeq, LenProperties
<1>3. Range(s) = {s[i] : i \in 1 .. Len(s)}
    BY RangeEquality
<1>4. Range(Tail(s)) = {Tail(s)[i] : i \in 1 .. Len(Tail(s))}
    BY <1>1, RangeEquality
<1>5. {s[i] : i \in 1 .. Len(s)} = {s[1]} \cup {s[i + 1] : i \in 1 .. Len(s) - 1}
    BY <1>2, SMT
<1>. QED
    BY <1>1, <1>2, <1>3, <1>4, <1>5

(* Concatenating two queues of names queues the names of both. *)
LEMMA ConcatRange ==
    ASSUME NEW S, NEW s \in Seq(S), NEW t \in Seq(S)
    PROVE  s \o t \in Seq(S) /\ Range(s \o t) = Range(s) \cup Range(t)
BY ConcatProperties, RangeConcatenation

(* The callbacks the sections push: names of callbacks, with             *)
(* start_dispatcher only for a dispatcher the push enables, and           *)
(* stop_dispatcher whenever the push disables an enabled one.             *)
LEMMA CallbacksRange ==
    ASSUME NEW c1, NEW new, new.dispatcher.enabled \in BOOLEAN,
           K8sCluster \in BOOLEAN
    PROVE  /\ Callbacks(c1, new) \in Seq(CallbackNames)
           /\ "start_dispatcher" \in Range(Callbacks(c1, new))
                  => new.dispatcher.enabled
           /\ "restart" \notin Range(Callbacks(c1, new))
           /\ c1.dispatcher.enabled # new.dispatcher.enabled
              /\ ~new.dispatcher.enabled
                  => "stop_dispatcher" \in Range(Callbacks(c1, new))
<1>. DEFINE b1 == c1.dispatcher.enabled # new.dispatcher.enabled
            x1 == IF new.dispatcher.enabled THEN "start_dispatcher"
                  ELSE "stop_dispatcher"
            W1 == When(b1, x1)
            W2 == When(c1.dispatcher.global_pps_threshold
                       # new.dispatcher.global_pps_threshold, "leaky_bucket")
            W3 == When(c1.stats # new.stats, "stats")
            W4 == When(c1.debug # new.debug, "debug")
            W5 == When(CgroupChange(c1, new), "cgroup")
            W6 == When(c1.npb # new.npb, "npb")
<1>1. CgroupChange(c1, new) \in BOOLEAN
    BY DEF CgroupChange
<1>2. /\ W1 \in Seq(CallbackNames) /\ Range(W1) = IF b1 THEN {x1} ELSE {}
      /\ W2 \in Seq(CallbackNames) /\ Range(W2) \subseteq {"leaky_bucket"}
      /\ W3 \in Seq(CallbackNames) /\ Range(W3) \subseteq {"stats"}
      /\ W4 \in Seq(CallbackNames) /\ Range(W4) \subseteq {"debug"}
      /\ W5 \in Seq(CallbackNames) /\ Range(W5) \subseteq {"cgroup"}
      /\ W6 \in Seq(CallbackNames) /\ Range(W6) \subseteq {"npb"}
    BY <1>1, WhenRange DEF CallbackNames
<1>. DEFINE P2 == W1 \o W2
            P3 == P2 \o W3
            P4 == P3 \o W4
            P5 == P4 \o W5
            P6 == P5 \o W6
<1>3. Callbacks(c1, new) = P6
    BY DEF Callbacks
<1>. HIDE DEF W1, W2, W3, W4, W5, W6, P2, P3, P4, P5, P6
<1>4. P2 \in Seq(CallbackNames) /\ Range(P2) = Range(W1) \cup Range(W2)
    BY <1>2, ConcatRange DEF P2
<1>5. P3 \in Seq(CallbackNames) /\ Range(P3) = Range(P2) \cup Range(W3)
    BY <1>2, <1>4, ConcatRange DEF P3
<1>6. P4 \in Seq(CallbackNames) /\ Range(P4) = Range(P3) \cup Range(W4)
    BY <1>2, <1>5, ConcatRange DEF P4
<1>7. P5 \in Seq(CallbackNames) /\ Range(P5) = Range(P4) \cup Range(W5)
    BY <1>2, <1>6, ConcatRange DEF P5
<1>8. P6 \in Seq(CallbackNames) /\ Range(P6) = Range(P5) \cup Range(W6)
    BY <1>2, <1>7, ConcatRange DEF P6
<1>. QED
    BY <1>2, <1>3, <1>4, <1>5, <1>6, <1>7, <1>8

(* What on_config queues: the callbacks of the sections, then the restart *)
(* only for an enabled candidate.                                         *)
LEMMA QueuedRange ==
    ASSUME NEW c1, NEW new, NEW c, NEW r \in BOOLEAN,
           new.dispatcher.enabled \in BOOLEAN, c.dispatcher.enabled \in BOOLEAN,
           K8sCluster \in BOOLEAN
    PROVE  LET q == Callbacks(c1, new) \o When(QueueRestart(c, r), "restart")
           IN  /\ q \in Seq(CallbackNames)
               /\ Range(q) = Range(Callbacks(c1, new))
                             \cup (IF QueueRestart(c, r) THEN {"restart"} ELSE {})
<1>1. QueueRestart(c, r) \in BOOLEAN
    BY DEF QueueRestart
<1>2. When(QueueRestart(c, r), "restart") \in Seq(CallbackNames)
      /\ Range(When(QueueRestart(c, r), "restart"))
            = IF QueueRestart(c, r) THEN {"restart"} ELSE {}
    BY <1>1, WhenRange DEF CallbackNames
<1>. QED
    BY <1>2, CallbacksRange, ConcatProperties, RangeConcatenation

----------------------------------------------------------------------------
(* Every callback action takes the head of the queue and leaves the       *)
(* candidate alone.                                                       *)
LEMMA DequeueStep ==
    ASSUME IInv, NEW name, Dequeue(name)
    PROVE  /\ pending # <<>> /\ Head(pending) = name
           /\ pending' \in Seq(CallbackNames)
           /\ Range(pending) = {name} \cup Range(pending')
           /\ candidate' = candidate
<1>1. pending # <<>> /\ Head(pending) = name /\ pending' = Tail(pending)
      /\ candidate' = candidate
    BY DEF Dequeue
<1>. QED
    BY <1>1, TailRange DEF IInv

(* A callback that does not touch the dispatchers keeps the invariant. *)
LEMMA OtherCallbackStep ==
    ASSUME IInv, NEW name, Dequeue(name), name # "stop_dispatcher",
           "running" \in DOMAIN components',
           components'.running = components.running
    PROVE  IInv'
<1>1. /\ pending' \in Seq(CallbackNames)
      /\ Range(pending) = {name} \cup Range(pending')
      /\ candidate' = candidate
    BY DequeueStep
<1>. QED
    BY <1>1 DEF IInv

(* A callback that may start the dispatchers is only queued for an       *)
(* enabled candidate, so it keeps the invariant whatever it sets.         *)
LEMMA StarterStep ==
    ASSUME IInv, NEW name \in Starters, Dequeue(name),
           "running" \in DOMAIN components', components'.running \in BOOLEAN
    PROVE  IInv'
<1>1. /\ pending' \in Seq(CallbackNames)
      /\ Range(pending) = {name} \cup Range(pending')
      /\ candidate' = candidate
    BY DequeueStep
<1>2. candidate.dispatcher.enabled
    BY <1>1 DEF IInv
<1>. QED
    BY <1>1, <1>2 DEF IInv, Starters

(* A push keeps the invariant: it is handled only with an empty queue,   *)
(* where a running dispatcher is an enabled one; it queues start or       *)
(* restart only for an enabled candidate, and stop_dispatcher when it     *)
(* disables the dispatcher.                                               *)
LEMMA OnConfigStep ==
    ASSUME IInv, ConfigAssumption, NEW rt \in RuntimeConfigs, on_config(rt)
    PROVE  IInv'
<1>. DEFINE new == ToModule(rt)
            c1 == AdoptModeAndYaml(candidate, new)
            c == CandidateAfter(c1, new)
<1>1. pending = <<>> /\ ~panicked
    BY DEF on_config
<1>2. Range(pending) = {}
    BY <1>1 DEF Range
<1>3. components.running => candidate.dispatcher.enabled
    BY <1>2 DEF IInv
<1>4. /\ new.dispatcher.enabled = rt.enabled
      /\ rt.enabled \in BOOLEAN
      /\ c1.dispatcher = candidate.dispatcher
      /\ c.dispatcher = new.dispatcher
    BY DEF ToModule, AdoptModeAndYaml, CandidateAfter
<1>5. CASE DispatcherPanics(c1, new)
    <2>1. candidate' = c1 /\ pending' = pending /\ components' = components
        BY <1>5 DEF on_config
    <2>. QED
        BY <1>2, <1>3, <1>4, <2>1, EmptySeq DEF IInv
<1>6. CASE ~DispatcherPanics(c1, new)
    <2>. DEFINE r == RestartDispatcher(c1, new)
    <2>1. /\ candidate' = c
          /\ pending' = Callbacks(c1, new) \o When(QueueRestart(c, r), "restart")
          /\ components' = MetricServerAfter(components, c1, new)
        BY <1>6 DEF on_config
    <2>2. r \in BOOLEAN
        BY DEF RestartDispatcher
    <2>3. /\ pending' \in Seq(CallbackNames)
          /\ Range(pending') = Range(Callbacks(c1, new))
                 \cup (IF QueueRestart(c, r) THEN {"restart"} ELSE {})
        BY <1>4, <2>1, <2>2, QueuedRange, ConfigAssumption
    <2>4. /\ "start_dispatcher" \in Range(Callbacks(c1, new)) => new.dispatcher.enabled
          /\ "restart" \notin Range(Callbacks(c1, new))
          /\ c1.dispatcher.enabled # new.dispatcher.enabled
             /\ ~new.dispatcher.enabled
                 => "stop_dispatcher" \in Range(Callbacks(c1, new))
        BY <1>4, CallbacksRange, ConfigAssumption
    <2>5. QueueRestart(c, r) => c.dispatcher.enabled
        BY DEF QueueRestart
    <2>6. "running" \in DOMAIN components'
          /\ components'.running = components.running
        BY <2>1 DEF MetricServerAfter, IInv
    <2>. QED
        BY <1>3, <1>4, <2>1, <2>3, <2>4, <2>5, <2>6 DEF IInv, Starters
<1>. QED
    BY <1>5, <1>6

----------------------------------------------------------------------------
(* The handler starts in a state of the invariant. *)
LEMMA InitIInv == ConfigAssumption /\ Init => IInv
<1>. SUFFICES ASSUME ConfigAssumption, Init PROVE IInv
    OBVIOUS
<1>1. candidate = ToModule(InitRuntime) /\ pending = <<>>
      /\ components = Applied(candidate)
    BY DEF Init
<1>2. candidate.dispatcher.enabled = InitRuntime.enabled
    BY <1>1 DEF ToModule
<1>3. components.running = candidate.dispatcher.enabled
      /\ "running" \in DOMAIN components
    BY <1>1 DEF Applied
<1>4. Range(pending) = {}
    BY <1>1 DEF Range
<1>. QED
    BY <1>1, <1>2, <1>3, <1>4 DEF IInv

(* Every step keeps the invariant. *)
LEMMA NextIInv == ConfigAssumption /\ IInv /\ [Next]_vars => IInv'
<1>. SUFFICES ASSUME ConfigAssumption, IInv, [Next]_vars PROVE IInv'
    OBVIOUS
<1>1. CASE \E rt \in RuntimeConfigs : on_config(rt)
    BY <1>1, OnConfigStep
<1>2. CASE start_dispatcher
    <2>1. PICK ok \in MemChecks :
              /\ Dequeue("start_dispatcher")
              /\ components' = IF candidate.tap_mode = Analyzer
                    THEN [components EXCEPT !.running = TRUE]
                    ELSE IF ~K8sCluster
                         THEN [components EXCEPT !.running = @ \/ ok]
                         ELSE components
        BY <1>2 DEF start_dispatcher
    <2>2. "running" \in DOMAIN components'
        BY <2>1 DEF IInv
    <2>3. components'.running \in BOOLEAN
        BY <2>1, ConfigAssumption DEF IInv
    <2>. QED
        BY <2>1, <2>2, <2>3, StarterStep DEF Starters
<1>3. CASE restart_callback
    <2>1. PICK ok \in MemChecks :
              /\ Dequeue("restart")
              /\ components' = [components EXCEPT !.running =
                    IF candidate.tap_mode # Analyzer /\ ~K8sCluster THEN ok ELSE TRUE]
        BY <1>3 DEF restart_callback
    <2>2. "running" \in DOMAIN components'
        BY <2>1 DEF IInv
    <2>3. components'.running \in BOOLEAN
        BY <2>1, ConfigAssumption DEF IInv
    <2>. QED
        BY <2>1, <2>2, <2>3, StarterStep DEF Starters
<1>4. CASE stop_dispatcher
    <2>1. /\ pending' \in Seq(CallbackNames)
          /\ Range(pending) = {"stop_dispatcher"} \cup Range(pending')
          /\ candidate' = candidate
        BY <1>4, DequeueStep DEF stop_dispatcher
    <2>2. components' = [components EXCEPT !.running = FALSE]
        BY <1>4 DEF stop_dispatcher
    <2>3. "running" \in DOMAIN components' /\ components'.running = FALSE
        BY <2>2 DEF IInv
    <2>4. candidate.dispatcher.enabled \in BOOLEAN
          /\ (Range(pending') \cap Starters # {} => candidate.dispatcher.enabled)
        BY <2>1 DEF IInv
    <2>. QED
        BY <2>1, <2>3, <2>4 DEF IInv
<1>5. CASE leaky_bucket_callback
    BY <1>5, OtherCallbackStep DEF leaky_bucket_callback, IInv
<1>6. CASE stats_callback
    BY <1>6, OtherCallbackStep DEF stats_callback, IInv
<1>7. CASE debug_callback
    BY <1>7, OtherCallbackStep DEF debug_callback, IInv
<1>8. CASE cgroup_callback
    BY <1>8, OtherCallbackStep DEF cgroup_callback, IInv
<1>9. CASE npb_callback
    BY <1>9, OtherCallbackStep DEF npb_callback, IInv
<1>10. CASE UNCHANGED vars
    BY <1>10 DEF vars, IInv
<1>. QED
    BY <1>1, <1>2, <1>3, <1>4, <1>5, <1>6, <1>7, <1>8, <1>9, <1>10
       DEF Next, Callback

(* The invariant holds in every reachable state. *)
LEMMA IInvHolds == Spec => []IInv
BY InitIInv, NextIInv, ConfigAssumption, PTL DEF Spec

(* Once the callbacks of a push have run, a dispatcher runs only if the   *)
(* candidate enables it, for every set of pushes, every tap mode, inside  *)
(* or outside a K8s pod and whatever free_memory_check returns: the       *)
(* restart dispatcher_callback is queued only for an enabled dispatcher   *)
(* (handler.rs 1848) and stop_dispatcher runs before any callback queued  *)
(* after it.                                                              *)
THEOREM DispatchersOnlyWhenEnabled == Spec => []DispatchersRunOnlyWhenEnabled
<1>1. IInv => DispatchersRunOnlyWhenEnabled
    <2>. SUFFICES ASSUME IInv, pending = <<>>, components.running
                  PROVE  candidate.dispatcher.enabled
        BY DEF DispatchersRunOnlyWhenEnabled
    <2>1. Range(pending) = {}
        BY DEF Range
    <2>. QED
        BY <2>1 DEF IInv
<1>. QED
    BY <1>1, IInvHolds, PTL

----------------------------------------------------------------------------
(* The handler implements DispatcherControl under the mapping of the      *)
(* candidate's dispatcher switch and the dispatchers' state: a push and   *)
(* every callback that leaves the dispatchers alone is a Configure step,  *)
(* stop_dispatcher and a restart whose memory check fails are Halt steps, *)
(* and a callback that starts the dispatchers is a Start step, because    *)
(* the invariant says it is only queued for an enabled candidate.         *)
THEOREM ImplementsDispatcherControl == Spec => DispatcherControlSpec
<1>. DEFINE e == candidate.dispatcher.enabled
            r == components.running
<1>1. ConfigAssumption /\ Init => DC!Init
    BY InitIInv DEF IInv, Init, Applied, DC!Init
<1>2. ConfigAssumption /\ IInv /\ IInv' /\ [Next]_vars => [DC!Next]_<<e, r>>
    <2>. SUFFICES ASSUME ConfigAssumption, IInv, IInv', [Next]_vars
                  PROVE  [DC!Next]_<<e, r>>
        OBVIOUS
    <2>1. e' \in BOOLEAN /\ r \in BOOLEAN /\ r' \in BOOLEAN
        BY DEF IInv
    <2>2. r' = r => DC!Next
        BY <2>1 DEF DC!Next, DC!Configure
    <2>3. CASE \E rt \in RuntimeConfigs : on_config(rt)
        <3>1. r' = r
            BY <2>3 DEF on_config, MetricServerAfter, IInv
        <3>. QED
            BY <2>2, <3>1
    <2>4. CASE start_dispatcher \/ restart_callback
        <3>1. PICK name \in Starters : Dequeue(name)
            BY <2>4 DEF start_dispatcher, restart_callback, Starters
        <3>2. e /\ e' = e
            BY <3>1, DequeueStep DEF IInv
        <3>3. r' = TRUE \/ r' = r \/ (r' = FALSE /\ restart_callback)
            BY <2>1, <2>4, ConfigAssumption DEF start_dispatcher, restart_callback, IInv
        <3>4. restart_callback => (r' = FALSE => DC!Halt)
            BY <3>2 DEF DC!Halt
        <3>. QED
            BY <2>2, <3>2, <3>3, <3>4 DEF DC!Next, DC!Start
    <2>5. CASE stop_dispatcher
        <3>1. e' = e
            BY <2>5, DequeueStep DEF stop_dispatcher
        <3>2. r' = FALSE
            BY <2>5 DEF stop_dispatcher, IInv
        <3>. QED
            BY <3>1, <3>2 DEF DC!Next, DC!Halt
    <2>6. CASE leaky_bucket_callback \/ stats_callback \/ debug_callback
               \/ cgroup_callback \/ npb_callback
        <3>1. r' = r
            BY <2>6 DEF leaky_bucket_callback, stats_callback, debug_callback,
                        cgroup_callback, npb_callback, IInv
        <3>. QED
            BY <2>2, <3>1
    <2>7. CASE UNCHANGED vars
        BY <2>7 DEF vars
    <2>. QED
        BY <2>3, <2>4, <2>5, <2>6, <2>7 DEF Next, Callback
<1>. QED
    BY <1>1, <1>2, IInvHolds, ConfigAssumption, PTL DEF Spec, DispatcherControlSpec, DC!Spec
====
