---------------------- MODULE ConfigHandlerAppliedProofs ----------------------
(***************************************************************************)
(* Proofs that the callbacks on_config returns leave the components in the *)
(* state the deployed configuration prescribes, once the caller has run    *)
(* them.  While callbacks are pending a component may still be stale; the  *)
(* strengthening says that then its callback is among them.                *)
(***************************************************************************)
EXTENDS ConfigHandlerProofs

(* The fields of the components the callbacks and the inline code write. *)
ComponentFields ==
    {"metric_on", "metric_port", "debugger", "npb_rate", "stats_host", "cgroup_mem"}

(* Every component a callback writes either follows the candidate or has  *)
(* its callback queued; the metrics server, written inline, and the       *)
(* deployed configuration follow the candidate unless on_config panicked. *)
AppliedIInv ==
    /\ ComponentFields \subseteq DOMAIN components
    /\ ~panicked =>
           /\ current = candidate
           /\ components.metric_on = candidate.metric_server.enabled
           /\ components.metric_port = candidate.metric_server.port
    /\ components.debugger = candidate.debug.enabled \/ "debug" \in Range(pending)
    /\ components.npb_rate = candidate.npb.bps_threshold \/ "npb" \in Range(pending)
    /\ components.stats_host = candidate.stats.host \/ "stats" \in Range(pending)

(* A configured memory limit is in the cgroup, or cgroup_callback is      *)
(* queued to write it.                                                    *)
CgroupIInv ==
    candidate.environment.max_memory # 0 =>
        \/ components.cgroup_mem = candidate.environment.max_memory
        \/ "cgroup" \in Range(pending)
(* ConfigHandler::new runs before the first push, which ConfigHandler     *)
(* handles with components None: in Analyzer mode or a K8s pod that push   *)
(* clears max_memory (handler.rs 1471-1482) before any component exists,  *)
(* so the handler never holds a memory limit there once components do.    *)
InitSettled ==
    (InitRuntime.tap_mode = Analyzer \/ K8sCluster) => InitRuntime.max_memory = 0

----------------------------------------------------------------------------
(* Each section pushes its callback when it sees a change. *)
LEMMA CallbacksPushed ==
    ASSUME NEW c1, NEW new
    PROVE  /\ c1.stats # new.stats => "stats" \in Range(Callbacks(c1, new))
           /\ c1.debug # new.debug => "debug" \in Range(Callbacks(c1, new))
           /\ CgroupChange(c1, new) => "cgroup" \in Range(Callbacks(c1, new))
           /\ c1.npb # new.npb => "npb" \in Range(Callbacks(c1, new))
<1>. DEFINE b1 == c1.dispatcher.enabled # new.dispatcher.enabled
            x1 == IF new.dispatcher.enabled THEN "start_dispatcher"
                  ELSE "stop_dispatcher"
            W1 == When(b1, x1)
            W2 == When(c1.dispatcher.global_pps_threshold
                       # new.dispatcher.global_pps_threshold, "leaky_bucket")
            W3 == When(c1.stats # new.stats, "stats")
            W4 == When(c1.debug # new.debug, "debug")
            W5 == When(CgroupChange(c1, new), "cgroup")
            W6 == When(c1.npb # new.npb, "npb")
            S == CallbackNames \cup {x1}
<1>1. CgroupChange(c1, new) \in BOOLEAN
    BY DEF CgroupChange
<1>2. /\ W1 \in Seq(S)
      /\ W2 \in Seq(S)
      /\ W3 \in Seq(S) /\ Range(W3) = IF c1.stats # new.stats THEN {"stats"} ELSE {}
      /\ W4 \in Seq(S) /\ Range(W4) = IF c1.debug # new.debug THEN {"debug"} ELSE {}
      /\ W5 \in Seq(S) /\ Range(W5) = IF CgroupChange(c1, new) THEN {"cgroup"} ELSE {}
      /\ W6 \in Seq(S) /\ Range(W6) = IF c1.npb # new.npb THEN {"npb"} ELSE {}
    BY <1>1, WhenRange DEF CallbackNames
<1>. DEFINE P2 == W1 \o W2
            P3 == P2 \o W3
            P4 == P3 \o W4
            P5 == P4 \o W5
            P6 == P5 \o W6
<1>3. Callbacks(c1, new) = P6
    BY DEF Callbacks
<1>. HIDE DEF W1, W2, W3, W4, W5, W6, P2, P3, P4, P5, P6, S
<1>4. P2 \in Seq(S)
    BY <1>2, ConcatRange DEF P2
<1>5. P3 \in Seq(S) /\ Range(W3) \subseteq Range(P3)
    BY <1>2, <1>4, ConcatRange DEF P3
<1>6. P4 \in Seq(S) /\ Range(P4) = Range(P3) \cup Range(W4)
    BY <1>2, <1>5, ConcatRange DEF P4
<1>7. P5 \in Seq(S) /\ Range(P5) = Range(P4) \cup Range(W5)
    BY <1>2, <1>6, ConcatRange DEF P5
<1>8. P6 \in Seq(S) /\ Range(P6) = Range(P5) \cup Range(W6)
    BY <1>2, <1>7, ConcatRange DEF P6
<1>. QED
    BY <1>2, <1>3, <1>5, <1>6, <1>7, <1>8
----------------------------------------------------------------------------
(* ConfigHandler::new builds the components from the configuration it     *)
(* deploys, so every component follows the candidate.                     *)
LEMMA InitApplied == Init => AppliedIInv
BY DEF Init, Applied, AppliedIInv, ComponentFields

(* From a settled start, a configured memory limit is in the cgroup. *)
LEMMA InitCgroup == InitSettled /\ Init => CgroupIInv
<1>. SUFFICES ASSUME InitSettled, Init, candidate.environment.max_memory # 0
              PROVE  components.cgroup_mem = candidate.environment.max_memory
    BY DEF CgroupIInv
<1>1. /\ candidate.tap_mode = InitRuntime.tap_mode
      /\ candidate.environment.max_memory = InitRuntime.max_memory
    BY DEF Init, ToModule
<1>2. candidate.tap_mode # Analyzer /\ ~K8sCluster
    BY <1>1 DEF InitSettled
<1>. QED
    BY <1>2 DEF Init, Applied

(* A callback that writes one field f of the components, with the value   *)
(* the candidate prescribes for f, and whose name is the callback of f,   *)
(* keeps both invariants.                                                 *)
LEMMA CallbackKeeps ==
    ASSUME IInv, AppliedIInv, NEW name, Dequeue(name),
           NEW f \in {"running", "bucket", "debugger", "npb_rate",
                      "stats_host", "cgroup_mem"},
           NEW v, components' = [components EXCEPT ![f] = v],
           f = "debugger" => v = candidate.debug.enabled,
           f = "npb_rate" => v = candidate.npb.bps_threshold,
           f = "stats_host" => v = candidate.stats.host,
           f = "cgroup_mem" /\ candidate.environment.max_memory # 0
               => v = candidate.environment.max_memory,
           name = "debug" => f = "debugger",
           name = "npb" => f = "npb_rate",
           name = "stats" => f = "stats_host",
           name = "cgroup" => f = "cgroup_mem"
    PROVE  AppliedIInv' /\ (CgroupIInv => CgroupIInv')
<1>1. /\ Range(pending) = {name} \cup Range(pending')
      /\ candidate' = candidate /\ current' = current /\ panicked' = panicked
    BY DequeueStep DEF Dequeue
<1>2. DOMAIN components' = DOMAIN components
    OBVIOUS
<1>3. \A g \in ComponentFields \ {f} : components'[g] = components[g]
    BY DEF AppliedIInv
<1>4. f \in DOMAIN components => components'[f] = v
    OBVIOUS
<1>5. f \in ComponentFields => f \in DOMAIN components
    BY DEF AppliedIInv
<1>. QED
    BY <1>1, <1>2, <1>3, <1>4, <1>5 DEF AppliedIInv, CgroupIInv, ComponentFields
(* A push keeps both invariants: it starts from an empty queue, so every  *)
(* component follows the old candidate, and each section whose field      *)
(* changes queues the callback of that component.  The environment        *)
(* section either hands the new limit to a queued cgroup_callback, keeps  *)
(* the limit that is already in the cgroup, or clears it.                 *)
LEMMA OnConfigApplied ==
    ASSUME ConfigAssumption, IInv, AppliedIInv,
           NEW rt \in RuntimeConfigs, on_config(rt)
    PROVE  AppliedIInv' /\ (CgroupIInv => CgroupIInv')
<1>. DEFINE new == ToModule(rt)
            c1 == AdoptModeAndYaml(candidate, new)
            c == CandidateAfter(c1, new)
            r == RestartDispatcher(c1, new)
<1>1. pending = <<>> /\ ~panicked /\ Range(pending) = {}
    BY DEF on_config, Range
<1>2. /\ components.metric_on = candidate.metric_server.enabled
      /\ components.metric_port = candidate.metric_server.port
      /\ components.debugger = candidate.debug.enabled
      /\ components.npb_rate = candidate.npb.bps_threshold
      /\ components.stats_host = candidate.stats.host
    BY <1>1 DEF AppliedIInv
<1>0. CgroupIInv => (candidate.environment.max_memory # 0
                       => components.cgroup_mem = candidate.environment.max_memory)
    BY <1>1 DEF CgroupIInv
<1>3. /\ c1.debug = candidate.debug /\ c1.stats = candidate.stats
      /\ c1.npb = candidate.npb /\ c1.environment = candidate.environment
      /\ c1.metric_server = candidate.metric_server
      /\ c1.tap_mode = new.tap_mode
    BY DEF AdoptModeAndYaml
<1>4. CASE DispatcherPanics(c1, new)
    <2>1. candidate' = c1 /\ pending' = pending /\ components' = components
          /\ panicked' = TRUE
        BY <1>4 DEF on_config
    <2>. QED
        BY <1>0, <1>2, <1>3, <2>1 DEF AppliedIInv, CgroupIInv
<1>5. CASE ~DispatcherPanics(c1, new)
    <2>1. /\ candidate' = c /\ current' = c /\ panicked' = FALSE
          /\ pending' = Callbacks(c1, new) \o When(QueueRestart(c, r), "restart")
          /\ components' = MetricServerAfter(components, c1, new)
        BY <1>1, <1>5 DEF on_config
    <2>2. /\ "debug" \in DOMAIN new /\ "stats" \in DOMAIN new
          /\ "npb" \in DOMAIN new /\ "metric_server" \in DOMAIN new
          /\ "environment" \in DOMAIN new /\ "dispatcher" \in DOMAIN new
          /\ new.dispatcher.enabled = rt.enabled
        BY DEF ToModule
    <2>3. /\ c.debug = new.debug /\ c.stats = new.stats /\ c.npb = new.npb
          /\ c.metric_server = new.metric_server
          /\ c.environment = EnvironmentAfter(c1, new)
          /\ c.dispatcher = new.dispatcher
        BY <2>2 DEF CandidateAfter
    <2>4. Range(Callbacks(c1, new)) \subseteq Range(pending')
        <3>1. r \in BOOLEAN /\ rt.enabled \in BOOLEAN
            BY ConfigAssumption DEF RestartDispatcher
        <3>. QED
            BY <2>1, <2>2, <2>3, <3>1, QueuedRange, ConfigAssumption
    <2>5. /\ c1.stats # new.stats => "stats" \in Range(pending')
          /\ c1.debug # new.debug => "debug" \in Range(pending')
          /\ CgroupChange(c1, new) => "cgroup" \in Range(pending')
          /\ c1.npb # new.npb => "npb" \in Range(pending')
        BY <2>4, CallbacksPushed
    <2>6. /\ DOMAIN components' = DOMAIN components
          /\ components'.metric_on = new.metric_server.enabled
          /\ components'.metric_port = new.metric_server.port
          /\ components'.debugger = components.debugger
          /\ components'.npb_rate = components.npb_rate
          /\ components'.stats_host = components.stats_host
          /\ components'.cgroup_mem = components.cgroup_mem
        BY <1>2, <1>3, <2>1 DEF MetricServerAfter, AppliedIInv, ComponentFields
    <2>7. AppliedIInv'
        BY <1>2, <1>3, <2>1, <2>3, <2>5, <2>6 DEF AppliedIInv
    <2>8. CgroupIInv => CgroupIInv'
        <3>0. SUFFICES ASSUME CgroupIInv PROVE CgroupIInv'
            OBVIOUS
        <3>1. CASE c1.tap_mode # Analyzer /\ ~K8sCluster
            <4>1. c.environment = new.environment
                BY <2>3, <3>1 DEF EnvironmentAfter
            <4>2. ~CgroupChange(c1, new) => c1.environment.max_memory = new.environment.max_memory
                BY <3>1 DEF CgroupChange
            <4>. QED
                BY <1>0, <1>3, <2>1, <2>5, <2>6, <3>0, <4>1, <4>2 DEF CgroupIInv
        <3>2. CASE ~(c1.tap_mode # Analyzer /\ ~K8sCluster)
            <4>1. c.environment.max_memory = 0
                BY <1>3, <2>3, <3>2 DEF EnvironmentAfter
            <4>. QED
                BY <2>1, <4>1 DEF CgroupIInv
        <3>. QED
            BY <3>1, <3>2
    <2>. QED
        BY <2>7, <2>8
<1>. QED
    BY <1>4, <1>5
(* Every step keeps AppliedIInv, and CgroupIInv while every cgroup call  *)
(* succeeds: a push by OnConfigApplied, each callback by CallbackKeeps    *)
(* with the field it writes.                                              *)
LEMMA NextApplied ==
    ASSUME ConfigAssumption, IInv, AppliedIInv, [Next]_vars
    PROVE  AppliedIInv' /\ (CgroupApplies = {TRUE} /\ CgroupIInv => CgroupIInv')
<1>1. ~cgroup_callback => AppliedIInv' /\ (CgroupIInv => CgroupIInv')
    <2> SUFFICES ASSUME ~cgroup_callback
                 PROVE  AppliedIInv' /\ (CgroupIInv => CgroupIInv')
        OBVIOUS
    <2>1. "running" \in DOMAIN components
        BY DEF IInv
    <2>2. CASE \E rt \in RuntimeConfigs : on_config(rt)
        BY <2>2, OnConfigApplied
    <2>3. CASE start_dispatcher
        <3>1. PICK ok \in MemChecks :
                  /\ Dequeue("start_dispatcher")
                  /\ components' = IF candidate.tap_mode = Analyzer
                         THEN [components EXCEPT !.running = TRUE]
                         ELSE IF ~K8sCluster
                              THEN [components EXCEPT !.running = @ \/ ok]
                              ELSE components
            BY <2>3 DEF start_dispatcher
        <3>2. CASE candidate.tap_mode = Analyzer
            BY <3>1, <3>2, CallbackKeeps
        <3>3. CASE candidate.tap_mode # Analyzer /\ ~K8sCluster
            BY <3>1, <3>3, CallbackKeeps
        <3>4. CASE candidate.tap_mode # Analyzer /\ K8sCluster
            <4>1. /\ Range(pending) = {"start_dispatcher"} \cup Range(pending')
                  /\ candidate' = candidate /\ current' = current
                  /\ panicked' = panicked /\ components' = components
                BY <3>1, <3>4, DequeueStep DEF Dequeue
            <4>. QED
                BY <4>1 DEF AppliedIInv, CgroupIInv
        <3>. QED
            BY <3>2, <3>3, <3>4
    <2>4. CASE stop_dispatcher
        BY <2>4, CallbackKeeps DEF stop_dispatcher
    <2>5. CASE restart_callback
        BY <2>5, CallbackKeeps DEF restart_callback
    <2>6. CASE leaky_bucket_callback
        BY <2>6, CallbackKeeps DEF leaky_bucket_callback
    <2>7. CASE stats_callback
        BY <2>7, CallbackKeeps DEF stats_callback
    <2>8. CASE debug_callback
        BY <2>8, CallbackKeeps DEF debug_callback
    <2>9. CASE npb_callback
        BY <2>9, CallbackKeeps DEF npb_callback
    <2>10. CASE UNCHANGED vars
        BY <2>10 DEF vars, AppliedIInv, CgroupIInv
    <2>. QED
        BY <2>2, <2>3, <2>4, <2>5, <2>6, <2>7, <2>8, <2>9, <2>10 DEF Next, Callback
<1>2. CASE cgroup_callback
    <2>1. PICK ok \in CgroupApplies :
              /\ Dequeue("cgroup")
              /\ components' = [components EXCEPT !.cgroup_mem =
                     IF ok /\ candidate.environment.max_memory # 0
                     THEN candidate.environment.max_memory ELSE @]
        BY <1>2 DEF cgroup_callback
    <2>2. CASE ok
        <3>1. AppliedIInv' /\ (CgroupIInv => CgroupIInv')
            BY <2>1, <2>2, CallbackKeeps
        <3>. QED
            BY <3>1
    <2>3. CASE ~ok
        <3>1. /\ Range(pending) = {"cgroup"} \cup Range(pending')
              /\ candidate' = candidate /\ current' = current
              /\ panicked' = panicked
            BY <2>1, DequeueStep DEF Dequeue
        <3>2. /\ DOMAIN components' = DOMAIN components
              /\ \A g \in ComponentFields \ {"cgroup_mem"} :
                     components'[g] = components[g]
            BY <2>1 DEF AppliedIInv
        <3>3. AppliedIInv'
            BY <3>1, <3>2 DEF AppliedIInv, ComponentFields
        <3>4. CgroupApplies = {TRUE} => ok
            OBVIOUS
        <3>. QED
            BY <2>3, <3>3, <3>4
    <2>. QED
        BY <2>2, <2>3
<1>. QED
    BY <1>1, <1>2

----------------------------------------------------------------------------
(* Once the caller has run the callbacks of the last push, the deployed   *)
(* configuration is the candidate and the debugger, the NPB bps limit,    *)
(* the stats host and the metrics server follow it, for every set of      *)
(* pushes: each section of on_config that sees a change queues the       *)
(* callback that re-applies it (handler.rs 1334-1363, 1782-1840).         *)
THEOREM CallbacksAppliedHolds == Spec => []CallbacksApplied
<1>1. ConfigAssumption /\ Init => IInv /\ AppliedIInv
    BY InitIInv, InitApplied
<1>2. ConfigAssumption /\ IInv /\ AppliedIInv /\ [Next]_vars => AppliedIInv'
    BY NextApplied
<1>3. AppliedIInv => CallbacksApplied
    BY DEF AppliedIInv, CallbacksApplied, Range
<1>. QED
    BY <1>1, <1>2, <1>3, IInvHolds, ConfigAssumption, PTL DEF Spec

(* Outside Analyzer mode and K8s pods, once the callbacks have run, the   *)
(* cgroup hard memory limit is the configured max_memory, for every set   *)
(* of pushes, provided the handler starts settled (InitSettled) and no    *)
(* Cgroups::new, init or apply fails: a change of the limit queues        *)
(* cgroup_callback (handler.rs 1374-1455), and a limit that is not        *)
(* changed is the one already written.  These are the only two ways to   *)
(* miss the limit: the run cgroup_apply_not_retried shows a failed call  *)
(* leaves it missing for good.                                            *)
THEOREM CgroupLimitApplied ==
    ASSUME InitSettled, CgroupApplies = {TRUE}
    PROVE  Spec => []CgroupFollowsLimit
<1>1. ConfigAssumption /\ Init => IInv /\ AppliedIInv /\ CgroupIInv
    BY InitIInv, InitApplied, InitCgroup
<1>2. ConfigAssumption /\ IInv /\ AppliedIInv /\ CgroupIInv /\ [Next]_vars
          => AppliedIInv' /\ CgroupIInv'
    BY NextApplied
<1>3. CgroupIInv => CgroupFollowsLimit
    BY DEF CgroupIInv, CgroupFollowsLimit, Range
<1>. QED
    BY <1>1, <1>2, <1>3, IInvHolds, ConfigAssumption, PTL DEF Spec
====
