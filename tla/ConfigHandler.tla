---------------------------- MODULE ConfigHandler ----------------------------
(***************************************************************************)
(* ConfigHandler::on_config (config/handler.rs 1066-1884): the agent's     *)
(* handler of a runtime configuration pushed by the controller.  It        *)
(* converts the push into a ModuleConfig (try_from, 674-925), diffs it     *)
(* section by section against candidate_config, updates the candidate,     *)
(* decides whether the dispatchers must restart, deploys the candidate to  *)
(* current_config and returns the callbacks its caller runs on the agent's *)
(* components; each callback reads candidate_config when it runs.          *)
(*                                                                         *)
(* Only the fields that steer control are kept.  Memory is counted in MB.  *)
(* The components are the state the modelled callbacks write: the          *)
(* dispatchers, the rx leaky bucket, the debugger, the NPB bps limit, the  *)
(* stats collector and the metrics server.                                 *)
(***************************************************************************)
EXTENDS Naturals, Sequences

CONSTANTS
    TapModes,        \* TapMode values; "Analyzer" among them
    RuntimeConfigs,  \* runtime configurations the controller may push
    InitRuntime,     \* RuntimeConfig the handler was created with
    K8sCluster,      \* static_config.kubernetes_cluster_id is non-empty
    SysCpus,         \* cpus sysinfo reports
    MemChecks,       \* outcomes free_memory_check may return (TRUE = Ok)
    CgroupApplies,   \* outcomes of Cgroups::new, init and apply (TRUE = Ok)
    BlockSizeMB      \* recv_engine::DEFAULT_BLOCK_SIZE, in MB

Analyzer == "Analyzer"
NoLimit == <<>>          \* set_rate(None)
Limit(r) == <<r>>        \* set_rate(Some(r))

ASSUME ConfigAssumption ==
    /\ Analyzer \in TapModes
    /\ InitRuntime \in RuntimeConfigs
    /\ K8sCluster \in BOOLEAN
    /\ SysCpus \in Nat
    /\ MemChecks \subseteq BOOLEAN /\ MemChecks # {}
    /\ CgroupApplies \subseteq BOOLEAN /\ CgroupApplies # {}
    /\ BlockSizeMB \in Nat \ {0}
    /\ \A rt \in RuntimeConfigs : rt.enabled \in BOOLEAN

VARIABLES
    candidate,   \* ConfigHandler.candidate_config
    current,     \* ConfigHandler.current_config (the ArcSwap)
    pending,     \* callbacks returned by on_config, not yet run by the caller
    components,  \* what the callbacks act on
    panicked     \* on_config hit todo!()

vars == <<candidate, current, pending, components, panicked>>

MaxOf(a, b) == IF a >= b THEN a ELSE b
MinOf(a, b) == IF a <= b THEN a ELSE b

----------------------------------------------------------------------------
(* Sizing helpers, handler.rs 1888-1920. *)
get_channel_size(c, mem) ==
    IF c.tap_mode = Analyzer THEN 2 ^ 14
    ELSE MinOf(MaxOf((mem \div 128) * 32000, 32000), 2 ^ 14)

get_flow_capacity(c, mem) ==
    IF c.tap_mode = Analyzer THEN c.yaml_config.flow_capacity
    ELSE MinOf((mem \div 128) * 65536, 2 ^ 30)

get_fast_path_map_size(y, mem) ==
    IF y.fast_path_map_size > 0 THEN y.fast_path_map_size
    ELSE MinOf(MaxOf((mem \div 128) * 32000, 32000), 2 ^ 20)

get_af_packet_blocks(y, tap_mode, mem) ==
    IF tap_mode = Analyzer \/ y.af_packet_blocks_enabled
    THEN MaxOf(y.af_packet_blocks, 8)
    ELSE MinOf((mem \div BlockSizeMB) \div 16, 128)

(* ModuleConfig::try_from: the sections on_config diffs, each with the     *)
(* runtime fields it copies.                                               *)
ToModule(rt) ==
    [enabled |-> rt.enabled,
     tap_mode |-> rt.tap_mode,
     yaml_config |-> rt.yaml,
     environment |-> [max_memory |-> rt.max_memory, max_cpus |-> rt.max_cpus],
     stats |-> [host |-> rt.host],
     dispatcher |->
        [global_pps_threshold |-> rt.global_pps_threshold,
         capture_packet_size |-> rt.capture_packet_size,
         capture_socket_type |-> rt.capture_socket_type,
         packet_header_enabled |-> rt.packet_header_enabled,
         max_memory |-> rt.max_memory,
         af_packet_blocks |-> get_af_packet_blocks(rt.yaml, rt.tap_mode, rt.max_memory),
         tap_mode |-> rt.tap_mode,
         enabled |-> rt.enabled,
         npb_dedup_enabled |-> rt.npb_dedup_enabled],
     sender |->
        [npb_dedup_enabled |-> rt.npb_dedup_enabled,
         npb_bps_threshold |-> rt.npb_bps_threshold,
         npb_socket_type |-> rt.npb_socket_type,
         compressor_socket_type |-> rt.compressor_socket_type,
         collector_socket_type |-> rt.collector_socket_type,
         enabled |-> rt.collector_enabled],
     npb |-> [dedup_enabled |-> rt.npb_dedup_enabled,
              bps_threshold |-> rt.npb_bps_threshold,
              socket_type |-> rt.npb_socket_type],
     collector |-> [enabled |-> rt.collector_enabled, vtap_id |-> rt.vtap_id % 2 ^ 16,
                    l4_log_store_tap_types |-> rt.l4_log_store_tap_types],
     handler |-> [compressor_socket_type |-> rt.compressor_socket_type,
                  npb_dedup_enabled |-> rt.npb_dedup_enabled],
     flow |-> [collector_enabled |-> rt.collector_enabled],
     debug |-> [enabled |-> rt.debug_enabled, vtap_id |-> rt.vtap_id % 2 ^ 16],
     log |-> [host |-> rt.host],
     metric_server |-> [enabled |-> rt.external_agent_http_proxy_enabled,
                        port |-> rt.external_agent_http_proxy_port]]

----------------------------------------------------------------------------
(* on_config first adopts the new tap_mode and yaml_config (1079-1120);   *)
(* every later test reads the candidate after that update.                *)
AdoptModeAndYaml(c, new) ==
    [c EXCEPT !.tap_mode = new.tap_mode, !.yaml_config = new.yaml_config]

(* capture_packet_size changed in Analyzer mode reaches todo!() (1170-1176). *)
DispatcherPanics(c1, new) ==
    /\ c1.dispatcher.capture_packet_size # new.dispatcher.capture_packet_size
    /\ c1.tap_mode = Analyzer

(* The max_memory test of 1223-1243: old and new sizes, both computed from *)
(* the candidate as it is at that point.                                   *)
SizesDiffer(c1, new) ==
    LET old == c1.dispatcher.max_memory
        mem == new.dispatcher.max_memory
    IN  \/ get_af_packet_blocks(c1.yaml_config, new.tap_mode, mem)
             # get_af_packet_blocks(c1.yaml_config, c1.tap_mode, old)
        \/ get_fast_path_map_size(c1.yaml_config, mem)
             # get_fast_path_map_size(c1.yaml_config, old)
        \/ get_channel_size(c1, mem) # get_channel_size(c1, old)
        \/ get_flow_capacity(c1, mem) # get_flow_capacity(c1, old)

(* restart_dispatcher: every test that sets it, in the order of the code. *)
RestartDispatcher(c1, new) ==
    LET o == c1
        n == new
    IN  \/ o.dispatcher.capture_socket_type # n.dispatcher.capture_socket_type
        \/ o.dispatcher.max_memory # n.dispatcher.max_memory /\ SizesDiffer(c1, new)
        \/ o.flow.collector_enabled # n.flow.collector_enabled
        \/ o.collector.l4_log_store_tap_types # n.collector.l4_log_store_tap_types
        \/ o.collector.vtap_id # n.collector.vtap_id /\ n.collector.enabled
        \/ /\ o.sender.collector_socket_type # n.sender.collector_socket_type
           /\ o.sender.enabled # n.sender.enabled
        \/ /\ o.sender.compressor_socket_type # n.sender.compressor_socket_type
           /\ n.dispatcher.packet_header_enabled
        \/ o.sender.npb_socket_type # n.sender.npb_socket_type /\ n.tap_mode # Analyzer
        \/ o.sender.npb_dedup_enabled # n.sender.npb_dedup_enabled /\ n.tap_mode # Analyzer
        \/ o.handler.npb_dedup_enabled # n.handler.npb_dedup_enabled /\ n.tap_mode # Analyzer
        \/ o.npb # n.npb

(* The environment section (1371-1489): limits follow the push only       *)
(* outside Analyzer mode and outside a K8s pod; otherwise a set memory    *)
(* limit is cleared and the cpu limit becomes the host's cpu count.       *)
EnvironmentAfter(c1, new) ==
    IF c1.tap_mode # Analyzer /\ ~K8sCluster THEN new.environment
    ELSE IF c1.environment.max_memory # 0
         THEN [max_memory |-> 0, max_cpus |-> MaxOf(1, SysCpus)]
         ELSE c1.environment

(* The candidate after on_config: each diffed section is replaced by the  *)
(* new one, except that an empty log host keeps the old host (1279-1281)  *)
(* and the environment follows EnvironmentAfter.  The top-level enabled   *)
(* is never assigned.                                                     *)
CandidateAfter(c1, new) ==
    [new EXCEPT !.enabled = c1.enabled,
                !.log.host = IF new.log.host = "" THEN c1.log.host ELSE new.log.host,
                !.environment = EnvironmentAfter(c1, new)]

(* cgroup_callback is pushed outside Analyzer mode and outside a K8s pod  *)
(* when the memory or the cpu limit changes (1374-1455).                  *)
CgroupChange(c1, new) ==
    /\ c1.tap_mode # Analyzer /\ ~K8sCluster
    /\ \/ c1.environment.max_memory # new.environment.max_memory
       \/ c1.environment.max_cpus # new.environment.max_cpus

When(cond, cb) == IF cond THEN <<cb>> ELSE <<>>

(* Callbacks pushed by the sections, in push order, before the restart:   *)
(* start/stop_dispatcher and leaky_bucket_callback in the dispatcher      *)
(* section, stats_callback, debug_callback, and the NPB dispatcher_callback. *)
Callbacks_no_npb(c1, new) ==
    When(c1.dispatcher.enabled # new.dispatcher.enabled,
         IF new.dispatcher.enabled THEN "start_dispatcher" ELSE "stop_dispatcher")
    \o When(c1.dispatcher.global_pps_threshold # new.dispatcher.global_pps_threshold,
            "leaky_bucket")
    \o When(c1.stats # new.stats, "stats")
    \o When(c1.debug # new.debug, "debug")
    \o When(CgroupChange(c1, new), "cgroup")

Callbacks(c1, new) ==
    When(c1.dispatcher.enabled # new.dispatcher.enabled,
         IF new.dispatcher.enabled THEN "start_dispatcher" ELSE "stop_dispatcher")
    \o When(c1.dispatcher.global_pps_threshold # new.dispatcher.global_pps_threshold,
            "leaky_bucket")
    \o When(c1.stats # new.stats, "stats")
    \o When(c1.debug # new.debug, "debug")
    \o When(CgroupChange(c1, new), "cgroup")
    \o When(c1.npb # new.npb, "npb")

(* Variant of the restart guard without the dispatcher's enabled flag. *)
QueueRestart_unguarded(c, restart) == restart

(* "avoid first config changed to restart dispatcher" (1850): components  *)
(* are present, so the restart is queued when the dispatcher is enabled.  *)
QueueRestart(c, restart) == restart /\ c.dispatcher.enabled

(* Variant that also starts the dispatchers inline when the push enables  *)
(* them, instead of leaving it to start_dispatcher.                        *)
MetricServerAfter_inline_start(comp, c1, new) ==
    [comp EXCEPT
        !.running = IF new.dispatcher.enabled THEN TRUE ELSE @,
        !.metric_on = IF c1.metric_server.enabled # new.metric_server.enabled
                      THEN new.metric_server.enabled ELSE @,
        !.metric_port = IF c1.metric_server.port # new.metric_server.port
                        THEN new.metric_server.port ELSE @]

(* Variant that ignores a change of the metrics server's port. *)
MetricServerAfter_no_port(comp, c1, new) ==
    [comp EXCEPT
        !.metric_on = IF c1.metric_server.enabled # new.metric_server.enabled
                      THEN new.metric_server.enabled ELSE @]

(* The metrics server is started, stopped and re-ported inline (1782-1800). *)
MetricServerAfter(comp, c1, new) ==
    [comp EXCEPT
        !.metric_on = IF c1.metric_server.enabled # new.metric_server.enabled
                      THEN new.metric_server.enabled ELSE @,
        !.metric_port = IF c1.metric_server.port # new.metric_server.port
                        THEN new.metric_server.port ELSE @]

(* on_config(rt) with components present, run when the caller has applied *)
(* the callbacks of the previous push.                                    *)
on_config(rt) ==
    LET new == ToModule(rt)
        c1 == AdoptModeAndYaml(candidate, new)
        c == CandidateAfter(c1, new)
    IN  /\ ~panicked
        /\ pending = <<>>
        /\ IF DispatcherPanics(c1, new)
           THEN /\ panicked' = TRUE
                /\ candidate' = c1
                /\ UNCHANGED <<current, pending, components>>
           ELSE /\ candidate' = c
                /\ current' = c
                /\ pending' = Callbacks(c1, new)
                       \o When(QueueRestart(c, RestartDispatcher(c1, new)), "restart")
                /\ components' = MetricServerAfter(components, c1, new)
                /\ UNCHANGED panicked

----------------------------------------------------------------------------
(* The callbacks, run by the caller in the order returned.  Each reads    *)
(* candidate_config as it is when it runs.                                *)
Dequeue(name) ==
    /\ pending # <<>>
    /\ Head(pending) = name
    /\ pending' = Tail(pending)
    /\ UNCHANGED <<candidate, current, panicked>>

(* Variant of start_dispatcher that tests the K8s condition the wrong way. *)
start_dispatcher_inverted ==
    /\ Dequeue("start_dispatcher")
    /\ components' = IF candidate.tap_mode = Analyzer
           THEN [components EXCEPT !.running = TRUE]
           ELSE IF K8sCluster
                THEN [components EXCEPT !.running = TRUE]
                ELSE components

(* start_dispatcher: started in Analyzer mode; otherwise only outside a   *)
(* K8s pod and only when free_memory_check passes.                        *)
start_dispatcher ==
    \E ok \in MemChecks :
        /\ Dequeue("start_dispatcher")
        /\ components' = IF candidate.tap_mode = Analyzer
               THEN [components EXCEPT !.running = TRUE]
               ELSE IF ~K8sCluster
                    THEN [components EXCEPT !.running = @ \/ ok]
                    ELSE components

stop_dispatcher ==
    /\ Dequeue("stop_dispatcher")
    /\ components' = [components EXCEPT !.running = FALSE]

(* leaky_bucket_callback: no limit in Analyzer mode, else the pps limit. *)
leaky_bucket_callback ==
    /\ Dequeue("leaky_bucket")
    /\ components' = [components EXCEPT !.bucket =
               IF candidate.tap_mode = Analyzer THEN NoLimit
               ELSE Limit(candidate.dispatcher.global_pps_threshold)]

stats_callback ==
    /\ Dequeue("stats")
    /\ components' = [components EXCEPT !.stats_host = candidate.stats.host]

debug_callback ==
    /\ Dequeue("debug")
    /\ components' = [components EXCEPT !.debugger = candidate.debug.enabled]

(* cgroup_callback creates the controller if there is none (1387-1405),  *)
(* then applies the resources, where the hard memory limit is set only    *)
(* when max_memory is not 0 and a resource left at its default is not     *)
(* written (1408-1451).  A failure of Cgroups::new, init or apply is only *)
(* logged with warn!, so the limit stays as it was; nothing re-queues the *)
(* callback.                                                              *)
cgroup_callback ==
    \E ok \in CgroupApplies :
        /\ Dequeue("cgroup")
        /\ components' = [components EXCEPT !.cgroup_mem =
                   IF ok /\ candidate.environment.max_memory # 0
                   THEN candidate.environment.max_memory ELSE @]

(* The NPB dispatcher_callback re-applies the NPB bps limit. *)
npb_callback ==
    /\ Dequeue("npb")
    /\ components' = [components EXCEPT !.npb_rate = candidate.npb.bps_threshold]

(* The restart dispatcher_callback: stop every dispatcher, then start     *)
(* them, behind free_memory_check outside Analyzer mode and K8s pods.     *)
restart_callback ==
    \E ok \in MemChecks :
        /\ Dequeue("restart")
        /\ components' = [components EXCEPT !.running =
                   IF candidate.tap_mode # Analyzer /\ ~K8sCluster THEN ok ELSE TRUE]

----------------------------------------------------------------------------
(* The state the components are built in from a configuration. *)
Applied(c) ==
    [running |-> c.dispatcher.enabled,
     bucket |-> IF c.tap_mode = Analyzer THEN NoLimit
                ELSE Limit(c.dispatcher.global_pps_threshold),
     stats_host |-> c.stats.host,
     debugger |-> c.debug.enabled,
     npb_rate |-> c.npb.bps_threshold,
     metric_on |-> c.metric_server.enabled,
     metric_port |-> c.metric_server.port,
     cgroup_mem |-> IF c.tap_mode # Analyzer /\ ~K8sCluster
                    THEN c.environment.max_memory ELSE 0]

(* ConfigHandler::new (938-958): candidate and current from one try_from. *)
Init ==
    /\ candidate = ToModule(InitRuntime)
    /\ current = candidate
    /\ pending = <<>>
    /\ components = Applied(candidate)
    /\ panicked = FALSE

CallbackNames ==
    {"start_dispatcher", "stop_dispatcher", "leaky_bucket", "stats", "debug",
     "cgroup", "npb", "restart"}

Callback ==
    \/ start_dispatcher \/ stop_dispatcher \/ leaky_bucket_callback
    \/ stats_callback \/ debug_callback \/ cgroup_callback
    \/ npb_callback \/ restart_callback

Next ==
    \/ \E rt \in RuntimeConfigs : on_config(rt)
    \/ Callback

Spec == Init /\ [][Next]_vars

(* The caller runs every callback on_config returns; pushes get no       *)
(* fairness, the controller may stop sending them.                       *)
FairSpec == Spec /\ WF_vars(Callback)

----------------------------------------------------------------------------
TypeOK ==
    /\ candidate.tap_mode \in TapModes
    /\ current.tap_mode \in TapModes
    /\ pending \in Seq(CallbackNames)
    /\ components.running \in BOOLEAN
    /\ panicked \in BOOLEAN

(* Once the callbacks of a push have run, a dispatcher runs only if the   *)
(* candidate enables it: the restart callback is queued only for an       *)
(* enabled dispatcher (1848), and it runs after stop_dispatcher.          *)
DispatchersRunOnlyWhenEnabled ==
    pending = <<>> => (components.running => candidate.dispatcher.enabled)

(* Once the callbacks of a push have run, the debugger, the NPB limit,    *)
(* the stats host and the metrics server follow the deployed candidate.   *)
CallbacksApplied ==
    ~panicked /\ pending = <<>> =>
        /\ current = candidate
        /\ components.debugger = candidate.debug.enabled
        /\ components.npb_rate = candidate.npb.bps_threshold
        /\ components.stats_host = candidate.stats.host
        /\ components.metric_on = candidate.metric_server.enabled
        /\ components.metric_port = candidate.metric_server.port

(* Outside Analyzer mode and K8s pods, once the callbacks have run, the   *)
(* cgroup hard limit is the configured max_memory whenever one is set     *)
(* (the comment at handler.rs 1385: non-container agents are resource     *)
(* limited).  A failed cgroup_callback, which only warns, breaks it.      *)
CgroupFollowsLimit ==
    /\ pending = <<>>
    /\ candidate.tap_mode # Analyzer /\ ~K8sCluster
    /\ candidate.environment.max_memory # 0
    => components.cgroup_mem = candidate.environment.max_memory

(* When max_memory is 0 ("memory set ulimit when tap_mode=analyzer or     *)
(* running in a K8s pod", 1472) no memory limit is left in the cgroup.    *)
MemoryUnlimitedWhenCleared ==
    pending = <<>> /\ candidate.environment.max_memory = 0
    => components.cgroup_mem = 0

(* Once the callbacks have run, the rx leaky bucket is unlimited in       *)
(* Analyzer mode and the pps threshold otherwise, as leaky_bucket_callback *)
(* sets it (1251-1268).                                                   *)
LeakyBucketFollowsMode ==
    pending = <<>> =>
        components.bucket = IF candidate.tap_mode = Analyzer THEN NoLimit
                            ELSE Limit(candidate.dispatcher.global_pps_threshold)

(* on_config never panics on a configuration the controller pushes. *)
NoPanic == ~panicked

(* A dispatcher the candidate enables is eventually running, unless it is *)
(* disabled again (start_dispatcher, 1187-1213, and the restart callback). *)
EnabledEventuallyRuns ==
    candidate.dispatcher.enabled ~> (components.running \/ ~candidate.dispatcher.enabled)

(* The handler implements DispatcherControl: seen through the candidate's *)
(* dispatcher switch and the dispatchers' state, no step, of a push or of *)
(* a callback, starts a dispatcher the candidate disables, even while     *)
(* callbacks are still queued.                                            *)
DC == INSTANCE DispatcherControl
        WITH enabled <- candidate.dispatcher.enabled,
             running <- components.running

DispatcherControlSpec == DC!Spec

(* The settings the modelled callbacks re-apply, as the candidate         *)
(* prescribes them and as the components run with them, and the callback  *)
(* that owes each one while it is queued.  The metrics server is applied  *)
(* inline by on_config (1782-1800); the cgroup limit is left out, since   *)
(* cgroup_callback may keep a limit the candidate no longer sets.         *)
SettingOf(c) ==
    [debugger |-> c.debug.enabled, npb_rate |-> c.npb.bps_threshold,
     stats_host |-> c.stats.host, metric_on |-> c.metric_server.enabled,
     metric_port |-> c.metric_server.port]

RunningSetting(comp) ==
    [debugger |-> comp.debugger, npb_rate |-> comp.npb_rate,
     stats_host |-> comp.stats_host, metric_on |-> comp.metric_on,
     metric_port |-> comp.metric_port]

SettingCallback == [debugger |-> "debug", npb_rate |-> "npb", stats_host |-> "stats"]

Queued(name) == \E i \in 1 .. Len(pending) : pending[i] = name

(* The handler implements ComponentSettings: every push owes (queues the  *)
(* callback of) every setting it changes, no callback is owed twice, and   *)
(* every write to one of these components, by a push or by a callback,    *)
(* copies the value the candidate prescribes at that moment.              *)
CS == INSTANCE ComponentSettings
        WITH Fields <- {"debugger", "npb_rate", "stats_host", "metric_on", "metric_port"},
             Inline <- {"metric_on", "metric_port"},
             want <- SettingOf(candidate),
             have <- RunningSetting(components),
             dirty <- {f \in DOMAIN SettingCallback : Queued(SettingCallback[f])}

SettingsSpec == CS!Spec
====
