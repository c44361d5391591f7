-------------------------- MODULE MC_ConfigHandler --------------------------
(* Pushes built from one base RuntimeConfig by changing the fields that   *)
(* steer on_config: the dispatcher switch, the tap mode, the memory and   *)
(* cpu limits, the pps and NPB limits, the hosts (an empty log host       *)
(* included), the debugger and the metrics server.  Memory is in MB with  *)
(* a 1 MB block, so 512 and 768 MB give different af_packet blocks.       *)
EXTENDS ConfigHandler

MCTapModes == {"Local", Analyzer}

MCBase ==
    [enabled |-> TRUE, tap_mode |-> "Local", max_memory |-> 768, max_cpus |-> 1,
     global_pps_threshold |-> 1, capture_packet_size |-> 1,
     capture_socket_type |-> "auto", packet_header_enabled |-> TRUE,
     collector_enabled |-> TRUE, vtap_id |-> 1, l4_log_store_tap_types |-> {},
     npb_dedup_enabled |-> FALSE, npb_bps_threshold |-> 1,
     npb_socket_type |-> "udp", compressor_socket_type |-> "tcp",
     collector_socket_type |-> "tcp", debug_enabled |-> FALSE, host |-> "h1",
     external_agent_http_proxy_enabled |-> FALSE,
     external_agent_http_proxy_port |-> 1,
     yaml |-> [fast_path_map_size |-> 0, af_packet_blocks_enabled |-> FALSE,
               af_packet_blocks |-> 8, flow_capacity |-> 1]]

(* The handler starts from a disabled dispatcher. *)
MCDisabled ==
    [MCBase EXCEPT !.enabled = FALSE, !.global_pps_threshold = 2]

(* Analyzer mode, an empty log host, debugger and metrics server on. *)
MCAnalyzer ==
    [MCBase EXCEPT !.tap_mode = Analyzer, !.max_memory = 512, !.host = "",
                   !.debug_enabled = TRUE, !.npb_bps_threshold = 2,
                   !.external_agent_http_proxy_enabled = TRUE,
                   !.external_agent_http_proxy_port = 2]

(* Local mode with another memory limit, NPB socket and host. *)
MCLocal ==
    [MCBase EXCEPT !.max_memory = 512, !.npb_socket_type = "tcp",
                   !.host = "h2", !.external_agent_http_proxy_port = 2]

(* Analyzer mode with the dispatcher disabled and another pps limit. *)
MCAnalyzerOff ==
    [MCAnalyzer EXCEPT !.enabled = FALSE, !.global_pps_threshold = 3]

MCRuntimes == {MCBase, MCDisabled, MCAnalyzer, MCLocal, MCAnalyzerOff}

(* A push that changes capture_packet_size. *)
MCPanicRuntimes ==
    MCRuntimes \cup {[MCAnalyzer EXCEPT !.capture_packet_size = 2]}
====
