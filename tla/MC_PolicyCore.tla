---------------------------- MODULE MC_PolicyCore ----------------------------
(* A small instance of PolicyCore: two dispatchers, one flow in both       *)
(* directions seen with every combination of local ends, two groups, and   *)
(* three ACLs: an exact 5-tuple rule (spec scenario 1), a catch-all rule   *)
(* sharing its tunnel, and a rule naming a group no configuration defines  *)
(* (spec scenario 6).                                                      *)
EXTENDS PolicyCore

MCDispatchers == {"d1", "d2"}

(* One dispatcher against the control thread: the properties of the main  *)
(* run are about one shard and the lookups that fill it.                  *)
MCOneDispatcher == {"d1"}
MCGroupIds == {0, 10, 20, 30}
MCIps == {"ip1", "ip2"}
MCPorts == {80, 100}
MCEpcs == {2, 20}
MCActions == {"tunnel100"}

MCAcls ==
    {[id |-> 1, src_groups |-> {10}, dst_groups |-> {20}, src_ports |-> {80},
      dst_ports |-> {100}, action |-> "tunnel100"],
     [id |-> 2, src_groups |-> {}, dst_groups |-> {}, src_ports |-> MCPorts,
      dst_ports |-> MCPorts, action |-> "tunnel100"],
     [id |-> 3, src_groups |-> {30}, dst_groups |-> {20}, src_ports |-> MCPorts,
      dst_ports |-> MCPorts, action |-> "tunnel100"]}

(* Both groups defined, or group 20 dropped from the configuration. *)
MCGroupConfigs ==
    {{[id |-> 10, epc |-> 2, ips |-> {"ip1"}], [id |-> 20, epc |-> 20, ips |-> {"ip2"}]},
     {[id |-> 10, epc |-> 2, ips |-> {"ip1"}]}}

(* The flow of spec scenario 1, seen with its source end local or not, *)
(* and the reverses of those keys.                                     *)
MCForward ==
    {[src_ip |-> "ip1", dst_ip |-> "ip2", src_port |-> 80, dst_port |-> 100,
      src_epc |-> 2, dst_epc |-> 20, l3_end_0 |-> e0, l3_end_1 |-> FALSE] :
        e0 \in BOOLEAN}

MCKeys == MCForward \cup {Reverse(k) : k \in MCForward}
(* Group ids beyond u16: ACL 3 names group 65556, which no configuration *)
(* defines and whose low 16 bits are those of group 20.                  *)
MCWideGroupIds == {0, 10, 20, 65556}

MCWideAcls ==
    {a \in MCAcls : a.id # 3}
        \cup {[id |-> 3, src_groups |-> {65556}, dst_groups |-> {20},
              src_ports |-> MCPorts, dst_ports |-> MCPorts, action |-> "tunnel100"]}
=============================================================================
