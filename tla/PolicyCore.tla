----------------------------- MODULE PolicyCore -----------------------------
(***************************************************************************)
(* The policy core of the agent: FirstPath (src/agent/src/policy/          *)
(* first_path.rs) together with the FastPath cache it owns.  One control   *)
(* thread calls the reload operations (update_ip_group, update_acl, flush) *)
(* and every dispatcher thread calls first_get / fast_get on its own       *)
(* fast-path shard.  The caller shares one FirstPath between those        *)
(* threads (the tables are UnsafeWrapper cells, 187/195; spec section 5:   *)
(* no synchronisation on the lookup path), so a lookup is not atomic with  *)
(* respect to a reload: first_get is modelled as two steps, the table      *)
(* read (get_policy_from_table, 568) and the store (add_policy, 571), and  *)
(* update_acl, update_ip_group and flush may run between them.  A reload   *)
(* is one step: the non-atomic publication of the bucket tables is the     *)
(* subject of FirstPathTable.                                              *)
(*                                                                         *)
(* Data abstraction.  An IP segment is a pair <<ip, epc>>; the matched     *)
(* field's bit layout is abstracted to its meaning: an atom matches a key  *)
(* in the forward direction when its source and destination segments and   *)
(* port sets admit the key's source and destination.  The bucketed table   *)
(* that implements this predicate is the subject of module FirstPathTable. *)
(* One address family is modelled; table_6 repeats the code of table_4.    *)
(***************************************************************************)
EXTENDS Naturals, FiniteSets

CONSTANTS
    Dispatchers,   \* dispatcher threads; thread d owns fast-path shard d
    GroupIds,      \* group ids ACLs may name, u32 (0 is reserved and skipped)
    Ips, Ports, Epcs,
    Actions,       \* NPB actions (tunnels), as model values
    Acls,          \* the ACLs the configuration may deliver
    GroupConfigs,  \* the ip-group lists the configuration may deliver
    Keys,          \* the lookup keys the dispatchers may see
    CheckFlags,    \* values of update_acl's `check` argument the caller uses
    POLICY,        \* FeatureFlags::POLICY is set
    FastDisable,   \* fast_disable
    MapSize        \* fast-path capacity per shard

Any == "any"             \* IpSegment::IPV4_ANY / IPV6_ANY
NoEntry == [miss |-> TRUE]   \* a fast-path miss
Segments == Ips \X Epcs

(* `group as u16`: the key an ACL's group id is looked up under. *)
GroupKey(g) == g % 65536
GroupKeys == {GroupKey(g) : g \in GroupIds}   \* IpGroupData ids are u16
Dirs == {"Fwd", "Bwd"}   \* DirectionType::Forward / Backward

GroupRec == [id : GroupKeys, epc : Epcs, ips : SUBSET Ips]
AclRec == [id : Nat \ {0}, src_groups : SUBSET GroupIds,
           dst_groups : SUBSET GroupIds, src_ports : SUBSET Ports,
           dst_ports : SUBSET Ports, action : Actions]
KeyRec == [src_ip : Ips, dst_ip : Ips, src_port : Ports, dst_port : Ports,
           src_epc : Epcs, dst_epc : Epcs, l3_end_0 : BOOLEAN,
           l3_end_1 : BOOLEAN]
Atom == [acl : Nat \ {0}, action : Actions, src : Segments \cup {Any},
         dst : Segments \cup {Any}, src_ports : SUBSET Ports,
         dst_ports : SUBSET Ports]
PolicyData == [acl_id : Nat, npb_actions : SUBSET (Actions \X Dirs)]

ASSUME ConstAssumption ==
    /\ GroupIds \subseteq Nat /\ 0 \in GroupIds
    /\ Acls \subseteq AclRec
    /\ GroupConfigs \subseteq SUBSET GroupRec
    /\ Keys \subseteq KeyRec
    /\ CheckFlags \subseteq BOOLEAN
    /\ POLICY \in BOOLEAN /\ FastDisable \in BOOLEAN
    /\ MapSize \in Nat \ {0}
    /\ Any \notin Segments

VARIABLES
    group_ip_map,  \* FirstPath.group_ip_map: group id -> its segments
    table,         \* FirstPath.table_4: the installed atoms
    fast,          \* FastPath: shard -> fingerprint -> PolicyData
    reload,        \* "serving", or "acl_updated" between update_acl and flush
    panicked,      \* a thread panicked (an unwrap of None)
    inflight       \* dispatcher -> Idle, or the lookup between 568 and 571

vars == <<group_ip_map, table, fast, reload, panicked, inflight>>

(* A dispatcher with no first_get between its table read and its store.   *)
Idle == [idle |-> TRUE]

(* A first_get between its table read and its store: the key, the policy  *)
(* it computed (the local `policy` of first_get), and, as a history       *)
(* variable that no step reads, the table it computed it from.            *)
InFlight == [key : Keys, policy : PolicyData, tbl : SUBSET Atom]

----------------------------------------------------------------------------
(* key.reverse(): the key of the opposite direction of the same flow. *)
Reverse(k) == [src_ip |-> k.dst_ip, dst_ip |-> k.src_ip,
               src_port |-> k.dst_port, dst_port |-> k.src_port,
               src_epc |-> k.dst_epc, dst_epc |-> k.src_epc,
               l3_end_0 |-> k.l3_end_1, l3_end_1 |-> k.l3_end_0]

(* generate_group_ip_map: segments of every group, group 0 skipped; a    *)
(* group with no ips gets no entry, which the empty set stands for here.  *)
generate_group_ip_map(groups) ==
    [g \in GroupKeys |->
        IF g = 0 THEN {}
        ELSE UNION {r.ips \X {r.epc} : r \in {x \in groups : x.id = g}}]

(* group_ip_map.get(&(group as u16)) finds an entry. *)
Known(map, g) == map[GroupKey(g)] # {}

(* Variant of is_invalid_acl that checks the source groups only. *)
is_invalid_acl_src_only(map, acl, check) ==
    /\ check
    /\ \E g \in acl.src_groups : ~Known(map, g)

(* is_invalid_acl: with `check`, an ACL naming an unknown source or       *)
(* destination group is invalid.                                          *)
is_invalid_acl(map, acl, check) ==
    /\ check
    /\ \/ \E g \in acl.src_groups : ~Known(map, g)
       \/ \E g \in acl.dst_groups : ~Known(map, g)

(* generate_acl_bits unwraps group_ip_map.get(group): it panics on a      *)
(* group with no entry.                                                   *)
AclBitsPanics(map, acl) ==
    \E g \in acl.src_groups \cup acl.dst_groups : ~Known(map, g)

(* generate_acl_bits + Acl::generate_match: the segments of the groups,   *)
(* or the ANY segment when the ACL names no group, crossed into atoms.    *)
GroupSegments(map, gs) ==
    IF gs = {} THEN {Any} ELSE UNION {map[GroupKey(g)] : g \in gs}

generate_acl_bits(map, acls) ==
    UNION {{[acl |-> a.id, action |-> a.action, src |-> s, dst |-> d,
             src_ports |-> a.src_ports, dst_ports |-> a.dst_ports] :
                s \in GroupSegments(map, a.src_groups),
                d \in GroupSegments(map, a.dst_groups)} : a \in acls}

SegmentAdmits(seg, ip, epc) == seg = Any \/ seg = <<ip, epc>>

(* The matched-field predicate (field & atom.mask) == atom.field, for the *)
(* forward matched field of key k.                                        *)
Matches(atom, k) ==
    /\ SegmentAdmits(atom.src, k.src_ip, k.src_epc)
    /\ SegmentAdmits(atom.dst, k.dst_ip, k.dst_epc)
    /\ k.src_port \in atom.src_ports
    /\ k.dst_port \in atom.dst_ports

LowestAclId(S) == IF S = {} THEN 0 ELSE CHOOSE x \in S : \A y \in S : x <= y

(* get_policy_from_table: forward matched field tagged Forward, backward  *)
(* matched field (the reversed key) tagged Backward, every matching atom  *)
(* merged by merge_npb_action (actions unioned, lowest acl id kept).      *)
get_policy_from_table(tbl, k) ==
    LET fwd == {a \in tbl : Matches(a, k)}
        bwd == {a \in tbl : Matches(a, Reverse(k))}
    IN  [acl_id |-> LowestAclId({a.acl : a \in fwd \cup bwd}),
         npb_actions |-> {<<a.action, "Fwd">> : a \in fwd}
                            \cup {<<a.action, "Bwd">> : a \in bwd}]

EmptyPolicy == [acl_id |-> 0, npb_actions |-> {}]

(* The policy first_get computes before it formats: empty without POLICY. *)
RawPolicy(tbl, k) == IF POLICY THEN get_policy_from_table(tbl, k) ELSE EmptyPolicy

SwapDir(d) == IF d = "Fwd" THEN "Bwd" ELSE "Fwd"

(* Variant of ReversePolicy that keeps every action's direction. *)
ReversePolicy_unswapped(p) == p

(* What FastPath::add_policy stores under the reverse fingerprint.        *)
ReversePolicy(p) ==
    [acl_id |-> p.acl_id,
     npb_actions |-> {<<x[1], SwapDir(x[2])>> : x \in p.npb_actions}]

(* PolicyData::format_npb_action: an action merged in both directions    *)
(* becomes one action for both.                                           *)
format_npb_action(p) ==
    LET both == {a \in Actions : <<a, "Fwd">> \in p.npb_actions
                                 /\ <<a, "Bwd">> \in p.npb_actions}
    IN  [p EXCEPT !.npb_actions =
            {x \in p.npb_actions : x[1] \notin both} \cup (both \X {"Both"})]

(* PolicyData::dedup: a packet whose side 0 is local keeps only the       *)
(* actions of that side.                                                  *)
dedup(p, k) ==
    IF k.l3_end_0
    THEN [p EXCEPT !.npb_actions =
            {<<x[1], IF x[2] = "Both" THEN "Fwd" ELSE x[2]>> :
                x \in {y \in p.npb_actions : y[2] # "Bwd"}}]
    ELSE p

Occupied(shard) == {k \in Keys : shard[k] # NoEntry}

----------------------------------------------------------------------------
Init ==
    /\ group_ip_map = [g \in GroupKeys |-> {}]
    /\ table = {}
    /\ fast = [d \in Dispatchers |-> [k \in Keys |-> NoEntry]]
    /\ reload = "serving"
    /\ panicked = FALSE
    /\ inflight = [d \in Dispatchers |-> Idle]

(* update_ip_group: the group map is rebuilt only with POLICY; the        *)
(* fast-path mask tables derived from groups are not modelled.            *)
update_ip_group(groups) ==
    /\ ~panicked
    /\ group_ip_map' = IF POLICY THEN generate_group_ip_map(groups)
                       ELSE group_ip_map
    /\ UNCHANGED <<table, fast, reload, panicked, inflight>>

(* update_acl: drop the invalid ACLs, rebuild the table from the rest     *)
(* (panicking on an unknown group), rebuild the interest table.  The      *)
(* fast path is left as it is.                                            *)
update_acl(acls, check) ==
    LET valid == {a \in acls : ~is_invalid_acl(group_ip_map, a, check)}
    IN
    /\ ~panicked
    /\ IF POLICY /\ \E a \in valid : AclBitsPanics(group_ip_map, a)
       THEN /\ panicked' = TRUE
            /\ UNCHANGED <<table, reload>>
       ELSE /\ table' = IF POLICY THEN generate_acl_bits(group_ip_map, valid)
                        ELSE table
            /\ reload' = "acl_updated"
            /\ UNCHANGED panicked
    /\ UNCHANGED <<group_ip_map, fast, inflight>>

(* flush: FastPath::flush clears every shard. *)
flush ==
    /\ ~panicked
    /\ fast' = [d \in Dispatchers |-> [k \in Keys |-> NoEntry]]
    /\ reload' = "serving"
    /\ UNCHANGED <<group_ip_map, table, panicked, inflight>>

(* The shard after storing p under k and its reversal under the reverse  *)
(* key, with the entries ev evicted.                                      *)
PutEntries(shard, k, p, ev) ==
    [x \in Keys |-> IF x = k THEN p
                   ELSE IF x = Reverse(k) THEN ReversePolicy(p)
                   ELSE IF x \in ev THEN NoEntry ELSE shard[x]]

(* The sets of entries a store into the shard may evict: none when the    *)
(* shard has room, otherwise any set that makes room.                     *)
Evictions(shard, k) ==
    LET new == {k, Reverse(k)}
    IN  {ev \in SUBSET (Occupied(shard) \ new) :
            /\ Cardinality((Occupied(shard) \ ev) \cup new) <= MapSize
            /\ (ev # {} => Cardinality(Occupied(shard) \cup new) > MapSize)}

(* FastPath::add_policy into shard d: the policy under the key's          *)
(* fingerprint and its reversal under the reverse key's, evicting         *)
(* entries of a full shard.                                               *)
AddPolicy(shard, k, p) ==
    {PutEntries(shard, k, p, ev) : ev \in Evictions(shard, k)}

(* first_get on dispatcher d, up to its table read (560-569): the policy  *)
(* computed from the installed table, empty without POLICY.               *)
first_get_compute(d, k) ==
    /\ ~panicked
    /\ inflight[d] = Idle
    /\ inflight' = [inflight EXCEPT ![d] =
                       [key |-> k, policy |-> RawPolicy(table, k), tbl |-> table]]
    /\ UNCHANGED <<group_ip_map, table, fast, reload, panicked>>

(* Variant of first_get_store that stores the policy after formatting it. *)
first_get_store_formatted(d) ==
    /\ ~panicked
    /\ inflight[d] # Idle
    /\ \E s \in AddPolicy(fast[d], inflight[d].key,
                           format_npb_action(inflight[d].policy)) :
          fast' = [fast EXCEPT ![d] = s]
    /\ inflight' = [inflight EXCEPT ![d] = Idle]
    /\ UNCHANGED <<group_ip_map, table, reload, panicked>>

(* The rest of first_get on dispatcher d (571-578): store the computed     *)
(* policy in the shard with add_policy, then format and dedup the copy it  *)
(* returns, which changes no state.                                       *)
first_get_store(d) ==
    /\ ~panicked
    /\ inflight[d] # Idle
    /\ \E s \in AddPolicy(fast[d], inflight[d].key, inflight[d].policy) :
          fast' = [fast EXCEPT ![d] = s]
    /\ inflight' = [inflight EXCEPT ![d] = Idle]
    /\ UNCHANGED <<group_ip_map, table, reload, panicked>>

(* fast_get only reads; the result it returns is FastGetResult.           *)
FirstGetResult(tbl, k, dd) ==
    LET p == format_npb_action(RawPolicy(tbl, k))
    IN  IF dd THEN dedup(p, k) ELSE p

FastGetResult(e, k, dd) == IF dd THEN dedup(e, k) ELSE e

Next ==
    \/ \E gs \in GroupConfigs : update_ip_group(gs)
    \/ \E acls \in SUBSET Acls, check \in CheckFlags : update_acl(acls, check)
    \/ flush
    \/ \E d \in Dispatchers, k \in Keys : first_get_compute(d, k)
    \/ \E d \in Dispatchers : first_get_store(d)

Spec == Init /\ [][Next]_vars

----------------------------------------------------------------------------
TypeOK ==
    /\ group_ip_map \in [GroupKeys -> SUBSET Segments]
    /\ table \subseteq Atom
    /\ fast \in [Dispatchers -> [Keys -> PolicyData \cup {NoEntry}]]
    /\ reload \in {"serving", "acl_updated"}
    /\ panicked \in BOOLEAN
    /\ inflight \in [Dispatchers -> {Idle} \cup InFlight]

(* Once the control thread's reload has ended with flush, every entry of  *)
(* every shard, reverse entries included, is what first-path would        *)
(* compute now from the installed table (spec section 8: fast-path        *)
(* entries are derivable from the current first-path state).  A lookup    *)
(* that read the table before the reload and stores after the flush       *)
(* breaks it.                                                             *)
FastEntriesCurrent ==
    reload = "serving" =>
        \A d \in Dispatchers, k \in Keys :
            fast[d][k] # NoEntry => fast[d][k] = RawPolicy(table, k)

(* The reverse entry a store writes is what first-path computes for the   *)
(* reverse key from the table the lookup read: add_policy stores the       *)
(* policy with its directions swapped under the reverse key's fingerprint  *)
(* (first_path.rs 571, FastPath::add_policy), which is right only because  *)
(* get_policy_from_table tags the backward matches of a key as the        *)
(* forward matches of its reverse (533-558).                              *)
ReverseStoresAgree ==
    [][\A d \in Dispatchers :
          (inflight[d] # Idle /\ inflight'[d] = Idle
             /\ Reverse(inflight[d].key) \in Keys) =>
              LET k == inflight[d].key IN
              fast'[d][Reverse(k)] = RawPolicy(inflight[d].tbl, Reverse(k))]_vars

(* A fast-path hit returns the PolicyData first_get returns for the same  *)
(* key and feature flags (spec section 8), outside a reload.              *)
FastAgreesWithFirst ==
    (reload = "serving" /\ ~FastDisable) =>
        \A d \in Dispatchers, k \in Keys, dd \in BOOLEAN :
            fast[d][k] # NoEntry =>
                FastGetResult(fast[d][k], k, dd) = FirstGetResult(table, k, dd)

(* Against the group map in place, an ACL that update_acl would keep      *)
(* with `check` names only groups the map holds under their own id, with  *)
(* segments (spec section 4: reject ACLs referencing unknown groups).  It *)
(* is about the u16 lookup of is_invalid_acl (first_path.rs 313-335).     *)
StrictCheckRejectsUnknownGroups ==
    \A a \in Acls :
        ~is_invalid_acl(group_ip_map, a, TRUE) =>
            \A g \in a.src_groups \cup a.dst_groups :
                g \in DOMAIN group_ip_map /\ group_ip_map[g] # {}

(* No reload panics the agent (spec section 7: an ACL naming an unknown   *)
(* group is reported and skipped).                                        *)
NoPanic == ~panicked
=============================================================================
