# Formal model of the deepflow agent's policy core and configuration handler

This directory holds TLA+ modules, TLC configurations and TLAPS proofs for the
policy lookup core in `src/agent/src/policy/first_path.rs` and for the runtime
configuration handler in `src/agent/src/config/handler.rs`.

## 1. Inventory

### Components

| Component | Source | State | Operations |
|---|---|---|---|
| FirstPath reload | `first_path.rs` 258-487 | `group_ip_map`, `vector_4/6`, `table_4/6`, `level`, `features` | `update_ip_group`, `update_acl(acls, check)` (via `is_invalid_acl`, `generate_acl_bits`, `vector_size`, `Vector::init`, `generate_table4/6`), `flush`, `update_interfaces`, `update_cidr`, `update_map_size` |
| FirstPath lookup | `first_path.rs` 489-601 | reads the tables. Writes the fast path. | `first_get`, `fast_get`, `get_policy_from_table`, `get_policy_from_table4/6` |
| Vector | `first_path.rs` 33-185 | `min_bit`, `max_bit`, `mask`, `vector_bits` | `calc_index`, `sort_table_index`, `generate_sort_table4/6`, `init` |
| FastPath | not in this snapshot (`fast_path.rs`) | per-dispatcher shards: fingerprint -> (policy, endpoints); interest and mask tables | `add_policy`, `get_policy`, `flush`, `generate_interest_table`, `generate_mask_table*`, `update_map_size` |
| PolicyData | external crate `npb_pcap_policy` | acl id and NPB actions | `merge_npb_action`, `format_npb_action`, `dedup` |
| ConfigHandler | `handler.rs` 938-1922 | `candidate_config`, `current_config` (ArcSwap) | `new`, `on_config` (field-by-field diff that queues callbacks and decides `restart_dispatcher`), the callbacks it returns, sizing helpers `get_channel_size`, `get_flow_capacity`, `get_fast_path_map_size`, `get_af_packet_blocks` |
| Components | built by the agent from the configuration | dispatchers, rx leaky bucket, debugger, stats collector, NPB limit, cgroups, metrics server | acted on by the callbacks |

### How they interact

Dispatcher threads call `fast_get` and, on a miss, `first_get`. `first_get`
computes the policy from the bucket tables, stores it in the dispatcher's
fast-path shard under the key's fingerprint and its reversal under the reverse
key's fingerprint (`add_policy`), then formats and dedups the copy it returns.
The control thread reloads with `update_ip_group` (the group map), then
`update_acl` (validates ACLs against that map and rebuilds the vectors and the
tables), then `flush` (clears every shard). `update_acl` does not flush, so the
caller must. Every public method takes `&mut self`, but the tables sit behind
`UnsafeWrapper` (`Table4`/`Table6`, lines 187 and 195), which lets the caller
share one `FirstPath` between the dispatcher threads and the control thread
(spec section 5: lookups run concurrently with reloads, without locks). So a
`first_get` is not one step: its table read (568) and its store (571) can be
separated by a reload.

The controller pushes a `RuntimeConfig`; `on_config` converts it
(`ModuleConfig::try_from`), diffs it section by section against
`candidate_config`, updates the candidate as it goes, starts, stops and
re-ports the metrics server inline, stores the candidate into
`current_config`, and returns a list of callbacks. The caller runs them later,
in order, on the components; each callback reads `candidate_config` as it is
when it runs, not as it was when it was pushed. Pushes and callback runs are
therefore two kinds of steps, and the model lets them interleave only as the
caller does: a push is handled once the previous push's callbacks have run.

### What is hard

- **Stale cache.** Between `update_acl` and `flush`, the fast path holds the previous generation's policies.
- **Lookup racing a reload.** A `first_get` that read the old table and stores after the `flush` leaves an old-generation entry behind.
- **Partial publication.** `generate_first_table` rewrites the vectors in place before it replaces the tables.
- **Reverse entries.** `add_policy` stores a derived entry for the reverse key. It is right only if first-path's answer for the reverse key is the same policy with directions swapped.
- **Order of caching and formatting.** The cache holds the policy before `format_npb_action`. The caller gets it after.
- **Panics on reload.** `generate_acl_bits` unwraps group lookups. Only `is_invalid_acl` with `check` stands between an ACL that names an unknown group and a panic.
- **Bit arithmetic.** Score folding into a 65535-slot sort table. The empty range `16..4` in `vector_size`. `max_bit` is taken from `vector_size` while 16 bits are collected. Group ids are truncated with `as u16`.
- **Reload order.** ACLs are validated against whatever group map the last `update_ip_group` left.
- **Deferred callbacks.** Whether a callback is queued is decided from the diff, and what it does from the candidate when it runs. A callback keyed on one field but reading another (the leaky bucket reads `tap_mode`, the cgroup callback skips a 0 limit) misses changes of the other field.
- **Dispatcher on/off.** `start_dispatcher`, `stop_dispatcher` and the restart callback all touch the dispatchers, under different conditions (Analyzer mode, K8s pod, `free_memory_check`).
- **Panic mid-update.** `todo!()` in `on_config` leaves the candidate half updated.

### Properties that make each component correct

- **FirstPath reload:** a checked reload never panics. The installed table is exactly the expansion of the valid ACLs. After `flush`, every cached entry is what first-path computes. The reverse entry a lookup stores is what first-path computes for the reverse key.
- **FirstPath lookup:** every atom that matches a key lies in the bucket the lookup reads (completeness). Nothing that does not match is merged (soundness). A fast-path hit equals first-path's result.
- **Vector:** the selection indices stay inside the sort table. The vector size follows the spec's rule. Insertion and lookup agree on bucket indices.
- **ConfigHandler:** once the callbacks of a push have run, the components match the deployed configuration (dispatchers, debugger, NPB and pps limits, stats host, metrics server, cgroup limit); no step starts a dispatcher the candidate disables; an enabled dispatcher eventually runs.

## 2. Modules

| Module | Models | Status |
|---|---|---|
| `PolicyCore` | FirstPath reload + lookup, with the FastPath shards | written |
| `MC_PolicyCore` | a small instance of PolicyCore for TLC | written |
| `PolicyCoreProofs` | TLAPS proofs about PolicyCore | written |
| `FirstPathTable` | Vector, bucket tables, `get_table_index`, at the bit level | written |
| `MC_FirstPathTable` | a small instance of FirstPathTable for TLC | written |
| `FirstPathTableProofs` | TLAPS proof that sort scores stay in range | written |
| `ConfigHandler` | `ConfigHandler::new`, `on_config`, its callbacks and the sizing helpers | written |
| `DispatcherControl` | the abstract dispatcher switch `ConfigHandler` refines | written |
| `MC_ConfigHandler` | a small instance of ConfigHandler for TLC | written |
| `ConfigHandlerProofs` | TLAPS proofs of the dispatcher invariant and of the refinement | written |
| `ConfigHandlerAppliedProofs` | TLAPS proofs that the callbacks apply the configuration (`CallbacksApplied`, and `CgroupFollowsLimit` when no cgroup call fails) | written |
| `ComponentSettings` | the abstract contract of the settings the callbacks re-apply, which `ConfigHandler` refines, with its own proofs | written |
| `ConfigHandlerSettingsProofs` | TLAPS proof that `ConfigHandler` implements `ComponentSettings` | written |

### PolicyCore: state and actions

| Variable | Code |
|---|---|
| `group_ip_map` | `FirstPath.group_ip_map`. A missing entry is the empty set, because the code inserts a group only with its first segment. |
| `table` | `table_4` as the set of installed atoms (`Table4Item`). Where each atom is bucketed is left to FirstPathTable. |
| `fast` | the FastPath shards: dispatcher -> key -> `PolicyData` or `NoEntry` |
| `reload` | `"acl_updated"` from `update_acl` until the caller's `flush` |
| `panicked` | a thread panicked on an unwrap of `None` |
| `inflight` | per dispatcher, `Idle` or the lookup between its table read and its store: the key, the computed `policy` (first_get's local) and, as a history variable, the table it read (`tbl`) |

Actions:
- `update_ip_group(groups)` models lines 289-296.
- `update_acl(acls, check)` models lines 463-483. It covers validation, expansion and the panic branch.
- `flush` models lines 485-487.
- `first_get_compute(d, k)` models lines 560-569: the policy computed from the installed table, empty without `POLICY`.
- `first_get_store(d)` models lines 571-578: `add_policy` of the computed policy and its reversal, with eviction at `MapSize`, then format and dedup of the returned copy, which change no state.
- `update_acl` is one step. The in-place rewrite of the vectors before the tables are replaced is not modelled (see section 5).

`fast_get` only reads. Its result is `FastGetResult`.

Inputs come from constant sets: ACLs, group lists, keys and `check` values.

**Abstractions.**
- A segment is `<<ip, epc>>`.
- `(field & mask) == atom.field` is modelled by its meaning (`Matches`): the atom's segments and port sets admit the key.
- The backward matched field is the reversed key.
- Protocol and tap type are omitted. They restrict matches the same way in both directions.
- One address family is modelled. `table_6` repeats `table_4`'s code.
- Code outside this snapshot is modelled from the spec and marked `spec_modelled` in PROJECT.json. This covers the FastPath, `LookupKey::reverse`, `merge_npb_action` (lowest non-zero acl id wins, actions unioned), `format_npb_action` (an action merged in both directions becomes one for both) and `dedup` (a key whose side 0 is local keeps only side-0 actions).

### FirstPathTable: state and actions

| Variable | Code |
|---|---|
| `installed` | the `Table4Item`s of the last reload: `(acl id, atom)` pairs |
| `vector` | `FirstPath.vector_4`: `min_bit`, `max_bit`, `mask`, `vector_bits`, and the `vector_size` it was built with |
| `table` | `FirstPath.table_4`: bucket index -> items |

The one action is `update_acl(acls)`. It models `generate_first_table` (lines 451-460) for one address family: `vector_size`, then `Vector::init`, then `generate_table4`, all in one call.

Widths are constants. `WordBits` stands for `u16::BITS`, and `HalfWord = 2^(WordBits-1)`. `i16::MAX`, `u16::MAX` and `TABLE_SIZE` are derived from them as in the code.

How each piece is modelled:
- `generate_sort_table4` scores each bit with `sort_table_index` over the counts of atoms that require it to be 0 or 1.
- `Vector::init` keeps the first `WordBits` bits in (score, bit) order among the slots below `u16::MAX`. `min_bit` is the smallest of them, and `max_bit` is the `vector_size`-th smallest.
- `get_table_index` and `get_all_table_index` are outside this snapshot (the `MatchedField` type). They are modelled from the spec:
  - the index packs the masked bits between `min_bit` and `max_bit`;
  - the fan-out sets any vector bit the atom does not care about both ways.
- The lookup tests `field & mask == atom.field`, as line 500 does.

`is_invalid_acl` and `generate_acl_bits` are left to PolicyCore. Here every configured ACL arrives already expanded into atoms.

### ConfigHandler: state and actions

| Variable | Code |
|---|---|
| `candidate` | `ConfigHandler.candidate_config`, reduced to the fields a modelled decision reads |
| `current` | `ConfigHandler.current_config` |
| `pending` | the callbacks `on_config` returned that the caller has not yet run, as names |
| `components` | what the callbacks and the inline metrics-server code write: `running` (the dispatchers), `bucket` (rx leaky bucket: `<<>>` for `set_rate(None)`, `<<pps>>` otherwise), `stats_host`, `debugger`, `npb_rate`, `cgroup_mem`, `metric_on`, `metric_port` |
| `panicked` | `on_config` reached `todo!()` |

Actions:
- `on_config(rt)` models lines 1066-1884 with components present. Its pieces, in code order:
  - `AdoptModeAndYaml`: `tap_mode` and `yaml_config` are written first (1079-1120). Every later test reads the updated candidate.
  - `DispatcherPanics`: a `capture_packet_size` change in Analyzer mode reaches `todo!()` (1170-1176). The candidate keeps the adopted mode and yaml, and nothing is deployed.
  - `RestartDispatcher`: every test that sets `restart_dispatcher`. This includes `SizesDiffer`, the max_memory test, which compares sizes computed from the already-updated candidate.
  - `EnvironmentAfter`: the limit branch versus the clearing branch (1374-1482).
  - `CandidateAfter`: the section assignments. An empty log host keeps the old host. The top-level `enabled` is never assigned.
  - `Callbacks`: the pushes in code order.
  - `QueueRestart`: the guard at 1848.
  - `MetricServerAfter`: the inline metrics-server start, stop and `set_port`.
- `start_dispatcher`, `stop_dispatcher`, `leaky_bucket_callback`, `stats_callback`, `debug_callback`, `cgroup_callback`, `npb_callback` (the NPB `dispatcher_callback`) and `restart_callback` (the restart `dispatcher_callback`): one action each. Each removes its name from the head of `pending` and writes the components from the current candidate.
- `free_memory_check` is a choice over `MemChecks`.
- `Init` is `ConfigHandler::new`. Candidate and current come from one conversion, and the components are as built from it (`Applied`).

Constants:
- `K8sCluster` is a non-empty `kubernetes_cluster_id`.
- `SysCpus` is the cpu count sysinfo reports.
- `BlockSizeMB` is `recv_engine::DEFAULT_BLOCK_SIZE`.
- Memory is counted in MB.
- The `u16` vtap id of every section is `vtap_id % 2^16`.

Left out:
- callbacks that no property can tell apart from the ones kept: quadruple generator, platform, l7 log, ebpf and metric compression;
- the log/rsyslog and diagnose sections;
- `switch_recv_engine`, which is Windows only;
- `on_config` with components `None`, the first push at startup. Then nothing is queued and the restart is never pushed.

`DispatcherControl` is what the handler promises about the dispatchers, with two variables, `enabled` and `running`:
- `Configure` changes `enabled`.
- `Start` sets `running`, only while `enabled`, and leaves `enabled` alone.
- `Halt` stops the dispatchers.

`ConfigHandler` maps onto it by `enabled <- candidate.dispatcher.enabled` and `running <- components.running`.

## 3. Runs

The PolicyCore runs use `MC_PolicyCore`. The instance:
- two dispatchers, except in `core_reload`, whose properties are about one shard and which uses one (`MCOneDispatcher`) to keep the split lookup's state space small;
- the flow of spec scenario 1 (ip1:80 -> ip2:100, EPC 2 -> 20) with its source end local or not, and the reverses of those keys (4 keys);
- groups 10 and 20, with a configuration that drops group 20;
- three ACLs: the exact rule of scenario 1, a catch-all rule sharing its tunnel, and a rule naming the never-defined group 30;
- `MapSize = 3`.

Each `first_get` stores two entries, so a third key forces an eviction. The catch-all rule matches in both directions, which is what makes formatting matter, and which makes a key's reverse entry non-trivial. Group 30 and the dropped group 20 exercise validation.

| Run | cfg | Expect | Shows |
|---|---|---|---|
| `core_reload` | `MC_PolicyCore.cfg` | pass (11 540 states) | `TypeOK`. `NoPanic` when the caller always validates. `ReverseStoresAgree` (action property): the reverse entry a store writes is what first-path computes for the reverse key from the table the lookup read, even when a reload ran between the read and the store. |
| `store_after_flush_race` | `MC_PolicyCore_race.cfg` | violation | `FastEntriesCurrent` fails. A lookup computes the empty policy from the empty table, the control thread runs `update_acl` and `flush`, and the lookup then stores the old policy, which `fast_get` serves after the reload has completed. |
| `fast_vs_first_result` | `MC_PolicyCore_format.cfg` | violation | `FastAgreesWithFirst` fails. A hit returns the unformatted per-direction list, and `first_get` returns the formatted one. The test `test_dedup` (lines 705-711) expects this: 1 action vs 2. |

The FirstPathTable runs use `MC_FirstPathTable`. The instance:
- a 5-bit field and `WordBits = 3`, so `i16::MAX = 3`, `u16::MAX = 7`, 8 buckets and vector sizes 2..3;
- level 1, the smallest level the code allows (`LEVEL_MIN`);
- seven ACLs with 16 atoms in all, each run installing any subset of them.

With 16 atoms, a bit no atom cares about scores 16 > `i16::MAX`, so the fold is exercised. `16 >> 1 >= 1 << 3`, so the spec's rule picks size 3 and not the minimum 2. Keys range over all 32 values of the field.

| Run | cfg | Expect | Shows |
|---|---|---|---|
| `table_lookup` | `MC_FirstPathTable.cfg` | pass (129 states) | `SortIndexInRange`: every bit's folded score is below `u16::MAX`. `BucketLookupExact`: for every key, the bucket the lookup reads (bits `min_bit..max_bit` only) yields exactly the installed atoms the key matches, although insertion fans out over all `u16::BITS` vector bits. |
| `vector_size_empty_range` | `MC_FirstPathTable_size.cfg` | violation | `VectorSizeAsSpecified` fails. `vector_size` loops over the empty range `16..4` and returns the minimum. |

`StrictCheckRejectsUnknownGroups` says that an ACL the strict check keeps names only groups that the map holds under their own id. It is checked only where it can fail:

| Run | cfg | Expect | Shows |
|---|---|---|---|
| `group_id_u16_truncation` | `MC_PolicyCore_u16.cfg` | violation | Group ids include 65556, and one ACL names it. `is_invalid_acl` looks it up as `65556 as u16 = 20` and keeps the ACL. `generate_acl_bits` then builds its atoms from group 20's segments. |

The ConfigHandler runs use `MC_ConfigHandler`. The five pushes are built from one base configuration:
- the base: Local mode, 768 MB, dispatcher enabled;
- the same with the dispatcher disabled and another pps limit. This is also the initial configuration;
- Analyzer mode with 512 MB, an empty log host, the debugger and the metrics server on, another NPB limit and port;
- Local mode with 512 MB, another NPB socket type and another host;
- Analyzer mode with the dispatcher disabled.

Settings:
- `BlockSizeMB = 1`, so 512 and 768 MB give different `af_packet_blocks`, and a memory change can restart the dispatchers.
- Local vs base changes memory without cpus, so `cgroup_callback` is pushed for a memory-only change.
- Disabled vs base differs only in `enabled`, so a push can enable the dispatcher without a restart.
- `MemChecks = {TRUE}` in the runs. The proofs hold for any set of outcomes.
- `CgroupApplies = {TRUE, FALSE}`: each `cgroup_callback` may find `Cgroups::new`, `init` or `apply` failing, which the code only logs.

| Run | cfg | Expect | Shows |
|---|---|---|---|
| `config_callbacks` | `MC_ConfigHandler.cfg` | pass (138 states) | `DispatchersRunOnlyWhenEnabled`: once the callbacks have run, no dispatcher runs while the candidate disables it. `CallbacksApplied`: debugger, NPB limit, stats host and metrics server follow the deployed candidate. `EnabledEventuallyRuns` (liveness). `DispatcherControlSpec`: the refinement of the dispatcher switch. `SettingsSpec`: the refinement of `ComponentSettings`. |
| `leaky_bucket_mode_switch` | `MC_ConfigHandler_bucket.cfg` | violation | Local with pps 1 is followed by Analyzer with pps 1. No `leaky_bucket_callback` is pushed, so the bucket keeps limit 1, although Analyzer mode means no limit. |
| `cgroup_limit_kept` | `MC_ConfigHandler_cgroup.cfg` | violation | Entering Analyzer mode clears `max_memory`, but the 768 MB cgroup limit stays. |
| `cgroup_apply_not_retried` | `MC_ConfigHandler_cgroupfail.cfg` | violation | `CgroupFollowsLimit` fails. A push lowers `max_memory` to 512, its `cgroup_callback` fails and only warns, and the 768 MB limit stays; nothing queues the callback again. |
| `k8s_start_never_runs` | `MC_ConfigHandler_k8s.cfg` | violation | With `K8sCluster = TRUE`, enabling the dispatcher in Local mode queues a `start_dispatcher` that starts nothing, and no restart follows. |
| `capture_size_todo_panic` | `MC_ConfigHandler_panic.cfg` | violation | A push in Analyzer mode that changes `capture_packet_size` panics. |

Mutants for the newer properties:
- an unguarded restart queue breaks `DispatchersRunOnlyWhenEnabled`;
- dropping the NPB callback breaks `CallbacksApplied`;
- an inverted K8s test in `start_dispatcher` breaks `EnabledEventuallyRuns`;
- starting the dispatchers inline in `on_config` breaks `DispatcherControlSpec`;
- an unswapped reverse policy breaks `ReverseStoresAgree`;
- ignoring a change of the metrics port breaks `SettingsSpec`.

**Fairness.** `FairSpec` adds weak fairness on `Callback`, the running of queued callbacks. `on_config` returns the callbacks as a `Vec<fn(&ConfigHandler, &mut Components)>`, whose only use is to be run on the components. The caller is not part of this snapshot, so the fairness assumes that it runs every callback it is given, in order. Pushes get no fairness, because the controller may stop sending them. `EnabledEventuallyRuns` needs exactly this: a queued `start_dispatcher` or restart eventually runs.

Each passing property has a mutant that breaks it:
- the unfolded score (`sort_table_index_unfolded`) breaks `SortIndexInRange`;
- merging every bucket entry without the field test breaks `BucketLookupExact`;
- storing the formatted policy breaks `TypeOK`;
- checking only source groups breaks `NoPanic`.

The PolicyCore and FirstPathTable runs assume no fairness. Lookups and reloads are driven by packets and by configuration pushes, and the code guarantees neither will happen.

## 4. Proofs

The PolicyCore theorems hold for every value of the constants, under `ConstAssumption`:
`Acls`, `GroupConfigs` and `Keys` are well-formed records, `MapSize > 0`, and `Any` is not a segment.

- `TypeCorrect == Spec => []TypeOK`. Lemmas used:
  - `LowestAclIdType`: the min over a set of naturals exists. It comes from `WFMin` and `NatLessThanWellFounded`.
  - `AclBitsType` and `GroupSegmentsType`: the atoms are typed.
  - `RawPolicyType` and `ReversePolicyType`.
- `ReverseStoresAgreeHolds == Spec => ReverseStoresAgree`, an action property. A store uses the policy its lookup computed earlier, so the step alone does not show it. The invariant `InFlightComputed` (lemma `InFlightComputedInvariant`, with `TypeOK`) says that a lookup in flight holds `RawPolicy(tbl, key)` for the table `tbl` it read. A reload changes `table` but not `inflight`, so the invariant survives it. The store step then rests on:
  - `RawPolicyReverse`: first-path's result for `Reverse(k)` is `ReversePolicy` of its result for `k`, because the forward matches of one key are the backward matches of the other;
  - `PutEntriesReverse`: the entry `PutEntries` writes under `Reverse(k)` is that result, including when `k` is its own reverse.

`FastEntriesCurrent` has no theorem: the run `store_after_flush_race` shows it fails once the lookup is split.

`CheckedReloadNeverPanics` takes a hypothesis on a constant:
- `CheckedReloadNeverPanics == ASSUME CheckFlags = {TRUE} PROVE Spec => []NoPanic`.
  - With `check = true`, `update_acl` rejects any ACL that `is_invalid_acl` flags. Lemma `CheckedAclHasNoUnknownGroup` says such an ACL names no group missing from the map, so `generate_acl_bits` never reaches the unwrap.
  - The only caller in the repository (the test at line 637) passes `check = true`. With `check = false`, `is_invalid_acl` accepts every ACL and an ACL naming an undefined group reaches the unwrap; the mutant that checks only source groups shows the same panic in `core_reload`.
  - `NoPanic` is inductive by itself, so each step gets one case.

`FirstPathTableProofs` proves `SortIndexAlwaysInRange == Spec => []SortIndexInRange`, under `TableAssumption`. That assumption says:
- `HalfWord = 2^(WordBits-1)` is a positive natural;
- the configured ACLs, and each ACL's atom list, are finite.

The argument:
- `calc_index` is at most `base` when the two counts sum to at most `base` (`CalcIndexBound`).
- With `q = base \div HalfWord`, `base < HalfWord * (q + 1)`. So a folded index is below `HalfWord`, and the result is below `2 * HalfWord - 1 = u16::MAX` (`DivBelow`, `SortTableIndexBound`).
- The two counts are disjoint subsets of the installed atoms (`MatchedBound`). This needs the atoms to be finite, which is the inductive invariant `IInv == IsFiniteSet(installed)` (`AclItemsFinite`, via `FS_Surjection` and `FS_UNION`).

`ConfigHandlerProofs` proves two theorems under `ConfigAssumption`. The assumption says:
- `MemChecks` and `CgroupApplies` are non-empty sets of Booleans;
- `K8sCluster` is a Boolean;
- every pushed configuration has a Boolean `enabled`.

So the theorems cover both cluster settings and any outcome of `free_memory_check`.

**`DispatchersOnlyWhenEnabled == Spec => []DispatchersRunOnlyWhenEnabled`.** The property alone is not inductive, because callbacks may still be queued. The inductive invariant `IInv` says:
- `pending` is a sequence of callback names;
- `components.running` and the candidate's `dispatcher.enabled` are Booleans;
- if a starter (`start_dispatcher` or the restart) is queued, the candidate enables the dispatcher;
- if a dispatcher runs while the candidate disables it, `stop_dispatcher` is queued.

The proof goes as follows:
- `InitIInv`: `IInv` holds initially.
- `NextIInv`: each step preserves `IInv`, with one case per action.
- `on_config` is the one step that changes `enabled`. The proof shows that its queue is `Callbacks \o When(QueueRestart(...), "restart")`:
  - when it disables the dispatcher, that queue holds `stop_dispatcher`;
  - it holds a starter only when the new candidate enables it, because `start_dispatcher` is pushed only on enabling and the restart only when `candidate.dispatcher.enabled`.
- Lemmas about the `Range` of concatenations (`ConcatRange`, `CallbacksRange`, `QueuedRange`) carry this through the six-way `\o` chain.
- `DequeueStep` says that running a callback removes its name and leaves the candidate alone.
- Once `pending = <<>>`, the last conjunct of `IInv` gives the property.

**`ImplementsDispatcherControl == Spec => DC!Spec`.** Each step maps to a `DispatcherControl` step or a stutter:
- `on_config` leaves `running` as it is, so it is `Configure`;
- `start_dispatcher` and the restart either keep `running` or set it. Setting it is `Start`, and `IInv` gives `enabled` from the queued starter. A restart whose memory check fails is `Halt`;
- `stop_dispatcher` is `Halt`;
- the other callbacks leave both variables alone.

`ConfigHandlerAppliedProofs` proves two more theorems under `ConfigAssumption`.

**`CallbacksAppliedHolds == Spec => []CallbacksApplied`** holds with no further hypothesis. The inductive invariant is `IInv /\ AppliedIInv`. `AppliedIInv` says:
- every component field is in the record's domain. This is needed because `EXCEPT` keeps a field only when it is in the domain;
- unless a push panicked, `current = candidate` and the metrics server follows the candidate. `on_config` writes it inline;
- each of the debugger, NPB limit and stats host follows the candidate, or its callback name is in `Range(pending)`.

The proof steps:
- `OnConfigApplied`: `on_config` starts from an empty queue, so every field follows the old candidate. `CallbacksPushed` shows that each section whose field changes queues its callback.
- `CallbackKeeps`: a callback that writes one field, with the value the candidate prescribes, keeps the invariant.
- `NextApplied` takes one case per action. `start_dispatcher` takes one case per branch of its nested `IF`. `cgroup_callback` takes one case per outcome: a failed call leaves the components unchanged, which keeps `AppliedIInv` but not `CgroupIInv`.

**`CgroupLimitApplied == ASSUME InitSettled, CgroupApplies = {TRUE} PROVE Spec => []CgroupFollowsLimit`.** The inductive invariant adds `CgroupIInv`: a non-zero `max_memory` is the cgroup limit, or `cgroup` is queued.

`CgroupApplies = {TRUE}` says that no `Cgroups::new`, `init` or `apply` call fails. The run `cgroup_apply_not_retried` shows the property fails without it, because a failure is only logged (handler.rs 1388-1405, 1446-1451). So the theorem says that a failed cgroup call is the only way, besides an unsettled start, for the limit to be missing.

`InitSettled` says that in Analyzer mode or a K8s pod the initial `max_memory` is 0. The hypothesis is needed:
- without it, TLC finds a violation. Start in Analyzer mode with `max_memory` 512, then push a Local configuration with 512. The limit did not change, so no `cgroup_callback` is queued, and the cgroup was never written;
- the code never starts from that state. `ConfigHandler::new` is followed by a first `on_config` with components `None`, and that call clears `max_memory` in Analyzer mode or a K8s pod (handler.rs 1471-1482) before any component exists;
- the model's `Init` stands for the state after that first push, which is not modelled as a step. The MC instances satisfy `InitSettled`.

**The settings contract.** `ComponentSettings` states what the handler promises about the settings its callbacks re-apply. Its state:
- `want`: the candidate's values;
- `have`: the components' values;
- `dirty`: the settings still owed.

`Push` may happen only when nothing is owed. It applies the `Inline` settings itself and owes every other setting it changes. `Apply(f)` copies one owed setting. Its own theorems are `CleanInvariant` (an unowed setting has its configured value) and `SettledHolds`.

`ConfigHandler.CS` maps the contract onto the code:
- the debugger, NPB limit, stats host, metrics on/off and port are the settings;
- the metrics server is `Inline`, because `on_config` writes it (1782-1800);
- a setting is owed while its callback (`debug`, `npb`, `stats`) is queued.

The cgroup limit is left out, because `cgroup_callback` may keep a limit the candidate no longer sets (`cgroup_limit_kept`).

`ConfigHandlerSettingsProofs` proves `ImplementsComponentSettings == Spec => SettingsSpec`. The inductive invariant is `IInv /\ AppliedIInv /\ OnceIInv`. The new part, `OnceIInv`, says that `pending` is injective: `on_config` never queues a callback twice. Without it a callback that runs could still be queued, and `Apply` would not pay off its debt. Its proof:
- `WhenInjective`, `ConcatInjective` and `ChainStep` carry injectivity through the seven-way `\o` chain of `Callbacks`, whose pieces push distinct names (`QueueInjective`);
- `TailInjective` keeps it when a callback is dequeued.

The step lemmas:
- `PushStep`: a push is `Push`, or a stutter when it panics;
- `ApplyStep`: the debug, NPB and stats callbacks are `Apply`;
- `OtherStep`: the other callbacks leave the contract's state alone.

`HandlerSettingsSettled` carries `SettledHolds` over to the handler.

`EnabledEventuallyRuns` is liveness, so it stays with TLC.

`BucketLookupExact` is only model-checked, for two reasons:
- `get_table_index` is a recursive function over the bit range, and what it computes for every input would need induction over data, which the provers cannot instantiate;
- its index is a sum of `f[b] * 2^k` with a variable exponent, which SMT treats as an uninterpreted function. It cannot show `2^(k+1) = 2 * 2^k`.

Out of TLAPS's reach, and left to TLC:
- liveness (`EnabledEventuallyRuns`), which needs fairness and ENABLED;
- `BucketLookupExact`, as above.

## 5. Not modelled, and the plan

1. **FirstPathTable, further.**
   - a refinement: the bucketed lookup implements `get_policy_from_table` of PolicyCore;
   - Vector6 / `table_6`.
   - a step-level reload: `generate_first_table` rewrites `vector_4`/`vector_6` in place (455-456) before `generate_table4/6` replace the tables (419, 443). A lookup on another thread in between would index the old table with the new vector, against spec section 5 ("never a partial table"). Modelling it needs the bucketed table of FirstPathTable inside the concurrent model of PolicyCore.
2. **ConfigHandler, further.**
   - the platform, quadruple-generator, l7 and ebpf callbacks;
   - the stale-size hazard: `SizesDiffer` compares sizes computed with the already-replaced tap mode and yaml. Its effect shows only in dispatcher construction, which is not in this snapshot;
   - `get_channel_size` outside Analyzer mode is always `1 << 14`, because `min(max(x, 32000), 1 << 14)` is constant. No property states the intended size, since the spec gives none;
   - `candidate_config.enabled` is never assigned by `on_config`, while `platform_callback` reads it;
   - the first push with components `None`.
3. **More proofs.**
   - the refinement of FirstPathTable's lookup. It needs the bit-packing facts above, so it stays with TLC.

`ModuleConfig::try_from` (marshalling of the runtime configuration) and logging stay out: they are data conversion without control that a property could tell apart.
