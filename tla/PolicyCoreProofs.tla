-------------------------- MODULE PolicyCoreProofs --------------------------
(***************************************************************************)
(* Proofs about PolicyCore for every value of its constants: the type      *)
(* invariant, that a validated reload never panics, and that the reverse   *)
(* entry add_policy stores is what first-path computes for the reverse key *)
(* from the table the lookup read.                                         *)
(***************************************************************************)
EXTENDS PolicyCore, WellFoundedInduction, TLAPS

(* The acl id merge_npb_action keeps is a natural number. *)
LEMMA LowestAclIdType ==
    ASSUME NEW S \in SUBSET Nat
    PROVE  LowestAclId(S) \in Nat
<1>1. CASE S = {}
    BY <1>1 DEF LowestAclId
<1>2. CASE S # {}
    <2>1. \E x \in S : \A y \in S : ~(<<y, x>> \in OpToRel(<, Nat))
        BY <1>2, NatLessThanWellFounded, WFMin
    <2>2. PICK x \in S : \A y \in S : ~(<<y, x>> \in OpToRel(<, Nat))
        BY <2>1
    <2>3. \A y \in S : x <= y
        <3>1. TAKE y \in S
        <3>2. <<y, x>> \in Nat \X Nat
            OBVIOUS
        <3>3. ~(y < x)
            BY <2>2, <3>2 DEF OpToRel
        <3>4. QED
            BY <3>3
    <2>4. QED
        BY <1>2, <2>3 DEF LowestAclId
<1>3. QED
    BY <1>1, <1>2

(* Reversing a key yields a key, and reversing twice is the identity. *)
LEMMA ReverseKey ==
    ASSUME NEW k \in KeyRec
    PROVE  /\ Reverse(k) \in KeyRec
           /\ Reverse(Reverse(k)) = k
BY DEF KeyRec, Reverse

(* The segments of a list of groups are segments or ANY. *)
LEMMA GroupSegmentsType ==
    ASSUME NEW map \in [GroupKeys -> SUBSET Segments],
           NEW gs \in SUBSET GroupIds
    PROVE  GroupSegments(map, gs) \subseteq Segments \cup {Any}
BY DEF GroupSegments, GroupKeys

(* generate_acl_bits builds atoms. *)
LEMMA AclBitsType ==
    ASSUME NEW map \in [GroupKeys -> SUBSET Segments],
           NEW acls \in SUBSET AclRec
    PROVE  generate_acl_bits(map, acls) \subseteq Atom
<1> SUFFICES ASSUME NEW a \in acls,
                    NEW s \in GroupSegments(map, a.src_groups),
                    NEW d \in GroupSegments(map, a.dst_groups)
             PROVE  [acl |-> a.id, action |-> a.action, src |-> s, dst |-> d,
                     src_ports |-> a.src_ports, dst_ports |-> a.dst_ports] \in Atom
    BY DEF generate_acl_bits
<1>1. s \in Segments \cup {Any} /\ d \in Segments \cup {Any}
    BY GroupSegmentsType DEF AclRec
<1>2. QED
    BY <1>1 DEF AclRec, Atom

(* The policy first-path computes is a PolicyData. *)
LEMMA RawPolicyType ==
    ASSUME NEW tbl \in SUBSET Atom, NEW k \in KeyRec
    PROVE  RawPolicy(tbl, k) \in PolicyData
<1>1. {a.acl : a \in {a \in tbl : Matches(a, k)}
                 \cup {a \in tbl : Matches(a, Reverse(k))}} \in SUBSET Nat
    BY DEF Atom
<1>2. LowestAclId({a.acl : a \in {a \in tbl : Matches(a, k)}
                 \cup {a \in tbl : Matches(a, Reverse(k))}}) \in Nat
    BY <1>1, LowestAclIdType
<1>3. QED
    BY <1>2 DEF RawPolicy, get_policy_from_table, EmptyPolicy, PolicyData,
                Atom, Dirs

(* The policy stored under the reverse fingerprint is a PolicyData. *)
LEMMA ReversePolicyType ==
    ASSUME NEW p \in PolicyData
    PROVE  ReversePolicy(p) \in PolicyData
BY DEF ReversePolicy, PolicyData, SwapDir, Dirs

(* Swapping the direction of actions all tagged with one direction tags  *)
(* them with the other.                                                   *)
LEMMA SwapTagged ==
    ASSUME NEW S \in SUBSET Atom, NEW dir \in Dirs
    PROVE  {<<x[1], SwapDir(x[2])>> : x \in {<<a.action, dir>> : a \in S}}
             = {<<a.action, SwapDir(dir)>> : a \in S}
<1> DEFINE X == {<<a.action, dir>> : a \in S}
<1>1. ASSUME NEW z \in {<<x[1], SwapDir(x[2])>> : x \in X}
      PROVE  z \in {<<a.action, SwapDir(dir)>> : a \in S}
    <2>1. PICK x \in X : z = <<x[1], SwapDir(x[2])>>
        BY <1>1
    <2>2. PICK a \in S : x = <<a.action, dir>>
        OBVIOUS
    <2>3. QED
        BY <2>1, <2>2
<1>2. ASSUME NEW z \in {<<a.action, SwapDir(dir)>> : a \in S}
      PROVE  z \in {<<x[1], SwapDir(x[2])>> : x \in X}
    <2>1. PICK a \in S : z = <<a.action, SwapDir(dir)>>
        BY <1>2
    <2>2. <<a.action, dir>> \in X
        OBVIOUS
    <2>3. z = <<<<a.action, dir>>[1], SwapDir(<<a.action, dir>>[2])>>
        BY <2>1
    <2>4. QED
        BY <2>2, <2>3
<1>3. QED
    BY <1>1, <1>2

(* What first-path computes for the reverse key is what it computes for   *)
(* the key with every direction swapped: the forward matches of one are   *)
(* the backward matches of the other.                                     *)
LEMMA RawPolicyReverse ==
    ASSUME NEW tbl \in SUBSET Atom, NEW k \in KeyRec
    PROVE  RawPolicy(tbl, Reverse(k)) = ReversePolicy(RawPolicy(tbl, k))
<1> DEFINE fwd == {a \in tbl : Matches(a, k)}
           bwd == {a \in tbl : Matches(a, Reverse(k))}
<1>1. Reverse(Reverse(k)) = k
    BY ReverseKey
<1>2. CASE POLICY
    <2>1. RawPolicy(tbl, Reverse(k))
            = [acl_id |-> LowestAclId({a.acl : a \in bwd \cup fwd}),
               npb_actions |-> {<<a.action, "Fwd">> : a \in bwd}
                                 \cup {<<a.action, "Bwd">> : a \in fwd}]
        BY <1>1, <1>2 DEF RawPolicy, get_policy_from_table
    <2>2. RawPolicy(tbl, k)
            = [acl_id |-> LowestAclId({a.acl : a \in fwd \cup bwd}),
               npb_actions |-> {<<a.action, "Fwd">> : a \in fwd}
                                 \cup {<<a.action, "Bwd">> : a \in bwd}]
        BY <1>2 DEF RawPolicy, get_policy_from_table
    <2>3. bwd \cup fwd = fwd \cup bwd
        OBVIOUS
    <2> DEFINE F == {<<a.action, "Fwd">> : a \in fwd}
               B == {<<a.action, "Bwd">> : a \in bwd}
               Swap(X) == {<<x[1], SwapDir(x[2])>> : x \in X}
    <2>4. Swap(F \cup B) = Swap(F) \cup Swap(B)
        OBVIOUS
    <2>5. Swap(F) = {<<a.action, SwapDir("Fwd")>> : a \in fwd}
        BY SwapTagged DEF Dirs
    <2>6. Swap(B) = {<<a.action, SwapDir("Bwd")>> : a \in bwd}
        BY SwapTagged DEF Dirs
    <2>7. ReversePolicy(RawPolicy(tbl, k))
            = [acl_id |-> LowestAclId({a.acl : a \in fwd \cup bwd}),
               npb_actions |-> Swap(F \cup B)]
        BY <2>2 DEF ReversePolicy
    <2>8. Swap(F \cup B) = {<<a.action, "Fwd">> : a \in bwd}
                            \cup {<<a.action, "Bwd">> : a \in fwd}
        BY <2>4, <2>5, <2>6 DEF SwapDir
    <2>9. QED
        BY <2>1, <2>3, <2>7, <2>8
<1>3. CASE ~POLICY
    BY <1>3 DEF RawPolicy, EmptyPolicy, ReversePolicy
<1>4. QED
    BY <1>2, <1>3

----------------------------------------------------------------------------
(* Every step keeps the state well typed: the group map, the table built  *)
(* by generate_acl_bits, the lookup a dispatcher holds between its table  *)
(* read and its store, and every entry add_policy stores.                 *)
THEOREM TypeCorrect == Spec => []TypeOK
<1> USE ConstAssumption
<1>1. Init => TypeOK
    <2>1. [d \in Dispatchers |-> Idle] \in [Dispatchers -> {Idle} \cup InFlight]
        OBVIOUS
    <2>2. [d \in Dispatchers |-> [k \in Keys |-> NoEntry]]
            \in [Dispatchers -> [Keys -> PolicyData \cup {NoEntry}]]
        OBVIOUS
    <2>. QED
        BY <2>1, <2>2 DEF Init, TypeOK
<1>2. TypeOK /\ [Next]_vars => TypeOK'
    <2> SUFFICES ASSUME TypeOK, [Next]_vars PROVE TypeOK'
        OBVIOUS
    <2>1. ASSUME NEW gs \in GroupConfigs, update_ip_group(gs) PROVE TypeOK'
        <3>1. generate_group_ip_map(gs) \in [GroupKeys -> SUBSET Segments]
            BY DEF generate_group_ip_map, GroupRec, Segments
        <3>2. QED
            BY <2>1, <3>1 DEF update_ip_group, TypeOK
    <2>2. ASSUME NEW acls \in SUBSET Acls, NEW check \in CheckFlags,
                 update_acl(acls, check)
          PROVE TypeOK'
        <3>1. \A valid \in SUBSET Acls :
                  generate_acl_bits(group_ip_map, valid) \subseteq Atom
            BY AclBitsType DEF TypeOK
        <3>2. QED
            BY <2>2, <3>1 DEF update_acl, TypeOK
    <2>3. ASSUME flush PROVE TypeOK'
        BY <2>3 DEF flush, TypeOK
    <2>4. ASSUME NEW d \in Dispatchers, NEW k \in Keys, first_get_compute(d, k)
          PROVE TypeOK'
        <3>1. RawPolicy(table, k) \in PolicyData
            BY RawPolicyType DEF TypeOK
        <3>2. [key |-> k, policy |-> RawPolicy(table, k), tbl |-> table] \in InFlight
            BY <3>1 DEF TypeOK, InFlight
        <3>3. QED
            BY <2>4, <3>2 DEF first_get_compute, TypeOK
    <2>5. ASSUME NEW d \in Dispatchers, first_get_store(d) PROVE TypeOK'
        <3>1. inflight[d] \in InFlight
            BY <2>5 DEF first_get_store, TypeOK
        <3>2. inflight[d].key \in Keys /\ inflight[d].policy \in PolicyData
            BY <3>1 DEF InFlight
        <3>3. ReversePolicy(inflight[d].policy) \in PolicyData
            BY <3>2, ReversePolicyType
        <3>4. \A s \in AddPolicy(fast[d], inflight[d].key, inflight[d].policy) :
                  s \in [Keys -> PolicyData \cup {NoEntry}]
            BY <3>2, <3>3 DEF AddPolicy, PutEntries, TypeOK
        <3>5. QED
            BY <2>5, <3>4 DEF first_get_store, TypeOK
    <2>6. CASE UNCHANGED vars
        BY <2>6 DEF vars, TypeOK
    <2>7. QED
        BY <2>1, <2>2, <2>3, <2>4, <2>5, <2>6 DEF Next
<1>3. QED
    BY <1>1, <1>2, PTL DEF Spec

----------------------------------------------------------------------------
(* An ACL that the strict check keeps names only groups with segments:    *)
(* then generate_acl_bits finds every group it unwraps.                   *)
LEMMA CheckedAclHasNoUnknownGroup ==
    ASSUME NEW map, NEW acl, ~is_invalid_acl(map, acl, TRUE)
    PROVE  ~AclBitsPanics(map, acl)
BY DEF is_invalid_acl, AclBitsPanics

(* When the caller always validates (update_acl(acls, true)), no reload   *)
(* panics on generate_acl_bits' unwrap (first_path.rs 303-382, 463-483),  *)
(* whatever group ids the ACLs name: the u16 lookup of is_invalid_acl is  *)
(* the same lookup generate_acl_bits unwraps.                             *)
THEOREM CheckedReloadNeverPanics ==
    ASSUME CheckFlags = {TRUE}
    PROVE  Spec => []NoPanic
<1>1. Init => NoPanic
    BY DEF Init, NoPanic
<1>2. NoPanic /\ [Next]_vars => NoPanic'
    <2> SUFFICES ASSUME NoPanic, [Next]_vars PROVE NoPanic'
        OBVIOUS
    <2>1. ASSUME NEW gs \in GroupConfigs, update_ip_group(gs) PROVE NoPanic'
        BY <2>1 DEF update_ip_group, NoPanic
    <2>2. ASSUME NEW acls \in SUBSET Acls, NEW check \in CheckFlags,
                 update_acl(acls, check)
          PROVE  NoPanic'
        <3>1. check = TRUE
            OBVIOUS
        <3>2. \A a \in {x \in acls : ~is_invalid_acl(group_ip_map, x, check)} :
                  ~AclBitsPanics(group_ip_map, a)
            BY <3>1, CheckedAclHasNoUnknownGroup
        <3>. QED
            BY <2>2, <3>2 DEF update_acl, NoPanic
    <2>3. ASSUME flush PROVE NoPanic'
        BY <2>3 DEF flush, NoPanic
    <2>4. ASSUME NEW d \in Dispatchers, NEW k \in Keys, first_get_compute(d, k)
          PROVE  NoPanic'
        BY <2>4 DEF first_get_compute, NoPanic
    <2>5. ASSUME NEW d \in Dispatchers, first_get_store(d) PROVE NoPanic'
        BY <2>5 DEF first_get_store, NoPanic
    <2>6. CASE UNCHANGED vars
        BY <2>6 DEF vars, NoPanic
    <2>. QED
        BY <2>1, <2>2, <2>3, <2>4, <2>5, <2>6 DEF Next
<1>. QED
    BY <1>1, <1>2, PTL DEF Spec

----------------------------------------------------------------------------
(* A lookup in flight holds what first-path computed for its key from the *)
(* table it read: nothing changes the policy between 568 and 571.         *)
InFlightComputed ==
    \A d \in Dispatchers :
        inflight[d] # Idle =>
            inflight[d].policy = RawPolicy(inflight[d].tbl, inflight[d].key)

(* The lookups in flight keep what they computed. *)
LEMMA InFlightComputedInvariant == Spec => [](TypeOK /\ InFlightComputed)
<1>1. Init => InFlightComputed
    BY DEF Init, InFlightComputed
<1>2. TypeOK /\ InFlightComputed /\ [Next]_vars => InFlightComputed'
    <2> SUFFICES ASSUME TypeOK, InFlightComputed, [Next]_vars,
                        NEW d \in Dispatchers, inflight'[d] # Idle
                 PROVE  inflight'[d].policy
                          = RawPolicy(inflight'[d].tbl, inflight'[d].key)
        BY DEF InFlightComputed
    <2>1. CASE inflight' = inflight
        BY <2>1 DEF InFlightComputed
    <2>2. CASE \E e \in Dispatchers, k \in Keys : first_get_compute(e, k)
        <3>1. PICK e \in Dispatchers, k \in Keys : first_get_compute(e, k)
            BY <2>2
        <3>2. CASE e = d
            BY <3>1, <3>2 DEF first_get_compute, TypeOK
        <3>3. CASE e # d
            BY <3>1, <3>3 DEF first_get_compute, TypeOK, InFlightComputed
        <3>. QED
            BY <3>2, <3>3
    <2>3. CASE \E e \in Dispatchers : first_get_store(e)
        <3>1. PICK e \in Dispatchers : first_get_store(e)
            BY <2>3
        <3>2. e # d
            BY <3>1 DEF first_get_store, TypeOK
        <3>. QED
            BY <3>1, <3>2 DEF first_get_store, TypeOK, InFlightComputed
    <2>. QED
        BY <2>1, <2>2, <2>3 DEF Next, vars, update_ip_group, update_acl, flush
<1>. QED
    BY <1>1, <1>2, TypeCorrect, PTL DEF Spec

(* The entries a store writes under the key and its reverse are what      *)
(* first-path computes for them from one table: the reversal of the key's *)
(* policy is the reverse key's (RawPolicyReverse), and a key that is its  *)
(* own reverse keeps the policy itself.                                   *)
LEMMA PutEntriesReverse ==
    ASSUME NEW tbl \in SUBSET Atom, NEW k \in KeyRec, NEW ev, NEW shard,
           Reverse(k) \in Keys
    PROVE  PutEntries(shard, k, RawPolicy(tbl, k), ev)[Reverse(k)]
             = RawPolicy(tbl, Reverse(k))
<1>1. CASE Reverse(k) = k
    BY <1>1 DEF PutEntries
<1>2. CASE Reverse(k) # k
    BY <1>2, RawPolicyReverse DEF PutEntries
<1>. QED
    BY <1>1, <1>2

(* For every value of the constants, even when the control thread reloads *)
(* between a lookup's table read (568) and its store (571), the reverse   *)
(* entry add_policy writes is what first-path computes for the reverse    *)
(* key from the table the lookup read.                                    *)
THEOREM ReverseStoresAgreeHolds == Spec => ReverseStoresAgree
<1>. DEFINE Agree ==
         \A d \in Dispatchers :
             (inflight[d] # Idle /\ inflight'[d] = Idle
                /\ Reverse(inflight[d].key) \in Keys) =>
                 fast'[d][Reverse(inflight[d].key)]
                   = RawPolicy(inflight[d].tbl, Reverse(inflight[d].key))
<1>1. TypeOK /\ InFlightComputed /\ [Next]_vars => Agree
    <2>. SUFFICES ASSUME TypeOK, InFlightComputed, [Next]_vars,
                         NEW d \in Dispatchers, inflight[d] # Idle,
                         inflight'[d] = Idle, Reverse(inflight[d].key) \in Keys
                  PROVE  fast'[d][Reverse(inflight[d].key)]
                           = RawPolicy(inflight[d].tbl, Reverse(inflight[d].key))
        OBVIOUS
    <2>1. inflight' # inflight
        OBVIOUS
    <2>2. CASE \E e \in Dispatchers, k \in Keys : first_get_compute(e, k)
        <3>1. PICK e \in Dispatchers, k \in Keys : first_get_compute(e, k)
            BY <2>2
        <3>2. e # d
            BY <3>1 DEF first_get_compute
        <3>. QED
            BY <3>1, <3>2 DEF first_get_compute, TypeOK
    <2>3. CASE \E e \in Dispatchers : first_get_store(e)
        <3>1. PICK e \in Dispatchers : first_get_store(e)
            BY <2>3
        <3>2. e = d
            BY <3>1 DEF first_get_store, TypeOK
        <3>. DEFINE k == inflight[d].key
                    t == inflight[d].tbl
        <3>3. k \in KeyRec /\ t \in SUBSET Atom
            BY ConstAssumption DEF TypeOK, InFlight
        <3>4. inflight[d].policy = RawPolicy(t, k)
            BY DEF InFlightComputed
        <3>5. PICK ev : fast'[d] = PutEntries(fast[d], k, RawPolicy(t, k), ev)
            BY <3>1, <3>2, <3>4 DEF first_get_store, AddPolicy, TypeOK
        <3>. QED
            BY <3>3, <3>5, PutEntriesReverse
    <2>. QED
        BY <2>1, <2>2, <2>3 DEF Next, vars, update_ip_group, update_acl, flush
<1>. QED
    BY <1>1, InFlightComputedInvariant, PTL DEF Spec, ReverseStoresAgree
====
