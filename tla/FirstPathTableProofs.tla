------------------------ MODULE FirstPathTableProofs ------------------------
(***************************************************************************)
(* Proofs about the bit-level table of FirstPath.  The main result is that *)
(* sort_table_index never scores a bit at or beyond u16::MAX, whatever the *)
(* number of atoms and whatever the word width, so Vector::init, which     *)
(* walks slots 0 .. u16::MAX - 1, sees every bit of the field.             *)
(***************************************************************************)
EXTENDS FirstPathTable, FiniteSetTheorems, TLAPS

----------------------------------------------------------------------------
(* calc_index never exceeds base when both counts together do not. *)
LEMMA CalcIndexBound ==
    ASSUME NEW m0 \in Nat, NEW m1 \in Nat, NEW base \in Nat, m0 + m1 <= base
    PROVE  calc_index(m0, m1, base) \in 0 .. base
BY DEF calc_index, abs_diff

(* A number below H * (q + 1), divided by q + 1, is below H. *)
LEMMA DivBelow ==
    ASSUME NEW x \in Nat, NEW q \in Nat, NEW h \in Nat \ {0}, x < h * (q + 1)
    PROVE  x \div (q + 1) < h
<1>1. x \div (q + 1) \in Nat /\ (q + 1) * (x \div (q + 1)) <= x
    BY SMT
<1>2. SUFFICES ASSUME x \div (q + 1) >= h PROVE FALSE
    BY <1>1
<1>3. (q + 1) * h <= (q + 1) * (x \div (q + 1))
    BY <1>1, <1>2, SMT
<1>. QED
    BY <1>1, <1>3, SMT

(* Every base lies below HalfWord * (base \div HalfWord + 1). *)
LEMMA BaseBelow ==
    ASSUME NEW base \in Nat
    PROVE  /\ base \div HalfWord \in Nat
           /\ base < HalfWord * (base \div HalfWord + 1)
<1>1. HalfWord \in Nat \ {0}
    BY TableAssumption
<1>. QED
    BY <1>1, SMT

(* The fold keeps every score inside the sort table. *)
LEMMA SortTableIndexBound ==
    ASSUME NEW m0 \in Nat, NEW m1 \in Nat, NEW base \in Nat, m0 + m1 <= base
    PROVE  sort_table_index(m0, m1, base) < U16Max
<1>1. HalfWord \in Nat \ {0}
    BY TableAssumption
<1>2. PICK idx \in 0 .. base : idx = calc_index(m0, m1, base)
    BY CalcIndexBound
<1>3. CASE idx > I16Max
    <2>1. PICK q \in Nat : q = base \div HalfWord /\ base < HalfWord * (q + 1)
        BY BaseBelow
    <2>2. idx < HalfWord * (q + 1)
        BY <1>1, <1>2, <2>1, SMT
    <2>3. idx \div (q + 1) < HalfWord
        BY <1>1, <1>2, <2>1, <2>2, DivBelow
    <2>4. sort_table_index(m0, m1, base) = idx \div (q + 1) + I16Max
        BY <1>2, <1>3, <2>1 DEF sort_table_index
    <2>. QED
        BY <1>1, <2>3, <2>4 DEF I16Max, U16Max
<1>4. CASE ~(idx > I16Max)
    <2>1. sort_table_index(m0, m1, base) = idx
        BY <1>2, <1>4 DEF sort_table_index
    <2>. QED
        BY <1>1, <1>2, <1>4, <2>1 DEF I16Max, U16Max
<1>. QED
    BY <1>3, <1>4

(* The atoms of a finite set that care about bit i, split by value, are   *)
(* two disjoint subsets: together they are at most all the atoms.         *)
LEMMA MatchedBound ==
    ASSUME NEW atoms, IsFiniteSet(atoms), NEW i
    PROVE  /\ Matched(atoms, i, 0) \in Nat
           /\ Matched(atoms, i, 1) \in Nat
           /\ Matched(atoms, i, 0) + Matched(atoms, i, 1) <= Cardinality(atoms)
<1>. DEFINE A == {a \in atoms : a.field.mask[i] = 1 /\ a.field.field[i] = 0}
            B == {a \in atoms : a.field.mask[i] = 1 /\ a.field.field[i] = 1}
<1>1. IsFiniteSet(A) /\ Cardinality(A) \in Nat
    BY FS_Subset, FS_CardinalityType
<1>2. IsFiniteSet(B) /\ Cardinality(B) \in Nat
    BY FS_Subset, FS_CardinalityType
<1>3. A \cap B = {}
    OBVIOUS
<1>4. Cardinality(A \cup B) = Cardinality(A) + Cardinality(B) - Cardinality(A \cap B)
    BY <1>1, <1>2, FS_Union
<1>5. Cardinality(A \cap B) = 0
    BY <1>3, FS_EmptySet
<1>6. Cardinality(A \cup B) <= Cardinality(atoms)
    BY FS_Subset
<1>. QED
    BY <1>1, <1>2, <1>4, <1>5, <1>6 DEF Matched

----------------------------------------------------------------------------
(* The image of a finite set under a function is finite. *)
LEMMA RangeFinite ==
    ASSUME NEW S, IsFiniteSet(S), NEW f, f = [x \in S |-> f[x]]
    PROVE  IsFiniteSet({f[x] : x \in S})
<1>1. f \in Surjection(S, {f[x] : x \in S})
    BY DEF Surjection
<1>. QED
    BY <1>1, FS_Surjection

(* The items of a set of configured ACLs are finitely many. *)
LEMMA AclItemsFinite ==
    ASSUME NEW acls \in SUBSET Acls
    PROVE  IsFiniteSet(AclItems(acls))
<1>. DEFINE ItemsOf(a) == {[acl |-> a.id, field |-> f] : f \in a.match_field}
            g == [a \in acls |-> ItemsOf(a)]
<1>1. IsFiniteSet(acls)
    BY TableAssumption, FS_Subset
<1>2. IsFiniteSet({g[a] : a \in acls})
    BY <1>1, RangeFinite
<1>3. {g[a] : a \in acls} = {ItemsOf(a) : a \in acls}
    OBVIOUS
<1>4. \A a \in acls : IsFiniteSet(ItemsOf(a))
    <2>. TAKE a \in acls
    <2>. DEFINE h == [f \in a.match_field |-> [acl |-> a.id, field |-> f]]
    <2>1. IsFiniteSet(a.match_field)
        BY TableAssumption
    <2>2. IsFiniteSet({h[f] : f \in a.match_field})
        BY <2>1, RangeFinite
    <2>3. {h[f] : f \in a.match_field} = ItemsOf(a)
        OBVIOUS
    <2>. QED
        BY <2>2, <2>3
<1>5. \A T \in {ItemsOf(a) : a \in acls} : IsFiniteSet(T)
    BY <1>4
<1>6. IsFiniteSet(UNION {ItemsOf(a) : a \in acls})
    BY <1>2, <1>3, <1>5, FS_UNION
<1>. QED
    BY <1>6 DEF AclItems

(* The installed atoms are finitely many. *)
IInv == IsFiniteSet(installed)

(* No bit's score reaches u16::MAX in any reachable state: every bit of   *)
(* the matched field is a candidate for the vector that Vector::init      *)
(* builds from the sort table (first_path.rs 82-92, 94-118, 163-185).     *)
THEOREM SortIndexAlwaysInRange == Spec => []SortIndexInRange
<1>1. Init => IInv
    BY FS_EmptySet DEF Init, IInv
<1>2. IInv /\ [Next]_vars => IInv'
    <2>. SUFFICES ASSUME IInv, [Next]_vars PROVE IInv'
        OBVIOUS
    <2>1. CASE Next
        <3>1. PICK acls \in SUBSET Acls : update_acl(acls)
            BY <2>1 DEF Next
        <3>. QED
            BY <3>1, AclItemsFinite DEF update_acl, IInv
    <2>2. CASE UNCHANGED vars
        BY <2>2 DEF vars, IInv
    <2>. QED
        BY <2>1, <2>2
<1>3. IInv => SortIndexInRange
    <2>. SUFFICES ASSUME IInv, NEW i \in Bits
                  PROVE  SortKey(installed, i) < U16Max
        BY DEF SortIndexInRange
    <2>1. Cardinality(installed) \in Nat
        BY FS_CardinalityType DEF IInv
    <2>. QED
        BY <2>1, MatchedBound, SortTableIndexBound DEF IInv, SortKey
<1>. QED
    BY <1>1, <1>2, <1>3, PTL DEF Spec
====
