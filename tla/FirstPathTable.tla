--------------------------- MODULE FirstPathTable ---------------------------
(***************************************************************************)
(* The bucketed ACL table of FirstPath at the bit level (first_path.rs     *)
(* 33-185 and 384-531): Vector chooses the discriminating bits of the      *)
(* matched field, generate_table4 places every atom in the buckets its     *)
(* don't-care bits fan out to, and get_policy_from_table4 scans the one    *)
(* bucket a key's index selects.  update_acl rebuilds vector and table in  *)
(* one call (it takes &mut self).                                          *)
(*                                                                         *)
(* Widths are parameters: WordBits is u16::BITS (16 in the code), and      *)
(* i16::MAX, u16::MAX and TABLE_SIZE = 1 << VECTOR_MASK_SIZE_MAX are the   *)
(* values they take for that width.  One address family is modelled:       *)
(* Vector6 / table_6 repeat the same code.                                 *)
(***************************************************************************)
EXTENDS Naturals, FiniteSets

CONSTANTS
    BitSize,        \* mask.bit_size() of the matched field
    WordBits,       \* u16::BITS
    VectorSizeMin,  \* VECTOR_MASK_SIZE_MIN
    Level,          \* FirstPath.level
    Acls            \* ACLs the configuration may deliver, with their atoms

Bits == 0 .. BitSize - 1
BitVal == {0, 1}
MatchedField == [Bits -> BitVal]
Fieldv4 == [field : MatchedField, mask : MatchedField]
AclRec == [id : Nat \ {0}, match_field : SUBSET Fieldv4]

HalfWord == 2 ^ (WordBits - 1)         \* 1 << 15
I16Max == HalfWord - 1                 \* i16::MAX
U16Max == 2 * HalfWord - 1             \* u16::MAX: slots of the sort table
VectorSizeMax == WordBits               \* VECTOR_MASK_SIZE_MAX
TableSize == 2 ^ VectorSizeMax          \* FirstPath::TABLE_SIZE

ASSUME TableAssumption ==
    /\ WordBits \in Nat \ {0, 1}
    /\ HalfWord \in Nat \ {0}
    /\ BitSize \in Nat /\ BitSize >= WordBits
    /\ VectorSizeMin \in 1 .. WordBits
    /\ Level \in Nat
    /\ Acls \subseteq AclRec
    /\ IsFiniteSet(Acls)
    /\ \A a \in Acls : IsFiniteSet(a.match_field)

VARIABLES
    installed,   \* the atoms of the ACLs of the last update_acl, with acl ids
    vector,      \* FirstPath.vector_4
    table        \* FirstPath.table_4: bucket index -> items

vars == <<installed, vector, table>>

Item == [acl : Nat \ {0}, field : Fieldv4]   \* Table4Item

----------------------------------------------------------------------------
(* Bit i of a natural number. *)
Bit(x, i) == (x \div 2 ^ i) % 2

(* Vector::abs_diff and Vector::calc_index. *)
abs_diff(a, b) == IF a > b THEN a - b ELSE b - a

calc_index(matched_0, matched_1, base) ==
    IF matched_0 = 0 /\ matched_1 = 0 THEN base
    ELSE abs_diff(matched_0, matched_1) + (base - (matched_0 + matched_1))

(* Variant of sort_table_index without the fold. *)
sort_table_index_unfolded(matched_0, matched_1, base) ==
    calc_index(matched_0, matched_1, base)

(* Vector::sort_table_index: scores above i16::MAX are folded into the    *)
(* upper half of the sort table.                                          *)
sort_table_index(matched_0, matched_1, base) ==
    LET index == calc_index(matched_0, matched_1, base)
    IN  IF index > I16Max
        THEN index \div (base \div HalfWord + 1) + I16Max
        ELSE index

(* generate_sort_table4: the atoms that care about bit i, split by the    *)
(* value they require, and the sort index of bit i.                       *)
Matched(atoms, i, v) ==
    Cardinality({a \in atoms : a.field.mask[i] = 1 /\ a.field.field[i] = v})

SortKey(atoms, i) ==
    sort_table_index(Matched(atoms, i, 0), Matched(atoms, i, 1),
                     Cardinality(atoms))

(* Vector::init walks the sort table from slot 0 to u16::MAX - 1, each    *)
(* slot's bits in ascending order, and keeps the first u16::BITS bits.    *)
Precedes(atoms, j, i) ==
    \/ SortKey(atoms, j) < SortKey(atoms, i)
    \/ SortKey(atoms, j) = SortKey(atoms, i) /\ j < i

SelectedBits(atoms) ==
    {i \in Bits : /\ SortKey(atoms, i) < U16Max
                  /\ Cardinality({j \in Bits : SortKey(atoms, j) < U16Max
                                               /\ Precedes(atoms, j, i)})
                       < WordBits}

(* vector_bits after vector_bits.sort(): its n-th element. *)
NthBit(sel, n) == CHOOSE b \in sel : Cardinality({c \in sel : c < b}) = n

(* FirstPath::vector_size: the loop runs over the empty range             *)
(* VECTOR_MASK_SIZE_MAX..VECTOR_MASK_SIZE_MIN, so it always returns the   *)
(* minimum.                                                               *)
vector_size(atoms) == VectorSizeMin

(* The vector size the spec describes: the largest size in [min, max]     *)
(* with total_atoms >> level >= 1 << size.                                *)
SpecVectorSize(atoms) ==
    LET fits == {s \in VectorSizeMin .. VectorSizeMax :
                    Cardinality(atoms) \div 2 ^ Level >= 2 ^ s}
    IN  IF fits = {} THEN VectorSizeMin
        ELSE CHOOSE s \in fits : \A t \in fits : t <= s

(* Variant of Vector::init taking min_bit from the second vector bit. *)
VectorInitOffByOne(atoms, size) ==
    LET sel == SelectedBits(atoms)
    IN  [min_bit |-> NthBit(sel, 1), max_bit |-> NthBit(sel, size - 1),
         mask |-> [b \in Bits |-> IF b \in sel THEN 1 ELSE 0],
         vector_bits |-> [n \in 0 .. Cardinality(sel) - 1 |-> NthBit(sel, n)],
         size |-> size]

(* Vector::init: min_bit is the smallest vector bit, max_bit the          *)
(* vector_size-th, and the mask has every selected bit.                   *)
VectorInit(atoms, size) ==
    LET sel == SelectedBits(atoms)
    IN  [min_bit |-> NthBit(sel, 0), max_bit |-> NthBit(sel, size - 1),
         mask |-> [b \in Bits |-> IF b \in sel THEN 1 ELSE 0],
         vector_bits |-> [n \in 0 .. Cardinality(sel) - 1 |-> NthBit(sel, n)],
         size |-> size]

(* MatchedField::get_table_index: the bits of f under the vector mask     *)
(* between min_bit and max_bit, packed from bit 0 upwards.                *)
get_table_index(f, vmask, min_bit, max_bit) ==
    LET acc[b \in min_bit .. max_bit + 1] ==
            IF b = min_bit THEN <<0, 0>>
            ELSE IF vmask[b - 1] = 1
                 THEN <<acc[b - 1][1] + f[b - 1] * 2 ^ acc[b - 1][2],
                        acc[b - 1][2] + 1>>
                 ELSE acc[b - 1]
    IN  acc[max_bit + 1][1]

(* MatchedField::get_all_table_index: the field's index, with every       *)
(* vector bit the atom does not care about set both ways.                 *)
get_all_table_index(atom, v) ==
    LET base == get_table_index(atom.field, v.mask, v.min_bit, v.max_bit)
        free == {n \in DOMAIN v.vector_bits : atom.mask[v.vector_bits[n]] = 0}
    IN  {x \in 0 .. TableSize - 1 :
            \A n \in 0 .. WordBits - 1 :
                Bit(x, n) # Bit(base, n) => n \in free /\ Bit(base, n) = 0}

(* generate_table4: every atom in every bucket it fans out to. *)
generate_table4(items, v) ==
    [idx \in 0 .. TableSize - 1 |->
        {it \in items : idx \in get_all_table_index(it.field, v)}]

(* The predicate a bucket entry is tested with: field & mask == field. *)
FieldMatches(key, atom) == \A b \in Bits : key[b] * atom.mask[b] = atom.field[b]

(* Variant of get_policy_from_table4 that merges every bucket entry. *)
get_policy_from_table4_unfiltered(key) ==
    table[get_table_index(key, vector.mask, vector.min_bit, vector.max_bit)]

(* get_policy_from_table4: scan the bucket of the key's index. *)
get_policy_from_table4(key) ==
    LET idx == get_table_index(key, vector.mask, vector.min_bit, vector.max_bit)
    IN  {it \in table[idx] : FieldMatches(key, it.field)}

AclItems(acls) == UNION {{[acl |-> a.id, field |-> f] : f \in a.match_field} : a \in acls}

----------------------------------------------------------------------------
Init ==
    /\ installed = {}
    /\ vector = [min_bit |-> 0, max_bit |-> 0,
                 mask |-> [b \in Bits |-> 0], vector_bits |-> <<>>,
                 size |-> 0]
    /\ table = [idx \in 0 .. TableSize - 1 |-> {}]

(* update_acl -> generate_first_table: vector size, Vector::init, then    *)
(* generate_table4, in one call.                                          *)
update_acl(acls) ==
    LET items == AclItems(acls)
        v == VectorInit(items, vector_size(items))
    IN  /\ installed' = items
        /\ vector' = v
        /\ table' = generate_table4(items, v)

Next == \E acls \in SUBSET Acls : update_acl(acls)

Spec == Init /\ [][Next]_vars

----------------------------------------------------------------------------
TypeOK ==
    /\ installed \subseteq Item
    /\ vector.min_bit \in Bits /\ vector.max_bit \in Bits
    /\ vector.mask \in MatchedField
    /\ table \in [0 .. TableSize - 1 -> SUBSET Item]

(* Every bit's score lands in a slot Vector::init walks (below u16::MAX), *)
(* so no bit is lost to the fold of sort_table_index, whatever the number *)
(* of atoms.                                                              *)
SortIndexInRange ==
    \A i \in Bits : SortKey(installed, i) < U16Max

(* For every key, the bucket get_policy_from_table4 reads holds exactly   *)
(* the installed atoms the key matches: insertion (get_all_table_index    *)
(* over all vector bits) and lookup (get_table_index between min_bit and  *)
(* max_bit) agree on the bucket of every matching atom.                   *)
BucketLookupExact ==
    \A key \in MatchedField :
        get_policy_from_table4(key) = {it \in installed : FieldMatches(key, it.field)}

(* The vector size update_acl uses is the one the spec describes. *)
VectorSizeAsSpecified ==
    vector.size # 0 => vector.size = SpecVectorSize(installed)
====
