-------------------------- MODULE MC_FirstPathTable --------------------------
(* A 5-bit matched field with the code's widths scaled to u16::BITS = 3:   *)
(* i16::MAX = 3, u16::MAX = 7, TABLE_SIZE = 8, vector sizes 2..3 and       *)
(* level 1.  Seven ACLs, one of four atoms and six of two, give up to 16  *)
(* atoms: enough for scores above i16::MAX to be folded and for the       *)
(* spec's vector size (16 >> 1 >= 1 << 3) to exceed the minimum.          *)
EXTENDS FirstPathTable

MCBitSize == 5

(* An atom requiring the bits `ones` to be 1 and `zeros` to be 0. *)
MCAtom(ones, zeros) ==
    [field |-> [b \in 0 .. MCBitSize - 1 |-> IF b \in ones THEN 1 ELSE 0],
     mask |-> [b \in 0 .. MCBitSize - 1 |-> IF b \in ones \cup zeros THEN 1 ELSE 0]]

MCAcls ==
    {[id |-> 1, match_field |-> {MCAtom({0}, {1}), MCAtom({0, 1}, {})}],
     [id |-> 2, match_field |-> {MCAtom({}, {0, 2}), MCAtom({2}, {0})}],
     [id |-> 3, match_field |-> {MCAtom({4}, {}), MCAtom({}, {4})}],
     [id |-> 4, match_field |-> {MCAtom({1, 3}, {}), MCAtom({3}, {1})}],
     [id |-> 5, match_field |-> {MCAtom({}, {}), MCAtom({2, 4}, {3})}],
     [id |-> 6, match_field |-> {MCAtom({0}, {3, 4}), MCAtom({}, {2})}],
     [id |-> 7, match_field |-> {MCAtom({1}, {}), MCAtom({3}, {}),
                                MCAtom({}, {1, 3}), MCAtom({0, 2, 4}, {})}]}
====
