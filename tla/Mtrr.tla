---------------------------------- MODULE Mtrr ----------------------------------
(***************************************************************************)
(* mtrr_descriptor_t: the ranges read from the MTRRs once at load, and     *)
(* type(), the memory type of a physical address.  Addresses are numbers   *)
(* of 4KB pages.  The descriptor keeps the 88 fixed ranges and, behind     *)
(* them in one array, the variable ones.                                   *)
(***************************************************************************)
EXTENDS Integers, SequencesExt

MemoryType == {"UC", "WC", "WT", "WP", "WB"}

\* The registers of the fixed ranges by size: where each starts and how large its eight
\* ranges are.
Fix64k == << [base |-> 0, size |-> 16] >>
Fix16k == << [base |-> 128, size |-> 4], [base |-> 160, size |-> 4] >>
Fix4k  == [i \in 1..8 |-> [base |-> 192 + (i - 1) * 8, size |-> 1]]

\* for_each_type() numbers the members of the nested lists through.
FixedRegisters == Fix64k \o Fix16k \o Fix4k
FixedCount == 8 * Len(FixedRegisters)

EmptyRange == [begin |-> 0, end |-> 0, type |-> "UC"]
Covers(range, pa) == range.begin <= pa /\ pa < range.end

\* check_fixed(): range k of register r.
FixedRange(r, k, type) ==
  LET begin == FixedRegisters[r].base + k * FixedRegisters[r].size
  IN [begin |-> begin, end |-> begin + FixedRegisters[r].size, type |-> type]

CheckFixed(m) ==
  [i \in 1..FixedCount |->
     LET r == (i - 1) \div 8 + 1
         k == (i - 1) % 8
     IN IF m.fixedSupported /\ m.fixedEnable THEN FixedRange(r, k, m.fixed[i])
        ELSE EmptyRange]

\* ia32_asm_bsf(): the lowest bit that is set.
LowestBit(mask) == CHOOSE k \in 0..30 : (mask \div 2^k) % 2 = 1 /\ mask % 2^k = 0

\* check_variable()
CheckVariable(m) ==
  [i \in DOMAIN m.variable |->
     LET v == m.variable[i]
     IN IF v.valid
        THEN [begin |-> v.base, end |-> v.base + 2^LowestBit(v.mask), type |-> v.type]
        ELSE EmptyRange]

Descriptor(m) ==
  [ranges |-> CheckFixed(m) \o CheckVariable(m), default |-> m.default]

\* type().  is_fixed() compares the address of the loop variable, which is a copy, with
\* the address of variable_: its answer is the same for every range, and unspecified.
Type(d, pa, isFixed) ==
  LET hits  == SelectSeq(d.ranges, LAMBDA range : Covers(range, pa))
      stops == {i \in DOMAIN hits : isFixed \/ hits[i].type = "UC"}
      Merge(result, range) ==
        IF result = "WB" /\ (result = "WT" \/ range.type = "WT") THEN "WT" ELSE result
      result == IF stops # {} THEN hits[CHOOSE i \in stops : \A j \in stops : i <= j].type
                ELSE FoldLeft(Merge, "invalid", hits)
  IN IF result = "invalid" THEN d.default ELSE result

=============================================================================
