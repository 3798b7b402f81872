------------------------------- MODULE GptInit -------------------------------
(***************************************************************************)
(* How gpt_rme.c builds the tables at boot: gpt_init_l0_tables makes every *)
(* L0 entry a block of GPI ANY, and each call of gpt_init_pas_l1_tables    *)
(* checks an array of PAS regions, counts the L1 tables it will need and   *)
(* fills blocks and tables in.                                             *)
(*                                                                         *)
(* A PAS region is [base, size, gpi, map] in granules.  The tables in      *)
(* memory are [l0, l1, taken]; taken counts the calls of get_new_l1_tbl.   *)
(***************************************************************************)
EXTENDS GptTables, SequencesExt

CONSTANTS FEAT_RME_GPC2, FEAT_RME_GDI   \* optional features of the CPU

ASSUME FeatureAssumption == {FEAT_RME_GPC2, FEAT_RME_GDI} \subseteq BOOLEAN

L0Index == 0..(L0Regions - 1)
GPT_L0_BLK_DESC(gpi) == [type |-> "BLK", gpi |-> gpi]
GPT_L0_TBL_DESC == [type |-> "TBL"]

\* The last granule of a region, and the L0 entries it touches.
LastOf(p) == p.base + p.size - 1
L0Of(p) == GPT_L0_IDX(p.base)..GPT_L0_IDX(LastOf(p))

is_gpi_valid(gpi) ==
  /\ gpi = "NSO" => FEAT_RME_GPC2
  /\ gpi \in {"SA", "NSP"} => FEAT_RME_GDI

check_pas_overlap(b1, s1, b2, s2) == b1 + s1 > b2 /\ b2 + s2 > b1

does_previous_pas_exist_here(i, pas, idx) ==
  \E k \in 1..(idx - 1) :
    check_pas_overlap(i * L0Granules, L0Granules, pas[k].base, pas[k].size)

\* The memory for the L1 tables is as the reset left it.
gpt_init_l0_tables == [l0 |-> [i \in L0Index |-> GPT_L0_BLK_DESC("ANY")],
                       l1 |-> [e \in Entry |-> Granules("NO_ACCESS")], taken |-> 0]

\* The checks of validate_pas_mappings on region idx.
PasOK(l0, pas, idx) ==
  LET p == pas[idx] IN
  /\ p.base + p.size <= L0Regions * L0Granules
  /\ is_gpi_valid(p.gpi)
  /\ \A k \in (idx + 1)..Len(pas) :
       ~check_pas_overlap(p.base, p.size, pas[k].base, pas[k].size)
  /\ \A i \in L0Of(p) : l0[i] = GPT_L0_BLK_DESC("ANY")
  /\ p.map = "BLOCK" => p.base % L0Granules = 0 /\ p.size % L0Granules = 0

\* Mutant: a region in one L0 entry is not checked against earlier ones.
pas_l1_cnt_unshared(pas, idx) ==
  LET p == pas[idx] IN
  IF p.map = "BLOCK" THEN 0 ELSE GPT_L0_IDX(LastOf(p)) - GPT_L0_IDX(p.base) + 1

\* The L1 tables that region idx is the first to need.
pas_l1_cnt(pas, idx) ==
  LET p == pas[idx]
      tables == GPT_L0_IDX(LastOf(p)) - GPT_L0_IDX(p.base) + 1
      Shared(i) == IF does_previous_pas_exist_here(i, pas, idx) THEN 1 ELSE 0
  IN  IF p.map = "BLOCK" THEN 0
      ELSE tables - (IF tables > 1 THEN Shared(GPT_L0_IDX(LastOf(p))) ELSE 0)
                  - Shared(GPT_L0_IDX(p.base))

validate_pas_mappings(l0, pas) ==
  IF \A idx \in 1..Len(pas) : PasOK(l0, pas, idx)
  THEN FoldLeftDomain(LAMBDA n, idx : n + pas_l1_cnt(pas, idx), 0, pas)
  ELSE -1

generate_l0_blk_desc(mem, p) ==
  [mem EXCEPT !.l0 = [i \in L0Index |->
     IF i \in GPT_L0_IDX(p.base)..(GPT_L0_IDX(p.base + p.size) - 1)
     THEN GPT_L0_BLK_DESC(p.gpi) ELSE @[i]]]

\* The next piece that fill_l1_tbl writes: its descriptor's size and its last granule.
\* fill_l1_cont_desc takes the largest block that fits.
NextPiece(first, last) ==
  LET length == last - first + 1
      Fits(n) == length >= GranulesIn(n) /\ first % GranulesIn(n) = 0
  IN  IF RME_GPT_MAX_BLOCK = 0 \/ length < GranulesIn(1)
      THEN [contig |-> 0, last |-> last]
      ELSE IF Fits(1)
      THEN LET n == CHOOSE m \in 1..RME_GPT_MAX_BLOCK :
                      Fits(m) /\ \A k \in (m + 1)..RME_GPT_MAX_BLOCK : ~Fits(k)
           IN  [contig |-> n, last |-> first + GranulesIn(n) - 1]
      ELSE [contig |-> 0, last |-> ((first \div GranulesIn(1)) + 1) * GranulesIn(1) - 1]

\* Mutant: a granule descriptor is always written whole.
FillPiece_whole(l1, first, piece, gpi) ==
  [e \in Entry |->
     IF e \notin GPT_L1_INDEX(first)..GPT_L1_INDEX(piece.last) THEN l1[e]
     ELSE GPT_L1_CONT_DESC(gpi, piece.contig)]

\* fill_l1_cont_desc and fill_l1_gran_desc write one piece.
FillPiece(l1, first, piece, gpi) ==
  [e \in Entry |->
     IF e \notin GPT_L1_INDEX(first)..GPT_L1_INDEX(piece.last) THEN l1[e]
     ELSE IF piece.contig > 0 THEN GPT_L1_CONT_DESC(gpi, piece.contig)
     ELSE [l1[e] EXCEPT !.gpi = [k \in Slot |->
             IF e * GranulesPerEntry + k \in first..piece.last THEN gpi ELSE @[k]]]]

\* The pieces are disjoint, so the recursion may write the last one first.
fill_l1_tbl(l1, first, last, gpi) ==
  LET fill[f \in first..(last + 1)] ==
        IF f > last THEN l1
        ELSE FillPiece(fill[NextPiece(f, last).last + 1], f, NextPiece(f, last), gpi)
  IN  fill[first]

get_l1_end_pa(cur, end) ==
  IF GPT_L0_IDX(cur) = GPT_L0_IDX(end) THEN end ELSE (GPT_L0_IDX(cur) + 1) * L0Granules

\* A new table for L0 entry i, all of it ANY, and its descriptor.
get_new_l1_tbl(mem, i) ==
  [mem EXCEPT !.taken = @ + 1, !.l0[i] = GPT_L0_TBL_DESC,
              !.l1 = [e \in Entry |-> IF GPT_L0_IDX(e * GranulesPerEntry) = i
                                     THEN Granules("ANY") ELSE @[e]]]

generate_l0_tbl_desc(mem, p) ==
  LET end == p.base + p.size
      Region(m, i) ==
        LET n == IF m.l0[i].type = "TBL" THEN m ELSE get_new_l1_tbl(m, i)
            cur == IF i = GPT_L0_IDX(p.base) THEN p.base ELSE i * L0Granules
        IN  [n EXCEPT !.l1 = fill_l1_tbl(@, cur, get_l1_end_pa(cur, end) - 1, p.gpi)]
  IN  FoldLeft(Region, mem, SetToSortSeq(L0Of(p), LAMBDA i, j : i < j))

\* One call; pas passed the checks.  The tables come from memory of this call's own.
gpt_init_pas_l1_tables(mem, pas) ==
  FoldLeft(LAMBDA m, p : IF p.map = "BLOCK" THEN generate_l0_blk_desc(m, p)
                         ELSE generate_l0_tbl_desc(m, p),
           [mem EXCEPT !.taken = 0], pas)
==============================================================================
