------------------------------ MODULE GptTables ------------------------------
(***************************************************************************)
(* The granule protection tables of lib/gpt_rme/gpt_rme.c: descriptors,    *)
(* geometry, and the functions that split and merge contiguous blocks.     *)
(*                                                                         *)
(* Addresses are granule numbers.  An L1 entry holds the GPIs of           *)
(* GranulesPerEntry granules; EntriesPer2MB entries make a 2MB block,      *)
(* Fanout 2MB blocks a 32MB block and Fanout 32MB blocks a 512MB block     *)
(* (16, 2..32 and 16 in the code).  A block size is named by the CONTIG    *)
(* field of its descriptor: 1, 2, 3; 0 is a Granules descriptor.  L1       *)
(* tables are indexed through, as if they were one array.                  *)
(***************************************************************************)
EXTENDS Integers, Sequences

CONSTANTS GranulesPerEntry, EntriesPer2MB, Fanout,
          BlocksPerL0,         \* 512MB blocks in the region of an L0 entry
          L0Regions,           \* L0 entries: PPS over the region size
          RME_GPT_MAX_BLOCK,   \* largest block to merge: 0 (none), 1, 2 or 3
          RME_GPT_BITLOCK_BLOCK \* 512MB blocks per bit lock; 0: one lock for all

ASSUME GeometryAssumption ==
  /\ {GranulesPerEntry, EntriesPer2MB, Fanout, BlocksPerL0, L0Regions} \subseteq Nat \ {0}
  /\ RME_GPT_MAX_BLOCK \in 0..3
  /\ RME_GPT_BITLOCK_BLOCK \in Nat

GPI == {"NO_ACCESS", "SA", "NSP", "SECURE", "NS", "ROOT", "REALM", "NSO", "ANY"}

EntriesIn(n) == IF n = 1 THEN EntriesPer2MB
                ELSE IF n = 2 THEN EntriesPer2MB * Fanout
                ELSE EntriesPer2MB * Fanout * Fanout
GranulesIn(n) == EntriesIn(n) * GranulesPerEntry
L0Granules == BlocksPerL0 * GranulesIn(3)

Granule == 0..(L0Regions * L0Granules - 1)
Entry == 0..(L0Regions * BlocksPerL0 * EntriesIn(3) - 1)
Slot == 0..(GranulesPerEntry - 1)

GPT_L0_IDX(g) == g \div L0Granules
GPT_L1_INDEX(g) == g \div GranulesPerEntry
GPT_L1_GPI_IDX(g) == g % GranulesPerEntry

\* The first entry and all entries of the block of size n that holds entry e.
Align(e, n) == (e \div EntriesIn(n)) * EntriesIn(n)
Block(e, n) == Align(e, n)..(Align(e, n) + EntriesIn(n) - 1)

Descriptor == [contig : 0..3, gpi : [Slot -> GPI]]
Granules(gpi) == [contig |-> 0, gpi |-> [k \in Slot |-> gpi]]
GPT_L1_CONT_DESC(gpi, n) == [contig |-> n, gpi |-> [k \in Slot |-> gpi]]

\* The GPI of a granule in table t, as the hardware and the code read it.
read_gpi(t, g) == t[GPT_L1_INDEX(g)].gpi[GPT_L1_GPI_IDX(g)]

\* The lock that protects a granule.
LockOf(g) ==
  IF RME_GPT_BITLOCK_BLOCK = 0 THEN 0
  ELSE g \div (RME_GPT_BITLOCK_BLOCK * GranulesIn(3))
Lock == {LockOf(g) : g \in Granule}

(***************************************************************************)
(* Stores to a table, one 64-bit entry each, in the order they are made.   *)
(***************************************************************************)
Write(e, d) == [op |-> "write", entry |-> e, desc |-> d]

fill_desc(e, d, n) == [k \in 1..n |-> Write(e + k - 1, d)]

\* What an entry holds once the block around entry i has been split.
Shattered(e, i, gpi) ==
  IF e \in Block(i, 1) THEN Granules(gpi)
  ELSE IF e \in Block(i, 2) THEN GPT_L1_CONT_DESC(gpi, 1)
  ELSE GPT_L1_CONT_DESC(gpi, 2)

\* shatter_2mb, shatter_32mb and shatter_512mb: every entry of the block, ascending.
shatter(i, n, gpi) ==
  [k \in 1..EntriesIn(n) |->
     Write(Align(i, n) + k - 1, Shattered(Align(i, n) + k - 1, i, gpi))]

check_fuse_2mb(t, i, gpi) == \A e \in Block(i, 1) : t[e] = Granules(gpi)

\* check_fuse_32mb and check_fuse_512mb: the block around i of the next smaller size is
\* already known to be uniform and its first entry has just been set.
check_fuse(t, i, n, gpi) ==
  \A e \in Block(i, n) :
    (e % EntriesIn(n - 1) = 0 /\ e # Align(i, n - 1))
      => t[e] = GPT_L1_CONT_DESC(gpi, n - 1)

fuse(i, n, gpi) == fill_desc(Align(i, n), GPT_L1_CONT_DESC(gpi, n), EntriesIn(n))

\* The store with which check_fuse_32mb and check_fuse_512mb begin.
SetFirst(i, n, gpi) == <<Write(Align(i, n), GPT_L1_CONT_DESC(gpi, n))>>

\* Mutant: the 32MB check is skipped.
fuse_block_eager(t, i, gpi) ==
  IF ~check_fuse_2mb(t, i, gpi) THEN <<>>
  ELSE IF RME_GPT_MAX_BLOCK = 1 THEN fuse(i, 1, gpi)
  ELSE IF RME_GPT_MAX_BLOCK = 2 \/ ~check_fuse(t, i, 3, gpi) THEN fuse(i, 2, gpi)
  ELSE fuse(i, 3, gpi)

\* Mutant: a block that fuses to 32MB is never tried at 512MB.
fuse_block_short(t, i, gpi) ==
  IF ~check_fuse_2mb(t, i, gpi) THEN <<>>
  ELSE IF RME_GPT_MAX_BLOCK = 1 THEN fuse(i, 1, gpi)
  ELSE IF ~check_fuse(t, i, 2, gpi) THEN SetFirst(i, 1, gpi) \o fuse(i, 1, gpi)
  ELSE SetFirst(i, 1, gpi) \o fuse(i, 2, gpi)

fuse_block(t, i, gpi) ==
  IF ~check_fuse_2mb(t, i, gpi) THEN <<>>
  ELSE IF RME_GPT_MAX_BLOCK = 1 THEN fuse(i, 1, gpi)
  ELSE IF ~check_fuse(t, i, 2, gpi) THEN SetFirst(i, 1, gpi) \o fuse(i, 1, gpi)
  ELSE IF RME_GPT_MAX_BLOCK = 2 THEN SetFirst(i, 1, gpi) \o fuse(i, 2, gpi)
  ELSE IF ~check_fuse(t, i, 3, gpi)
       THEN SetFirst(i, 1, gpi) \o SetFirst(i, 2, gpi) \o fuse(i, 2, gpi)
  ELSE SetFirst(i, 1, gpi) \o SetFirst(i, 2, gpi) \o fuse(i, 3, gpi)
==============================================================================
