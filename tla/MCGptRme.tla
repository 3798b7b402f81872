------------------------------ MODULE MCGptRme -------------------------------
(* An instance of GptRme for TLC: 2 granules an entry, 2 entries in 2MB, 2 blocks in the *)
(* next larger one, so 16 granules in 512MB and 32 in all.                               *)
EXTENDS GptRme

\* No code tells CPUs apart.
Symmetry == Permutations(CPU)

Pas(base, size, gpi, map) == [base |-> base, size |-> size, gpi |-> gpi, map |-> map]
Req(caller, targets, granules) ==
  [caller : {caller}, target : targets, granule : granules]

\* A Non-secure block of 512MB: two granules of one entry, one in the next 2MB.  Granule
\* 15 shows the end of the block to table walks, granule 31 is in an L0 block.
Blocks ==
  [calls |-> <<<<Pas(0, 16, "NS", "GRANULE"), Pas(16, 16, "ROOT", "BLOCK")>>>>,
   request |-> Req("realm", {"REALM", "NS"}, {0, 1, 5, 31}),
   walk |-> {0, 5, 15}, access |-> {0, 5}]

\* Smaller blocks of two worlds, boot in two calls, two locks.
Mixed ==
  [calls |-> <<<<Pas(2, 4, "NS", "GRANULE"), Pas(6, 6, "NSP", "GRANULE")>>,
               <<Pas(16, 4, "SECURE", "GRANULE")>>>>,
   request |-> Req("ns", {"NSO", "NSP", "NS"}, {4}) \cup Req("ns", {"SA", "NS"}, {8})
               \cup Req("secure", {"NS"}, {16}),
   walk |-> {4, 8}, access |-> {4}]

\* Arrays of regions, for what gpt_init_pas_l1_tables makes of them.
Some == {Pas(b, s, gpi, "GRANULE") : b \in {0, 1, 4, 6, 14, 16}, s \in {1, 3, 7, 16, 18},
                                     gpi \in {"NS", "REALM"}}
        \cup {Pas(b, 16, "ROOT", "BLOCK") : b \in {0, 8, 16}}
Arrays == {<<p, q>> : p \in Some, q \in Some} \cup
          {<<p, q, r>> : p \in {x \in Some : x.gpi = "NS"}, q \in Some, r \in {x \in Some : x.size < 8 /\ x.gpi = "NS"}}

MCBoot == {Blocks, Mixed} \cup {[calls |-> <<a>>, request |-> {}, walk |-> {}, access |-> {}] : a \in Arrays}
==============================================================================
