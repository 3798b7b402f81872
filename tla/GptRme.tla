------------------------------- MODULE GptRme --------------------------------
(***************************************************************************)
(* gpt_transition_pas of lib/gpt_rme/gpt_rme.c on several CPUs, together   *)
(* with what the hardware does with the tables meanwhile: it caches        *)
(* entries of the tables, and lines of the memory they give access to.     *)
(*                                                                         *)
(* A CPU that got the lock reads the entry into gpi_info and never reads   *)
(* it again, so what it will do is a list of steps that is known from      *)
(* there on; only fuse_block looks at the table once more.  Each step is   *)
(* one store to a table, one TLB invalidation or one cache flush, in the   *)
(* order of the code, with the barrier that follows it.                    *)
(***************************************************************************)
EXTENDS GptInit

CONSTANTS CPU, NoCpu,
          Boot    \* configurations: [calls, request, walk, access]

ASSUME CpuAssumption == NoCpu \notin CPU

VARIABLES
  boot,     \* PAS arrays given at boot, requests to come, granules the hardware uses
  l0, l1,   \* the tables in memory
  lock,     \* the CPU that holds each bit lock
  pc,       \* idle, lock (waiting) or locked
  req,      \* the request and the GPI it found
  steps,    \* what is left to do under the lock
  gpc,      \* an entry of the tables in the hardware's cache, or NoEntry
  line      \* <<granule, address space>> of a cached line, or <<>>

tables == <<boot, l0>>
vars == <<tables, l1, lock, pc, req, steps, gpc, line>>

NoEntry == [granules |-> {}, gpi |-> "NO_ACCESS"]
NoRequest == [granule |-> 0, target |-> "NS", caller |-> "ns", source |-> "none"]

\* The physical address space that the NSE and NSE2 bits of a GPI select.
GPI_TO_NSE(gpi) == IF gpi = "NSO" THEN "NS" ELSE gpi
\* The address spaces through which a granule may be accessed.
Accessible(gpi) ==
  CASE gpi = "NO_ACCESS" -> {}
    [] gpi = "ANY" -> {"SECURE", "NS", "ROOT", "REALM"}
    [] OTHER -> {GPI_TO_NSE(gpi)}

\* The policies of gpi_config, with those that gpt_enable adds.
is_gpi_transition_permitted(caller, current, target) ==
  \/ caller = "secure" /\ {current, target} = {"NS", "SECURE"}
  \/ caller = "realm" /\ {current, target} = {"NS", "REALM"}
  \/ caller = "ns" /\ FEAT_RME_GPC2 /\ {current, target} = {"NS", "NSO"}
  \/ /\ caller = "ns" /\ FEAT_RME_GDI
     /\ \/ current \in {"NS", "NSO"} /\ target \in {"NSP", "SA"}
        \/ current \in {"NSP", "SA"} /\ target \in {"NS", "NSO"}

(***************************************************************************)
(* The steps of a transition.                                              *)
(***************************************************************************)
Tlbi(granules) == [op |-> "tlbi", granules |-> granules]
tlbi_page_dsbosh(g) == Tlbi({g})
flush_page_to_popa(g, gpi) == [op |-> "flush", line |-> <<g, GPI_TO_NSE(gpi)>>]

GranulesOf(e, n) ==
  (Align(e, n) * GranulesPerEntry)..((Align(e, n) + EntriesIn(n)) * GranulesPerEntry - 1)

\* Mutant: the invalidation covers a page only.
shatter_block_page(i, n, gpi) == shatter(i, n, gpi) \o <<Tlbi({i * GranulesPerEntry})>>

shatter_block(i, n, gpi) == shatter(i, n, gpi) \o <<Tlbi(GranulesOf(i, n))>>

write_gpt(g, desc, gpi) ==
  Write(GPT_L1_INDEX(g), [desc EXCEPT !.gpi[GPT_L1_GPI_IDX(g)] = gpi])

gpt_write_entry(g, desc, target) ==
  <<write_gpt(g, desc, target), tlbi_page_dsbosh(g)>>

gpt_delegate(g, desc, source, target) ==
  <<flush_page_to_popa(g, target)>> \o gpt_write_entry(g, desc, target)
     \o <<flush_page_to_popa(g, source)>>

\* Mutant: the caches are cleaned before everybody has seen the withdrawal.
gpt_undelegate_early(g, desc, source, target) ==
  <<write_gpt(g, desc, "NO_ACCESS"),
    flush_page_to_popa(g, source), flush_page_to_popa(g, target), tlbi_page_dsbosh(g)>>
     \o gpt_write_entry(g, desc, target)

\* Mutant: access is not withdrawn first.
gpt_undelegate_direct(g, desc, source, target) == gpt_delegate(g, desc, source, target)

gpt_undelegate(g, desc, source, target) ==
  <<write_gpt(g, desc, "NO_ACCESS"), tlbi_page_dsbosh(g),
    flush_page_to_popa(g, source), flush_page_to_popa(g, target)>>
     \o gpt_write_entry(g, desc, target)

\* What gpt_transition_pas does under the lock once the transition is permitted.
TransitionSteps(g, desc, source, target) ==
  LET split == RME_GPT_MAX_BLOCK # 0 /\ desc.contig # 0
      gran == IF split THEN Granules(source) ELSE desc
  IN  (IF split THEN shatter_block(GPT_L1_INDEX(g), desc.contig, source) ELSE <<>>)
      \o (IF {source, target} = {"NS", "NSO"} THEN gpt_write_entry(g, gran, target)
          ELSE IF target \in {"NS", "NSO"} THEN gpt_undelegate(g, gran, source, target)
          ELSE gpt_delegate(g, gran, source, target))
      \o (IF RME_GPT_MAX_BLOCK # 0 /\ write_gpt(g, gran, target).desc = Granules(target)
          THEN <<[op |-> "fuse"]>> ELSE <<>>)

(***************************************************************************)
(* The CPUs.                                                               *)
(***************************************************************************)
\* The tables after the first n calls of gpt_init_pas_l1_tables.
Booted(calls, n) ==
  FoldLeft(gpt_init_pas_l1_tables, gpt_init_l0_tables, SubSeq(calls, 1, n))

\* The boot loader panics when a call is refused.
Accepted(calls) ==
  \A n \in 1..Len(calls) : validate_pas_mappings(Booted(calls, n - 1).l0, calls[n]) >= 0

Init ==
  /\ boot \in {b \in Boot : Accepted(b.calls)}
  /\ l0 = Booted(boot.calls, Len(boot.calls)).l0
  /\ l1 = Booted(boot.calls, Len(boot.calls)).l1
  /\ lock = [k \in Lock |-> NoCpu]
  /\ pc = [c \in CPU |-> "idle"]
  /\ req = [c \in CPU |-> NoRequest]
  /\ steps = [c \in CPU |-> <<>>]
  /\ gpc = NoEntry
  /\ line = <<>>

\* A request that passes the checks before the lock.  The last granule of the protected
\* space never does.
gpt_transition_pas(c) ==
  /\ pc[c] = "idle"
  /\ \E r \in boot.request :
       /\ is_gpi_valid(r.target)
       /\ r.granule + 1 < L0Regions * L0Granules
       /\ l0[GPT_L0_IDX(r.granule)] = GPT_L0_TBL_DESC
       /\ req' = [req EXCEPT ![c] = [granule |-> r.granule, target |-> r.target,
                                     caller |-> r.caller, source |-> "none"]]
  /\ pc' = [pc EXCEPT ![c] = "lock"]
  /\ UNCHANGED <<tables, l1, lock, steps, gpc, line>>

\* GPT_LOCK, read_gpi and the decision.
GPT_LOCK(c) ==
  LET g == req[c].granule
      source == read_gpi(l1, g)
  IN
  /\ pc[c] = "lock" /\ lock[LockOf(g)] = NoCpu
  /\ lock' = [lock EXCEPT ![LockOf(g)] = c]
  /\ pc' = [pc EXCEPT ![c] = "locked"]
  /\ req' = [req EXCEPT ![c].source = source]
  /\ steps' = [steps EXCEPT ![c] =
       IF is_gpi_transition_permitted(req[c].caller, source, req[c].target)
       THEN TransitionSteps(g, l1[GPT_L1_INDEX(g)], source, req[c].target)
       ELSE <<>>]
  /\ UNCHANGED <<tables, l1, gpc, line>>

Ready(c, op) == pc[c] = "locked" /\ steps[c] # <<>> /\ Head(steps[c]).op = op
Done(c) == steps' = [steps EXCEPT ![c] = Tail(@)]

Store(c) ==
  /\ Ready(c, "write")
  /\ l1' = [l1 EXCEPT ![Head(steps[c]).entry] = Head(steps[c]).desc]
  /\ Done(c)
  /\ UNCHANGED <<tables, lock, pc, req, gpc, line>>

\* An entry that reaches beyond the range may survive.
Invalidate(c) ==
  /\ Ready(c, "tlbi")
  /\ gpc' = IF gpc.granules \subseteq Head(steps[c]).granules THEN NoEntry ELSE gpc
  /\ Done(c)
  /\ UNCHANGED <<tables, l1, lock, pc, req, line>>

FlushToPopa(c) ==
  /\ Ready(c, "flush")
  /\ line' = IF line = Head(steps[c]).line THEN <<>> ELSE line
  /\ Done(c)
  /\ UNCHANGED <<tables, l1, lock, pc, req, gpc>>

FuseBlock(c) ==
  /\ Ready(c, "fuse")
  /\ steps' = [steps EXCEPT ![c] =
       fuse_block(l1, GPT_L1_INDEX(req[c].granule), req[c].target)]
  /\ UNCHANGED <<tables, l1, lock, pc, req, gpc, line>>

GPT_UNLOCK(c) ==
  /\ pc[c] = "locked" /\ steps[c] = <<>>
  /\ lock' = [lock EXCEPT ![LockOf(req[c].granule)] = NoCpu]
  /\ pc' = [pc EXCEPT ![c] = "idle"]
  /\ req' = [req EXCEPT ![c] = NoRequest]
  /\ UNCHANGED <<tables, l1, steps, gpc, line>>

(***************************************************************************)
(* The hardware.                                                           *)
(***************************************************************************)
\* A table walk fills the cache of protection information.
Walk(g) ==
  LET e == GPT_L1_INDEX(g) IN
  /\ l0[GPT_L0_IDX(g)] = GPT_L0_TBL_DESC
  /\ gpc' = [granules |-> IF l1[e].contig = 0 THEN {g} ELSE GranulesOf(e, l1[e].contig),
             gpi |-> read_gpi(l1, g)]
  /\ UNCHANGED <<tables, l1, lock, pc, req, steps, line>>

\* An access, perhaps speculative, allowed by a cached entry.
Fetch(g) ==
  /\ g \in gpc.granules
  /\ \E p \in Accessible(gpc.gpi) : line' = <<g, p>>
  /\ UNCHANGED <<tables, l1, lock, pc, req, steps, gpc>>

Next ==
  \/ \E c \in CPU :
       \/ gpt_transition_pas(c) \/ GPT_LOCK(c)
       \/ Store(c) \/ Invalidate(c) \/ FlushToPopa(c) \/ FuseBlock(c)
       \/ GPT_UNLOCK(c)
  \/ \E g \in boot.walk : Walk(g)
  \/ \E g \in boot.access : Fetch(g)

Spec == Init /\ [][Next]_vars

(***************************************************************************)
(* Properties.                                                             *)
(***************************************************************************)
\* A CPU still has a step to take on granule g.
Pending(g, step) ==
  \E c \in CPU : req[c].granule = g /\ \E k \in 1..Len(steps[c]) : steps[c][k] = step

\* What the hardware has cached of the tables is what the tables say, except for a
\* granule in transition whose own invalidation is still to come: no block entry survives
\* the splitting of the block (shatter_block, gpt_write_entry).
CachedEntriesAgree ==
  \A g \in gpc.granules :
    gpc.gpi = read_gpi(l1, g) \/ Pending(g, tlbi_page_dsbosh(g))

\* No cached line belongs to an address space that has lost its granule, except while the
\* flush of that very line is still to come (gpt_delegate, gpt_undelegate).
LinesBelong ==
  line # <<>> =>
    \/ line[2] \in Accessible(read_gpi(l1, line[1]))
    \/ Pending(line[1], [op |-> "flush", line |-> line])

Free(e) == lock[LockOf(e * GranulesPerEntry)] = NoCpu

\* A contiguous descriptor speaks for its whole block: in the middle of splitting and
\* merging too, all granules of the block have its GPI, and once the lock is free all
\* entries are the same (shatter_*, fuse_block).
BlocksUniform ==
  \A e \in Entry :
    l1[e].contig # 0 =>
      /\ \A g \in GranulesOf(e, l1[e].contig) : read_gpi(l1, g) = l1[e].gpi[0]
      /\ Free(e) => \A f \in Block(e, l1[e].contig) : l1[f] = l1[e]

\* Splitting leaves no trace: with the lock free, an aligned block inside one PAS region
\* whose granules have the same GPI again is described by a block at least as large
\* (fill_l1_tbl at boot, fuse_block afterwards).
BlocksMerged ==
  \A k \in DOMAIN boot.calls : \A p \in ToSet(boot.calls[k]) : \A n \in 1..RME_GPT_MAX_BLOCK :
    p.map = "GRANULE" =>
      \A e \in {f \in Entry : f % EntriesIn(n) = 0 /\ GranulesOf(f, n) \subseteq p.base..LastOf(p)} :
        (Free(e) /\ \A g \in GranulesOf(e, n) : read_gpi(l1, g) = read_gpi(l1, e * GranulesPerEntry))
          => \A f \in Block(e, n) : l1[f].contig >= n

\* The tables built at boot give every granule the GPI of the PAS region it is in, and
\* ANY to the others, whatever mix of blocks and granules they use
\* (gpt_init_pas_l1_tables).
TablesMatchRegions ==
  boot.request = {} =>
    \A g \in Granule :
      LET of == {p \in UNION {ToSet(boot.calls[k]) : k \in DOMAIN boot.calls} :
                   g \in p.base..LastOf(p)}
          gpi == IF l0[GPT_L0_IDX(g)].type = "BLK" THEN l0[GPT_L0_IDX(g)].gpi
                 ELSE read_gpi(l1, g)
      IN  IF of = {} THEN gpi = "ANY" ELSE \A p \in of : gpi = p.gpi

\* validate_pas_mappings counts exactly the L1 tables that generate_l0_tbl_desc takes: the
\* memory that validate_l1_params found large enough is.
CountedTablesTaken ==
  boot.request = {} => \A n \in DOMAIN boot.calls :
    LET mem == Booted(boot.calls, n - 1) IN
    validate_pas_mappings(mem.l0, boot.calls[n]) = gpt_init_pas_l1_tables(mem, boot.calls[n]).taken

Change(S) == {<<s, t>> \in GPI \X GPI :
                \E caller \in {"secure", "ns", "realm"} :
                  is_gpi_transition_permitted(caller, s, t) /\ t \in S}
Undelegated == Change({"NS", "NSO"}) \ {<<"NS", "NSO">>, <<"NSO", "NS">>}
Delegated == Change(GPI) \ Undelegated

Map == INSTANCE GranuleMap WITH
  Granule <- Granule, GPI <- GPI,
  Delegations <- Delegated, Undelegations <- Undelegated,
  gpi <- [g \in Granule |-> read_gpi(l1, g)],
  from <- [g \in Granule |->
             IF read_gpi(l1, g) = "NO_ACCESS" /\ \E c \in CPU : pc[c] = "locked" /\ req[c].granule = g
             THEN req[CHOOSE c \in CPU : pc[c] = "locked" /\ req[c].granule = g].source
             ELSE "none"]

\* With any number of CPUs splitting, merging and changing blocks, the tables move one
\* granule at a time along permitted transitions, and to the Non-secure world through
\* NO_ACCESS (gpt_transition_pas).
ImplementsMap == Map!Spec
==============================================================================
