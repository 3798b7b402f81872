# TLA+ models of Trusted Firmware-A

Trusted Firmware-A (TF-A) is the firmware that runs at the highest exception level of
an Arm system. Every CPU enters it through SMC calls, interrupts and resets, and the
CPUs run its handlers concurrently over state they share: the power domain tree, locks,
interrupt controller, event tables, image descriptors. This directory holds TLA+
models of the parts of it whose correctness depends on the order in which those things
happen, the TLC configurations that check them, and TLAPS proofs about them.

Source paths below are relative to the root of the repository. `PROJECT.json` lists
for every definition the source lines it models.

## 1. The system and its parts

| part | state | operations | what makes it hard |
|---|---|---|---|
| bakery lock (`lib/locks/bakery`) | a word per CPU: choosing bit and ticket | get, release | no atomic instructions; wfe/sev hand-over; 15-bit tickets |
| spinlock (`lib/locks/exclusive`) | a word | lock, unlock | wfe wake-up |
| PSCI (`lib/psci`) | per-CPU affinity state, local state, entry point; per-domain state and lock; requests per CPU and level; suspend mode | CPU_ON, CPU_OFF, CPU_SUSPEND, SYSTEM_SUSPEND, SET_SUSPEND_MODE, warm boot | CPUs that come and go while others compute the state of shared domains; lock order; wake-ups that race with power down; a second mode of coordination |
| BL1 firmware update (`bl1/bl1_fwu.c`) | image descriptors, loaded ids, the secure image in execution | copy, authenticate, execute, resume, done, reset | long sequences of calls from two worlds, each call legal in some states only |
| exception handling framework (`bl31/ehf.c`) | per CPU: active levels, stashed masks, the GIC priority mask | activate, deactivate, world switches, yield, interrupts | interrupts, explicit activations and secure calls nest in each other |
| SDEI (`services/std_svc/sdei`) | event maps, entries, per-PE mask and dispatch stack, GIC lines | bind, release, register, enable, disable, unregister, routing, resets, mask, signal, dispatch, complete | several PEs and interrupts work on the same event; checks without the lock |
| interrupt management, Secure payload dispatchers (`bl31/interrupt_mgmt.c`, `services/spd`) | routing flags, per-CPU state of the Secure payload | yielding and fast calls, preemption, abort, CPU power hooks | preemption of a call that has not returned |
| SPM: SPMD, EL3 SPMC (`services/std_svc/spmd`, `spm`) | partition run-time states, mailboxes, memory transactions | FF-A messages, share, retrieve, relinquish, reclaim | fragmented transactions, several borrowers |
| granule protection tables (`lib/gpt_rme`) | two levels of tables, bit locks per 512MB, the hardware's copies of entries and lines | build at boot, change the address space of a granule | blocks that split and merge while the hardware walks them; invalidations and flushes whose order matters |
| RMMD, FIRME (`services/std_svc/rmmd`, `firme`) | contexts | calls of the Realm world | they reach the granule tables through one function |
| LFA (`services/std_svc/lfa`) | components, holding pen | prime, activate, cancel | all CPUs meet in a pen, calls restart |
| translation tables (`lib/xlat_tables_v2`) | regions, tables, reference counts | map, unmap, change attributes | undo on failure |
| TRNG, DRTM, PFDI, FIRME and other services | small | one call each | pool arithmetic |
| GIC, SCMI, IO, authentication, console drivers; CPU libraries; platforms | hardware | | outside a state model; their outcomes are choices |

What should hold of them, and is stated in the modules: a lock has one owner and no
waiter is forgotten; no CPU runs below a domain that is off, and what it finds after a
warm boot is what it left; an image is executed only after it was authenticated, and
memory that belongs to a loaded image stays intact; the normal world never sees its
interrupt mask change; an event runs once, on one CPU, and a trigger is not lost; a granule
changes hands along permitted transitions only, and nothing cached lets its former owner
back in.

## 2. Modules

| module | models | extends |
|---|---|---|
| `AbstractLock` | what any lock of the firmware promises | |
| `BakeryLock` | `lib/locks/bakery/bakery_lock_coherent.c`, one shared access per step | |
| `BakeryLockProofs` | theorems about it | `BakeryLock` |
| `PowerDomains` | the tree and the pure functions of `psci_common.c` and `plat_psci_common.c` | |
| `PowerDomainsProofs` | lemmas about those functions | `PowerDomains` |
| `Psci`, `MCPsci` | the calls and the warm boot path, all CPUs at once | `PowerDomains` |
| `PsciTypeProofs`, `PsciOnProofs`, `PsciProofs`, `PsciLockProofs`, `PsciCoordProofs` | theorems about it, each module on top of the one before: types, CPU_ON and warm boot, domain locks, coordination | `Psci`, `PowerDomainsProofs` |
| `Bl1Fwu`, `MCBl1Fwu` | `bl1/bl1_fwu.c` | |
| `EhfData` | the functions of `bl31/ehf.c` on the data of one PE | |
| `Ehf` | one PE with interrupts, Secure calls and explicit dispatches | `EhfData` |
| `EhfProofs` | theorems about it | `Ehf` |
| `Sdei`, `MCSdei` | `services/std_svc/sdei` on several PEs, with the GIC lines | instance of `EhfData` |
| `GranuleMap` | what granule transitions promise: one map from granules to address spaces | |
| `GptTables` | descriptors and geometry of `lib/gpt_rme/gpt_rme.c`, splitting and merging of blocks | |
| `GptInit` | how the tables are built at boot | `GptTables` |
| `GptRme`, `MCGptRme` | `gpt_transition_pas` on several CPUs, with table walks and caches | `GptInit` |

A definition named like a C function models that function; other names are the steps
into which a function falls apart. Operators with a suffix after an underscore and
"Mutant" in their comment are broken versions of the definition that follows them.
They are not part of a specification: each shows that some property fails when the
code has a plausible bug.

### Locks

`BakeryLock` has the words of `lock_data` and one program counter per CPU. Every read
or write of another CPU's word is a step of its own. `WakeOnEvent` and `WakeSpuriously`
are the outcomes of `wfe`. The barriers of the code make the lock words sequentially
consistent, which the model assumes. `Psci` takes its domain locks as `AbstractLock`
describes them (acquire waits for a free lock and takes it in one step), which the
refinement justifies.

### PSCI

`aff_info_state`, `local_state`, `warmboot_ep` and the other per-CPU variables are the
fields of `psci_cpu_data_t`; `pd_state` is `local_state` of the non-CPU nodes and `req`
is `psci_req_local_pwr_states`. The locks of an ancestor chain are taken one at a time
from the bottom, as in `psci_acquire_pwr_domain_locks`. Work between acquiring and
releasing them is split wherever another CPU can observe it: the affinity state of a
target is read and written without its domain lock, the scans of
`psci_is_last_on_cpu` visit one CPU per step, OS-initiated requests are stored above
the locked levels. `svc_off_Denied` and `pwr_domain_validate_suspend_Fails` are the
error paths that depend on the Secure payload or the platform; a CPU_OFF that
`pwr_domain_off_early` refuses ends before any lock or store and changes nothing. `Sleep` and
`WakeInPlace` are the power down wfi that a racing interrupt ends.

Not in the model: cache maintenance, the CPU context, time stamps and statistics,
`psci_stop_other_cores`, memory protection.

### Firmware update

An image is a descriptor with its state, sizes and region; memory is what each byte
holds (which image put it there). A copy adds one block. Authentication and the
hooks of the platform succeed or fail. The two worlds are told apart by whose turn it
is, and `bl1_fwu_image_resume`, `bl1_fwu_image_execute` and `bl1_fwu_sec_image_done`
pass the turn. A failed assertion is a state in which the model stops.

### Exception handling framework

`EhfData` maps the data of a PE (`pe_exc_data_t` and the priority mask) to its new
value, one operator per function of `ehf.c`; `error` names the check that panicked or
asserted. `Ehf` calls these in the places where the firmware does: the world switch
events of `context_mgmt.c`, the yielding calls of `tspd_main.c`, the explicit dispatch
of `sdei_intr_mgmt.c`, and `ehf_el3_interrupt_handler`. `frames` is the stack of
dispatches that wait for the normal world to complete. An explicit dispatch may interrupt
either world, and leaves the normal world in execution. Handlers may write their mask, except
those that run on top of an interrupted Secure call, whose mask is then in force.

### SDEI

An event's `intr` and `reg_count` are the fields of its map, `state` holds the three
flags of an entry, and `Permitted` and `NextState` are the state table. A call takes the
map's lock once, so a call is one step, except where the code works without the
lock (`bind`, `signal`) or takes several locks in turn (the resets, `sdei_pe_unmask`). The GIC is the set of
lines that are enabled, pending, active or owned by EL3, and for every PE the lines it
has acknowledged; it signals one of the highest priority among those it forwards to the
PE. Acknowledging, handling and ending an interrupt are separate steps. A
trigger arrives at any time for a line that EL3 owns.

### Granule protection tables

Addresses are granule numbers. An L1 entry is a descriptor: its CONTIG field (0 for
granules, 1 to 3 for blocks of 2MB, 32MB and 512MB) and the GPIs of its granules, all equal
in a block. `l1` holds the entries of all L1 tables side by side; `l0` says which regions
have a table. `GptInit` computes the tables from the arrays of PAS regions: the checks
(`PasOK`), the count of tables (`pas_l1_cnt`), and the pieces into which `fill_l1_tbl` cuts
a region. `shatter`, `check_fuse`, `fuse` and `fuse_block` give the stores of the functions of
those names in the order they are made.

A transition runs under the bit lock of its 512MB. From the moment the entry is read into
`gpi_info`, what the CPU will do is known but for `fuse_block`, so `GPT_LOCK` writes it down
in `steps` and the actions `Store`, `Invalidate` and `FlushToPopa` take one step of it at a
time; `FuseBlock` reads the tables again and adds its stores. The hardware is one entry in the
cache of protection information (`gpc`) and one line in the data caches (`line`): a walk or an
access replaces it at any moment by whatever the tables, or the cached entry, allow. One of
each is enough, because the properties speak of one cached item at a time. An invalidation
that covers only a part of a cached block may leave it, so it does.

The last granule of the protected space cannot be moved: `gpt_transition_pas` asks for
`base + size` to lie inside the space, not at its end (`gpt_rme.c:1880`).

## 3. What the runs check

Passing runs (TLC explores every reachable state of the instance):

| run | instance | shows |
|---|---|---|
| `bakery` | 3 CPUs, tickets up to 2 hand-overs ahead | exclusion, the owner goes before every CPU with a ticket, no lost wake-up, no starvation, refinement of `AbstractLock` |
| `psci_coordination` | 3 CPUs in clusters {0,1} and {2} below one system domain, one retention and one off state | stored domain states agree with the requests; no running CPU loses a domain; warm boots start from a level that covers what was given up |
| `psci_cpu_on` | 3 CPUs below one domain, two entry points (symmetric), CPU_ON, CPU_OFF and SET_SUSPEND_MODE | competing CPU_ON calls keep the pending entry point; SET_SUSPEND_MODE's check holds when it ends |
| `psci_progress` | 2 CPUs in clusters of their own, both modes, all calls, fair | every call returns, or leaves its CPU asleep or off, after refusals and races too; a CPU that was powered on runs (unless a CPU is overtaken at a spinlock for ever) |
| `fwu` | 4 images, 2 slots, regions apart and overlapping | loaded ids, states and memory agree; the overlap check keeps loaded images apart; only authenticated images execute |
| `ehf` | 3 levels, 2 normal world masks | masks are preserved, priorities nest, preemption is reported right; the framework's own checks fail only for what the handler of a dispatch does |
| `sdei` | 2 PEs, 8 events, six workloads (see Bounds) | entries, counts, interrupt ownership, bindings and dispatch stacks agree under all interleavings |
| `sdei_progress` | 2 PEs, a private and a shared event, fair | a trigger that meets a masked PE is dispatched in the end, unless PEs keep masking or interrupts of its priority or above keep coming |
| `gpt` | 2 CPUs, 32 granules in two L0 regions, blocks of all three sizes; 3 kinds of boot configurations (see Bounds) | stale entries and lines are gone when a transition ends; blocks are uniform and merge again; the tables at boot are the regions; refinement of `GranuleMap` |

Runs that end in a violation state what a comment says and show a behaviour of the code
that differs; `findings` in `PROJECT.json` quotes the line:

| run | what happens |
|---|---|
| `psci_system_suspend_last` | the unlocked scan of SYSTEM_SUSPEND reports "last CPU on" although another CPU is starting |
| `psci_os_unlocked_request` | an OS-initiated request above the locked levels lets another cluster turn off the domain of a running CPU |
| `fwu_stale_copied_size` | a size left from an earlier copy makes a reset clear memory of another image |

### Limits of the properties

Some properties are narrower than a comment or an assertion in the code suggests, because
the models reach behaviours in which the wider statement fails:

- The bakery lock is checked and proved up to the width of the ticket field. Under
  contention that never pauses, the ticket outgrows its 15 bits (`bakery_lock_coherent.c:78`);
  the owner then shows ticket 0, and the assertion of `bakery_lock_release` fails. No run
  gets that far, and every theorem but type correctness assumes that it does not happen.
- `EveryCallCompletes` and `TurnedOnCpuRuns` except behaviours in which a CPU waits for a
  spinlock that another one takes again and again: `spin_lock` keeps no queue.
- `DomainStateIsCoordinated`, `WarmBootReachesRequests` and the other properties about
  domains are checked in platform-coordinated mode. In OS-initiated mode a request with
  `last_at_pwrlvl` above the highest level is refused without a restore of the requests it
  stored (`psci_common.c:754`), which no property covers.
- `RunningCpuRequestsRun`, which is proved and in no run, holds in platform-coordinated mode. In OS-initiated mode the
  requests that a retention suspend stored above its level stay after the wake-up
  (`psci_suspend.c:290`).
- `Bl1Fwu` stops with `halt` where the code asserts: a resume after a reset of the
  interrupted image (`bl1_fwu.c:587`), a reset of the image that BL1 started
  (`bl1_fwu.c:744`), and an overlap check against an image of one byte (`bl1_fwu.c:210`).
- `Ehf` stops with `halt = "mask"` when an inner level was left, since the mask then stays
  at that level and keeps the next activation of it out (`ehf.c:211`), and with `halt = "stash"` when the handler of a delegated
  interrupt makes a yielding call (`ehf.c:346`).
  `ChecksFailInsideDispatch` says that nothing outside a handler leads there.
- `BindingKept` is about the slots. Two PEs that bind one interrupt at the same time take
  two dynamic events for it (`sdei_main.c:721`): only the slot is looked at again under the
  lock.
- `PendingIsDispatched` excepts an event whose PE keeps taking other interrupts of the same
  or a higher priority, as `docs/components/exception-handling.rst:583-590` warns.
- `RegCountCovers` bounds the count of a private event from below: a PE that is turned off
  with an event registered leaves it counted (`sdei_main.c:72`).
- `MappingOutlivesDispatch` is about shared interrupts: a private event can be released
  while its handler runs on another PE (`sdei_main.c:816`).
- `AcknowledgedIsHandled` leaves event 0 out: a signal that arrives on a PE which has just
  masked itself is not ended (`sdei_intr_mgmt.c:335`).
- `Sdei` stops with `halt` when an event is routed elsewhere between the
  acknowledgement of its interrupt and its handling (`sdei_intr_mgmt.c:462`), and when a
  disabled event 0 is set pending again, which the GIC driver asserts against
  (`sdei_intr_mgmt.c:474`).
- The model lets the Non-secure world own the interrupts of static events, as
  `sdei_event_register` requires (`sdei_main.c:413`); `docs/components/sdei.rst:187` asks for
  Group 0.

### Bounds

- `BakeryLock`: `TicketCap` bounds how far the tickets go; at 2, with three CPUs, every
  CPU meets every other in each stage of the protocol. `TicketLimit` is the width of
  the field, 2^15.
- `Psci`: three CPUs in two clusters is the smallest tree in which two CPUs share a
  cluster, two clusters share a parent, and a cluster can be off while the other runs.
  There is one retention and one off state, so every kind of state occurs at every level.
  `psci_coordination` offers a standby, a retention of the cluster and a power down of
  everything; a CPU that is off below a retained cluster arises when the requests of
  two CPUs of one cluster are coordinated. A power down that is requested up to the
  cluster only doubles the states and is left out: `RunningCpuDomainsRun`,
  `WakeStateIsLegal` and `WarmBootReachesRequests` are proved for every set of requests,
  `DomainStateIsCoordinated` and `DomainNoDeeperThanChildren` are checked without it.
  `psci_progress` has two CPUs in clusters of their own and two requests: a retention that
  OS-initiated mode refuses after it has stored the request (`psci_common.c:754`), and a
  power down of everything, which is refused or not depending on the other CPU.
- `Bl1Fwu`: images of up to two blocks and requests of up to three; two slots for loaded
  ids, so the array fills up. `Layout` holds two placements of the secure images, and
  the initial state picks one.
- `Ehf`: three levels allow a level to be left while another is active and entered
  again. Depth is bounded by the priorities themselves.
- `Sdei`: `Workload` says which PEs, events, interrupts and calls the clients of a
  behaviour use; the initial state picks one. The six of run `sdei` are a shared
  dynamic event with every call on it, binds and releases of three interrupts, two shared static events with resets, a private
  dynamic event with resets and CPUs turned off and on, event 0 with signals, and
  normal and critical events from interrupts and explicit dispatches on one PE.
  `RegCountCap` (2) bounds `reg_count`, which otherwise grows each time a PE is turned
  off with an event registered. Two PEs suffice for every race between a call
  and a handler. PEs are interchangeable, so `sdei` uses their symmetry.
- `GptRme`: 2 granules an entry, 2 entries in 2MB and 2 blocks in the next larger one instead
  of 16, 2 to 32 and 16: enough for an entry, a 2MB and a 32MB block with a neighbour each.
  `Boot` lists the configurations: a Non-secure 512MB block in which three granules change
  hands; smaller blocks of two worlds that begin and end inside larger ones, on two locks,
  built by two calls; and arrays of two and three regions without requests, of which the
  initial state keeps the accepted ones, for the properties about boot. CPUs are
  interchangeable, and the run uses their symmetry.

### Fairness

- `BakeryLock`: weak fairness of each CPU's own steps while it is in the protocol: a CPU
  at EL3 with interrupts masked keeps executing. A CPU that waits in `wfe` is only
  obliged to go on after an event.
- `Psci`: weak fairness of a CPU's firmware steps. A lock that others take in between is
  free only from time to time, which weak fairness does not cover; strong fairness is
  assumed for the domain locks where they are bakery locks (`~HW_ASSISTED_COHERENCY`, as in
  `psci_progress`), which serve their waiters in turn (checked by `bakery`). The
  spinlock of a target CPU, and the domain locks in the other builds, promise nothing of the
  kind: the properties except the behaviours in which a waiting CPU is overtaken there for
  ever (`Starvation`). Also weak fairness of the reset of a CPU that the platform was asked to
  turn on. The normal world is not fair: it need never call.
- `Sdei`: weak fairness of EL3's own steps; strong fairness of completion, since
  `docs/components/sdei.rst` demands of clients to complete in finite time, whatever other
  calls they make meanwhile; and `TakesInterrupts`: a PE that comes back to the normal world
  again and again while interrupts stay signalled to it takes one. The GIC signals
  one of the highest priority, so a lower one has no promise of its own, nor has a PE that
  loses a shared interrupt to another one.

## 4. What is proved

The proofs hold for every number of CPUs, every tree of domains, every number of
states and every set of priorities, under the assumptions named in the modules (the numbers are naturals, the
retention states end below the off states, the domains form a tree).

- **Bakery lock** (`BakeryLockProofs`): type correctness; mutual exclusion; the owner goes
  first; a ticket that a CPU waits for does not come back;
  refinement of `AbstractLock`. All but the first hold as long as no ticket outgrows
  its field, which is a conjunct of the hypothesis. The inductive
  invariant says for each pair of CPUs what the one that has passed the other knows:
  the other is not contending, or is choosing and will see the passer's ticket, or has a
  later ticket. Exclusion alone is not inductive, because it says nothing of the CPUs
  that are still on their way.
- **Power domains** (`PowerDomainsProofs`): coordination never picks a state deeper than
  a request below the domain, and leaves everything above a running domain running; a
  request that passes validation leaves the running state at every level up to its
  target.
- **PSCI in both modes** (`PsciTypeProofs`, `PsciProofs`, with the lemmas of `PsciOnProofs`): type correctness; a CPU in the warm boot path
  was started or suspended, so that the panic there is unreachable; the entry point of a
  pending start is never replaced. The invariant ties the program counter of a caller
  to the affinity state of its target: whoever holds the target's spinlock
  is the only one that can change it, and between the platform's start of the CPU and the
  caller's last write the target waits for that spinlock.
- **PSCI, platform-coordinated** (`PsciCoordProofs`, with the lemmas of `PsciLockProofs`, assuming `~PSCI_OS_INIT_MODE`): every
  domain above a running CPU runs; a running CPU requests RUN everywhere; the warm boot
  path starts high enough. The invariant says who holds which locks at each program
  counter, that a computed target state is still what the requests give as long
  as its locks are held, and that the level recorded in the CPU's data covers its
  requests. The assumption is needed: `psci_os_unlocked_request` refutes the first
  statement in the other mode.

- **Exception handling framework** (`EhfProofs`): all five properties of the run `ehf`, for
  every set of secure levels and every set of masks of the Non-secure world, assuming that
  the levels are positive and above `GIC_HIGHEST_NS_PRIORITY` and that the masks are not. The
  properties are not inductive, since they speak of moments without a dispatch. The
  invariant follows the mask through the dispatches: the mask to return to is the PMR or,
  while a level is active, `init_pri_mask`; with the stash it tells which world is below the
  outermost dispatch and whether its call yields. It also says that the active
  levels are those of the explicit dispatches, that the PMR keeps out what is not above
  them, and that at most one dispatch, an interrupt, has the Secure world below it.

Only model-checked: everything about firmware update, SDEI and the granule tables; the liveness properties and the absence of deadlock, which involve fairness
and enabledness; `DomainStateIsCoordinated` and `DomainNoDeeperThanChildren`, whose
invariants are not worked out yet.

## 5. Not modelled

`PROJECT.json` lists every part with its status. What could follow, by weight:

1. The interrupt management framework with the Secure payload dispatcher: yielding calls,
   preemption, abort, resume, CPU hooks, composed with `EhfData`.
2. The FF-A memory transactions of the EL3 SPMC.
3. The bakery lock for non-coherent memory, with stale reads, refined to `AbstractLock`.
4. Reference counts of dynamic mappings in the translation tables, undo on failure.
5. The entropy pool and the PSCI statistics: pure algorithms against reference definitions.

Live firmware activation is left out for another reason: the protocol between concurrent calls
is unfinished in the source. `lfa_smc_handler` and `lfa_cancel` note that the serialisation and
the ending of cancelled phases are still to be written, and the activator of the RMM resets the
state of the round without the lock. A model would mostly restate those notes.

A state model says little about drivers that move registers or data (GIC, storage, console,
crypto), CPU and errata libraries, image loading and the boot flow of BL1, BL2 and BL31, the
C library, build tools, and the platform ports, whose hooks appear as the outcomes their
callers distinguish. Of the granule tables, `gpt_runtime_init` and the register set-up of
`gpt_enable` are left out for the same reason.

Next proofs: `Bl1Fwu`
(executed images were authenticated, loaded ids agree with states), `Sdei`
(`RunningIsDispatched`, `OwnedWhileRegistered`), the refinement of `GranuleMap`, and the two
remaining invariants of `Psci`.
