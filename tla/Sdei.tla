-------------------------------- MODULE Sdei --------------------------------
(***************************************************************************)
(* The SDEI dispatcher (services/std_svc/sdei): events that clients on     *)
(* several PEs bind, register, enable and complete by SMC, and that EL3    *)
(* dispatches to them when the event's interrupt is taken or when firmware *)
(* dispatches it explicitly.                                               *)
(*                                                                         *)
(* A section of the code under a map's lock is one step, and so is the     *)
(* work a PE does on data only it touches.  Where the code reads shared    *)
(* data without the lock (bind, signal) or lets other PEs in between       *)
(* acknowledging an interrupt, handling it and ending it, the model has a  *)
(* step boundary.  halt is the panic or assertion that stopped the system. *)
(***************************************************************************)
EXTENDS Integers, SequencesExt

CONSTANTS
  PE,
  Event,         \* event numbers: the maps, in the order of the mapping arrays
  Private,       \* SDEI_MAPF_PRIVATE; the other events are shared
  Critical,      \* SDEI_MAPF_CRITICAL; the other events are Normal
  Dynamic,       \* SDEI_MAPF_DYNAMIC
  Explicit,      \* SDEI_MAPF_EXPLICIT
  StaticIntr,    \* the interrupt of every event neither Dynamic nor Explicit
  Spi, Ppi,      \* interrupt numbers
  Workload,      \* what the clients may do: PEs, events, interrupts, routes, calls
  RegCountCap    \* bound: reg_count stays below it

SDEI_EVENT_0 == 0
SDEI_DYN_IRQ == 0
RM_ANY == "any"  \* SDEI_REGF_RM_ANY; a PE stands for SDEI_REGF_RM_PE and that PE

Static == Event \ (Dynamic \cup Explicit)
Sgi == {StaticIntr[e] : e \in Event \cap {SDEI_EVENT_0}}

\* What sdei_class_init() asserts of the platform's maps.
ASSUME MapAssumption ==
  /\ Event \subseteq Nat
  /\ Private \subseteq Event /\ Critical \subseteq Event
  /\ Dynamic \subseteq Event \ (Critical \cup Explicit \cup {SDEI_EVENT_0})
  /\ Explicit \subseteq Private \ {SDEI_EVENT_0}
  /\ SDEI_EVENT_0 \in Event => SDEI_EVENT_0 \in Private \ Critical
  /\ StaticIntr \in [Static -> Nat \ {SDEI_DYN_IRQ}]
  /\ \A e \in Static \ {SDEI_EVENT_0} :
        StaticIntr[e] \in (IF e \in Private THEN Ppi ELSE Spi)
  /\ Spi \cap Ppi = {} /\ Sgi \cap (Spi \cup Ppi) = {}
  /\ RegCountCap \in Nat

\* PLAT_SDEI_CRITICAL_PRI, PLAT_SDEI_NORMAL_PRI and the framework they live in.
NORMAL_PRI == 2
IDLE_PRI == 4
EHF == INSTANCE EhfData WITH Priority <- {1, 2}, GIC_HIGHEST_NS_PRIORITY <- 3,
                             GIC_PRI_MASK <- IDLE_PRI, NsMask <- {IDLE_PRI}
sdei_event_priority(e) == IF e \in Critical THEN 1 ELSE NORMAL_PRI

\* The event entries: one per PE for a private event, one for a shared event.
get_event_entry(e, p) == IF e \in Private THEN <<e, p>> ELSE <<e>>
Entry == {get_event_entry(e, p) : e \in Event, p \in PE}

\* The interrupt lines: banked per PE for SGIs and PPIs.
LineOf(i, p) == IF i \in Spi THEN <<i>> ELSE <<i, p>>
Line == {LineOf(i, p) : i \in Spi \cup Ppi \cup Sgi, p \in PE}

VARIABLES
  intr,             \* map->intr
  reg_count,        \* map->reg_count
  state,            \* entry state: the flags "R"unning, "E"nabled, re"G"istered
  route,            \* reg_flags and affinity of an entry
  pe_masked, pending_enables,
  stack,            \* dispatch_stack of a PE
  exc,              \* the PE's data in the exception handling framework
  enabled, pending, active, group0,  \* GIC: lines in each condition
  routing,          \* GIC: PE or RM_ANY, per SPI
  acked,            \* GIC: lines a PE acknowledged and did not end, last one last
  online, pc, arg,  \* where each PE is, and what it holds across a step boundary
  todo,             \* the events a reset or an unmask still has to visit
  workload,         \* the clients of this behaviour; never changes
  halt

maps == <<intr, reg_count>>
entries == <<state, route>>
percpu == <<pe_masked, pending_enables>>
gic == <<enabled, pending, active, group0, routing, acked>>
control == <<online, pc, arg, todo, workload>>
vars == <<maps, entries, percpu, stack, exc, gic, control, halt>>

\* Static events have their bound flag set from the start, except event 0.
is_map_bound(e) == e # SDEI_EVENT_0 /\ intr[e] # SDEI_DYN_IRQ

\* plat_ic_get_running_priority()
RunningPriority(p) == IF acked[p] = <<>> THEN IDLE_PRI ELSE Last(acked[p]).pri

\* The first map of the private or the shared array with this interrupt.
MapsByIntr(i, shared) == {e \in Event : intr[e] = i /\ (e \notin Private <=> shared)}
find_event_map_by_intr(i, shared) == Min(MapsByIntr(i, shared))

-----------------------------------------------------------------------------
(* sdei_state_table: the states in which an action is permitted and the    *)
(* state it leads to.                                                      *)

Permitted == [
  register   |-> {{}},
  release    |-> {{}},
  enable     |-> {s \in SUBSET {"R", "E", "G"} : "G" \in s},
  disable    |-> {s \in SUBSET {"R", "E", "G"} : "G" \in s},
  unregister |-> {s \in SUBSET {"R", "E", "G"} : "G" \in s},
  routing    |-> {{"G"}},
  complete   |-> {{"R"}, {"R", "G"}, {"R", "E", "G"}},
  dispatch   |-> {{"E", "G"}}]

NextState(s, act) ==
  CASE act = "register"   -> {"G"}
    [] act = "enable"     -> s \cup {"E"}
    [] act = "disable"    -> s \ {"E"}
    [] act = "unregister" -> s \ {"E", "G"}
    [] act = "complete"   -> s \ {"R"}
    [] act = "dispatch"   -> s \cup {"R"}
    [] OTHER              -> s

can_sdei_state_trans(en, act) == state[en] \in Permitted[act]
Transition(en, act) == state' = [state EXCEPT ![en] = NextState(@, act)]

-----------------------------------------------------------------------------
SgiLines == {LineOf(i, p) : i \in Sgi, p \in PE}

Init ==
  /\ intr = [e \in Event |-> IF e \in Static THEN StaticIntr[e] ELSE SDEI_DYN_IRQ]
  /\ reg_count = [e \in Event |-> 0]
  /\ state = [en \in Entry |-> {}]
  /\ route = [en \in Entry |-> RM_ANY]
  /\ pe_masked = [p \in PE |-> TRUE]
  /\ pending_enables = [p \in PE |-> FALSE]
  /\ stack = [p \in PE |-> <<>>]
  /\ exc = [p \in PE |-> EHF!InitialData]
  /\ enabled = SgiLines
  /\ pending = {}
  /\ active = {}
  /\ group0 = SgiLines
  /\ routing = [i \in Spi |-> RM_ANY]
  /\ acked = [p \in PE |-> <<>>]
  /\ online = [p \in PE |-> TRUE]
  /\ pc = [p \in PE |-> "ns"]
  /\ arg = [p \in PE |-> <<>>]
  /\ todo = [p \in PE |-> {}]
  /\ workload \in Workload
  /\ halt = ""

\* The client of PE p makes call x.
Calls(p, x) ==
  /\ halt = "" /\ online[p] /\ pc[p] = "ns"
  /\ p \in workload.pe /\ x \in workload.call

goto(p, label, a) == /\ pc' = [pc EXCEPT ![p] = label]
                     /\ arg' = [arg EXCEPT ![p] = a]
                     /\ UNCHANGED <<online, todo, workload>>

visit(p, label, S) == /\ pc' = [pc EXCEPT ![p] = label]
                      /\ todo' = [todo EXCEPT ![p] = S]
                      /\ UNCHANGED <<online, arg, workload>>

panic(what) == /\ halt' = what
               /\ UNCHANGED <<maps, entries, percpu, stack, exc, gic, control>>

-----------------------------------------------------------------------------
(* Calls on one event.  A call that is denied changes nothing.             *)

\* A bound interrupt is registered only while nobody handles it and while it
\* belongs to the Non-secure world.
MayRegister(p, e) ==
  LET l == LineOf(intr[e], p) IN
  /\ can_sdei_state_trans(get_event_entry(e, p), "register")
  /\ e \in Dynamic => is_map_bound(e)
  /\ is_map_bound(e) => l \notin active /\ l \notin group0

sdei_event_register(p, e, r) ==
  LET en == get_event_entry(e, p)
      l  == LineOf(intr[e], p)
      b  == is_map_bound(e)
  IN
  /\ Calls(p, "register") /\ e \in workload.event
  /\ MayRegister(p, e) /\ reg_count[e] < RegCountCap
  /\ e \in Private => r = RM_ANY          \* the argument is ignored
  /\ halt' = IF e \notin Private /\ reg_count[e] # 0 THEN "count" ELSE ""
  /\ Transition(en, "register")
  /\ enabled' = IF b THEN enabled \ {l} ELSE enabled
  /\ pending' = IF b THEN pending \ {l} ELSE pending
  /\ group0'  = IF b THEN group0 \cup {l} ELSE group0
  /\ routing' = IF b /\ e \notin Private THEN [routing EXCEPT ![intr[e]] = r] ELSE routing
  /\ route' = [route EXCEPT ![en] = IF e \in Private THEN p ELSE r]
  /\ reg_count' = [reg_count EXCEPT ![e] = @ + 1]
  /\ UNCHANGED <<intr, percpu, stack, exc, active, acked, control>>

sdei_event_enable(p, e) ==
  LET en == get_event_entry(e, p) IN
  /\ Calls(p, "enable")
  /\ can_sdei_state_trans(en, "enable")
  /\ Transition(en, "enable")
  /\ enabled' = IF is_map_bound(e) /\ "E" \notin state[en]
                THEN enabled \cup {LineOf(intr[e], p)} ELSE enabled
  /\ UNCHANGED <<maps, route, percpu, stack, exc, pending, active, group0, routing, acked,
                 control, halt>>

sdei_event_disable(p, e) ==
  LET en == get_event_entry(e, p) IN
  /\ Calls(p, "disable")
  /\ can_sdei_state_trans(en, "disable")
  /\ Transition(en, "disable")
  /\ enabled' = IF is_map_bound(e) /\ "E" \in state[en]
                THEN enabled \ {LineOf(intr[e], p)} ELSE enabled
  /\ UNCHANGED <<maps, route, percpu, stack, exc, pending, active, group0, routing, acked,
                 control, halt>>

\* Mutant: the interrupt stays with EL3.
Unregister_KeepType(p, e) ==
  /\ Transition(get_event_entry(e, p), "unregister")
  /\ reg_count' = [reg_count EXCEPT ![e] = @ - 1]
  /\ enabled' = enabled \ {LineOf(intr[e], p)}
  /\ UNCHANGED <<intr, route, percpu, stack, exc, pending, active, group0, routing, acked, halt>>

\* Mutant: the registration stays counted.
Unregister_KeepCount(p, e) ==
  LET l == LineOf(intr[e], p) IN
  /\ Transition(get_event_entry(e, p), "unregister")
  /\ enabled' = enabled \ {l}
  /\ pending' = pending \ {l}
  /\ group0'  = group0 \ {l}
  /\ UNCHANGED <<maps, route, percpu, stack, exc, active, routing, acked, halt>>

\* The effect of sdei_event_unregister() on everything but pc.
Unregister(p, e) ==
  LET en == get_event_entry(e, p)
      l  == LineOf(intr[e], p)
      b  == is_map_bound(e)
      n  == reg_count[e] - 1
  IN
  /\ Transition(en, "unregister")
  /\ reg_count' = [reg_count EXCEPT ![e] = n]
  /\ halt' = IF IF e \in Private THEN n < 0 ELSE n # 0 THEN "count"
             ELSE IF b /\ l \notin group0 THEN "type" ELSE ""
  /\ enabled' = IF b THEN enabled \ {l} ELSE enabled
  /\ pending' = IF b THEN pending \ {l} ELSE pending
  /\ group0'  = IF b THEN group0 \ {l} ELSE group0
  /\ route' = [route EXCEPT ![en] = RM_ANY]
  /\ UNCHANGED <<intr, percpu, stack, exc, active, routing, acked>>

MayUnregister(p, e) == can_sdei_state_trans(get_event_entry(e, p), "unregister")

sdei_event_unregister(p, e) ==
  /\ Calls(p, "unregister")
  /\ MayUnregister(p, e)
  /\ Unregister(p, e)
  /\ UNCHANGED control

\* Only while registered, disabled and not running.
sdei_event_routing_set(p, e, r) ==
  LET en == get_event_entry(e, p) IN
  /\ Calls(p, "routing")
  /\ e \notin Private /\ is_map_bound(e)
  /\ can_sdei_state_trans(en, "routing")
  /\ route' = [route EXCEPT ![en] = r]
  /\ routing' = [routing EXCEPT ![intr[e]] = r]
  /\ UNCHANGED <<maps, state, percpu, stack, exc, enabled, pending, active, group0, acked,
                 control, halt>>

-----------------------------------------------------------------------------
(* Binding.  The searches of sdei_interrupt_bind() take no lock.           *)

sdei_interrupt_bind(p, i) ==
  /\ Calls(p, "bind") /\ i \in workload.intr
  /\ goto(p, "bind", <<i>>)
  /\ UNCHANGED <<maps, entries, percpu, stack, exc, gic, halt>>

\* An event with this interrupt ends the search: its number, or an error.
BindLookup(p) ==
  LET i == arg[p][1] IN
  /\ halt = "" /\ pc[p] = "bind"
  /\ IF MapsByIntr(i, i \in Spi) # {}
     THEN goto(p, "ns", <<>>)
     ELSE goto(p, "bind_slot", <<i>>)
  /\ UNCHANGED <<maps, entries, percpu, stack, exc, gic, halt>>

\* The first map without an interrupt must be a dynamic one, and the interrupt
\* must belong to the Non-secure world.
BindSlot(p) ==
  LET i == arg[p][1]
      e == find_event_map_by_intr(SDEI_DYN_IRQ, i \in Spi)
  IN
  /\ halt = "" /\ pc[p] = "bind_slot"
  /\ IF \/ MapsByIntr(SDEI_DYN_IRQ, i \in Spi) = {}
        \/ e \notin Dynamic
        \/ LineOf(i, p) \in group0
     THEN goto(p, "ns", <<>>)
     ELSE goto(p, "bind_lock", <<i, e>>)
  /\ UNCHANGED <<maps, entries, percpu, stack, exc, gic, halt>>

\* Mutant: the slot is not looked at again under the lock.
BindLock_NoRecheck(p) ==
  /\ halt = "" /\ pc[p] = "bind_lock"
  /\ intr' = [intr EXCEPT ![arg[p][2]] = arg[p][1]]
  /\ goto(p, "ns", <<>>)
  /\ UNCHANGED <<reg_count, entries, percpu, stack, exc, gic, halt>>

\* Under the lock of the slot: bind it, or start again when it was taken.
BindLock(p) ==
  LET i == arg[p][1]
      e == arg[p][2]
  IN
  /\ halt = "" /\ pc[p] = "bind_lock"
  /\ IF is_map_bound(e)
     THEN goto(p, "bind", <<i>>) /\ UNCHANGED intr
     ELSE goto(p, "ns", <<>>) /\ intr' = [intr EXCEPT ![e] = i]
  /\ UNCHANGED <<reg_count, entries, percpu, stack, exc, gic, halt>>

\* Mutant: an interrupt that is being handled is released.
MayRelease_Active(p, e) ==
  /\ e \in Dynamic /\ reg_count[e] = 0 /\ is_map_bound(e)

\* The entry and the active state are those of the calling PE.
MayRelease(p, e) ==
  /\ e \in Dynamic
  /\ reg_count[e] = 0
  /\ can_sdei_state_trans(get_event_entry(e, p), "release")
  /\ is_map_bound(e)
  /\ LineOf(intr[e], p) \notin active

Release(p, e) ==
  /\ intr' = [intr EXCEPT ![e] = SDEI_DYN_IRQ]
  /\ UNCHANGED <<reg_count, entries, percpu, stack, exc, gic, halt>>

sdei_interrupt_release(p, e) ==
  /\ Calls(p, "release")
  /\ MayRelease(p, e)
  /\ Release(p, e)
  /\ UNCHANGED control

-----------------------------------------------------------------------------
(* Resets: loops that take one map's lock at a time; todo is what is left. *)

sdei_private_reset(p) ==
  /\ Calls(p, "private_reset")
  /\ visit(p, "unregister", Private)
  /\ UNCHANGED <<maps, entries, percpu, stack, exc, gic, halt>>

sdei_shared_reset(p) ==
  /\ Calls(p, "shared_reset")
  /\ visit(p, "unregister_release", Event \ Private)
  /\ UNCHANGED <<maps, entries, percpu, stack, exc, gic, halt>>

\* Unregister the next event if it is registered.  One that runs makes the call
\* fail: the other events are visited, but no binding is released.
ResetUnregisters(p) ==
  LET e == Min(todo[p]) IN
  /\ halt = "" /\ pc[p] \in {"unregister", "unregister_release"}
  /\ todo[p] # {}
  /\ IF MayUnregister(p, e)
     THEN Unregister(p, e)
     ELSE UNCHANGED <<maps, entries, percpu, stack, exc, gic, halt>>
  /\ visit(p, IF "R" \in state[get_event_entry(e, p)] THEN "unregister" ELSE pc[p],
            todo[p] \ {e})

ResetUnregistered(p) ==
  /\ halt = "" /\ pc[p] \in {"unregister", "unregister_release"}
  /\ todo[p] = {}
  /\ IF pc[p] = "unregister_release"
     THEN visit(p, "release", Dynamic)
     ELSE visit(p, "ns", {})
  /\ UNCHANGED <<maps, entries, percpu, stack, exc, gic, halt>>

\* The bindings are released one by one, the private ones first.
ResetReleases(p) ==
  LET e == Min(IF todo[p] \cap Private # {} THEN todo[p] \cap Private ELSE todo[p]) IN
  /\ halt = "" /\ pc[p] = "release"
  /\ todo[p] # {}
  /\ IF MayRelease(p, e)
     THEN Release(p, e)
     ELSE UNCHANGED <<maps, entries, percpu, stack, exc, gic, halt>>
  /\ visit(p, "release", todo[p] \ {e})

ResetReleased(p) ==
  /\ halt = "" /\ pc[p] = "release"
  /\ todo[p] = {}
  /\ visit(p, "ns", {})
  /\ UNCHANGED <<maps, entries, percpu, stack, exc, gic, halt>>

-----------------------------------------------------------------------------
(* Masking, signalling and power.                                          *)

sdei_pe_mask(p) ==
  /\ Calls(p, "mask")
  /\ pe_masked' = [pe_masked EXCEPT ![p] = TRUE]
  /\ UNCHANGED <<maps, entries, pending_enables, stack, exc, gic, control, halt>>

\* Mutant: the interrupts that were disabled while masked stay disabled.
sdei_pe_unmask_NoEnables(p) ==
  /\ Calls(p, "unmask")
  /\ visit(p, "unmask", {})
  /\ UNCHANGED <<maps, entries, percpu, stack, exc, gic, halt>>

\* The lines of those events in S that are enabled and meant for PE p.
LinesToEnable(p, S) ==
  LET mine == {e \in S : /\ is_map_bound(e)
                         /\ "E" \in state[get_event_entry(e, p)]
                         /\ e \in Private \/ route[<<e>>] = p}
  IN  {LineOf(intr[e], p) : e \in mine}

\* With pending enables: those of the private events, then of the shared ones, each
\* under its map's lock.
sdei_pe_unmask(p) ==
  /\ Calls(p, "unmask")
  /\ IF pending_enables[p]
     THEN /\ enabled' = enabled \cup LinesToEnable(p, Private)
          /\ visit(p, "unmask", Event \ Private)
          /\ UNCHANGED pe_masked
     ELSE /\ pe_masked' = [pe_masked EXCEPT ![p] = FALSE]
          /\ UNCHANGED <<enabled, control>>
  /\ UNCHANGED <<maps, entries, pending_enables, stack, exc, pending, active, group0, routing,
                 acked, halt>>

UnmaskEnables(p) ==
  LET e == Min(todo[p]) IN
  /\ halt = "" /\ pc[p] = "unmask"
  /\ todo[p] # {}
  /\ enabled' = enabled \cup LinesToEnable(p, {e})
  /\ visit(p, "unmask", todo[p] \ {e})
  /\ UNCHANGED <<maps, entries, percpu, stack, exc, pending, active, group0, routing, acked,
                 halt>>

Unmasked(p) ==
  /\ halt = "" /\ pc[p] = "unmask"
  /\ todo[p] = {}
  /\ pending_enables' = [pending_enables EXCEPT ![p] = FALSE]
  /\ pe_masked' = [pe_masked EXCEPT ![p] = FALSE]
  /\ visit(p, "ns", {})
  /\ UNCHANGED <<maps, entries, stack, exc, gic, halt>>

\* The target must be unmasked, then registered and enabled; then the SGI goes.
sdei_signal(p, t) ==
  /\ Calls(p, "signal")
  /\ SDEI_EVENT_0 \in Event /\ ~pe_masked[t]
  /\ goto(p, "signal", <<t>>)
  /\ UNCHANGED <<maps, entries, percpu, stack, exc, gic, halt>>

SignalCheck(p) ==
  /\ halt = "" /\ pc[p] = "signal"
  /\ IF {"G", "E"} \subseteq state[<<SDEI_EVENT_0, arg[p][1]>>]
     THEN goto(p, "raise_sgi", arg[p])
     ELSE goto(p, "ns", <<>>)
  /\ UNCHANGED <<maps, entries, percpu, stack, exc, gic, halt>>

RaiseSgi(p) ==
  /\ halt = "" /\ pc[p] = "raise_sgi"
  /\ pending' = pending \cup {LineOf(intr[SDEI_EVENT_0], arg[p][1])}
  /\ goto(p, "ns", <<>>)
  /\ UNCHANGED <<maps, entries, percpu, stack, exc, enabled, active, group0, routing, acked,
                 halt>>

\* PSCI CPU_OFF, outside any handler.
CpuOff(p) ==
  /\ Calls(p, "power") /\ stack[p] = <<>>
  /\ online' = [online EXCEPT ![p] = FALSE]
  /\ UNCHANGED <<maps, entries, percpu, stack, exc, gic, pc, arg, todo, workload, halt>>

\* The PE's banked interrupts come back in their initial configuration.
sdei_cpu_on_init(p) ==
  LET mine == {LineOf(i, p) : i \in Ppi \cup Sgi} IN
  /\ halt = "" /\ ~online[p]
  /\ online' = [online EXCEPT ![p] = TRUE]
  /\ state' = [en \in Entry |-> IF en \in Private \X {p} THEN {} ELSE state[en]]
  /\ route' = [en \in Entry |-> IF en \in Private \X {p} THEN RM_ANY ELSE route[en]]
  /\ pe_masked' = [pe_masked EXCEPT ![p] = TRUE]
  /\ enabled' = (enabled \ mine) \cup (SgiLines \cap mine)
  /\ pending' = pending \ mine
  /\ active' = active \ mine
  /\ group0' = (group0 \ mine) \cup (SgiLines \cap mine)
  /\ acked' = [acked EXCEPT ![p] = <<>>]
  /\ UNCHANGED <<maps, pending_enables, stack, exc, routing, pc, arg, todo, workload, halt>>

\* Waking up from CPU_SUSPEND.
sdei_cpu_wakeup_init(p) ==
  /\ Calls(p, "power")
  /\ pe_masked' = [pe_masked EXCEPT ![p] = TRUE]
  /\ UNCHANGED <<maps, entries, pending_enables, stack, exc, gic, control, halt>>

-----------------------------------------------------------------------------
(* Dispatch.                                                               *)

\* A device raises an interrupt the dispatcher owns.
Trigger(l) ==
  /\ halt = "" /\ l \in group0 \ (pending \cup SgiLines)
  /\ pending' = pending \cup {l}
  /\ UNCHANGED <<maps, entries, percpu, stack, exc, enabled, active, group0, routing, acked,
                 control, halt>>

\* The GIC forwards a line to PE p.
Forwards(l, p) ==
  /\ l \in (pending \cap enabled \cap group0) \ active
  /\ IF l[1] \in Spi THEN routing[l[1]] \in {RM_ANY, p} ELSE l[2] = p

\* The priority a line was given when its event was registered.
IntrPriority(l) ==
  LET m == MapsByIntr(l[1], l[1] \in Spi)
  IN  IF m = {} THEN NORMAL_PRI ELSE sdei_event_priority(Min(m))

\* The GIC signals one of the highest priority among the lines it forwards to PE p,
\* if that is high enough.
Signals(l, p) ==
  /\ Forwards(l, p)
  /\ \A k \in Line : Forwards(k, p) => IntrPriority(l) <= IntrPriority(k)
  /\ IntrPriority(l) < exc[p].pmr /\ IntrPriority(l) < RunningPriority(p)

\* EL3 takes an interrupt and acknowledges it.
Acknowledge(p, l) ==
  /\ halt = "" /\ online[p] /\ pc[p] = "ns"
  /\ Signals(l, p)
  /\ acked' = [acked EXCEPT ![p] = Append(@, [line |-> l, pri |-> IntrPriority(l)])]
  /\ pending' = pending \ {l}
  /\ active' = active \cup {l}
  /\ goto(p, "intr", <<l[1]>>)
  /\ UNCHANGED <<maps, entries, percpu, stack, exc, enabled, group0, routing, halt>>

\* plat_ic_end_of_interrupt()
EndOfInterrupt(p, l) ==
  /\ active' = active \ {l}
  /\ acked' = [acked EXCEPT ![p] = Front(@)]

\* Mutant: the interrupt is disabled but not set pending again.
handle_masked_trigger_Lost(p, e) ==
  LET l == LineOf(intr[e], p) IN
  /\ enabled' = enabled \ {l}
  /\ pending_enables' = [pending_enables EXCEPT ![p] = TRUE]
  /\ EndOfInterrupt(p, l)
  /\ goto(p, "ns", <<>>)
  /\ UNCHANGED <<maps, entries, pe_masked, stack, exc, pending, group0, routing, halt>>

\* Mutant: the interrupt is not ended.
handle_masked_trigger_NoEnd(p, e) ==
  LET l == LineOf(intr[e], p) IN
  /\ enabled' = enabled \ {l}
  /\ pending_enables' = [pending_enables EXCEPT ![p] = TRUE]
  /\ pending' = pending \cup {l}
  /\ goto(p, "ns", <<>>)
  /\ UNCHANGED <<maps, entries, pe_masked, stack, exc, active, group0, routing, acked, halt>>

\* The PE is masked: a private event, or one routed here, is disabled until the
\* PE unmasks; another PE may take an event routed to any.  Event 0 is dropped.
handle_masked_trigger(p, e) ==
  LET l  == LineOf(intr[e], p)
      rt == route[get_event_entry(e, p)]
      disable == e \in Private \/ rt # RM_ANY
  IN
  \/ /\ e = SDEI_EVENT_0
     /\ goto(p, "ns", <<>>)
     /\ UNCHANGED <<maps, entries, percpu, stack, exc, gic, halt>>
  \/ /\ e # SDEI_EVENT_0 /\ rt \notin {RM_ANY, p}
     /\ panic("affinity")
  \/ /\ e # SDEI_EVENT_0 /\ rt \in {RM_ANY, p}
     /\ enabled' = IF disable THEN enabled \ {l} ELSE enabled
     /\ pending_enables' = [pending_enables EXCEPT ![p] = @ \/ disable]
     /\ pending' = pending \cup {l}
     /\ EndOfInterrupt(p, l)
     /\ goto(p, "ns", <<>>)
     /\ UNCHANGED <<maps, entries, pe_masked, stack, exc, group0, routing, halt>>

\* Mutant: a critical event interrupts anything.
MayNest_Critical(p, e) == stack[p] # <<>> => e \in Critical

\* A critical event may interrupt a normal one, a normal event nothing.
MayNest(p, e) ==
  stack[p] # <<>> => e \in Critical /\ Last(stack[p]).ev \notin Critical

Push(p, e, kind) == stack' = [stack EXCEPT ![p] = Append(@, [ev |-> e, kind |-> kind])]

\* The event was disabled or unregistered after the interrupt was taken.  While
\* it is registered the trigger is kept, but the GIC has no pending SGIs to set.
CannotDispatch(p, e) ==
  LET l == LineOf(intr[e], p)
      keep == "G" \in state[get_event_entry(e, p)]
  IN
  /\ EndOfInterrupt(p, l)
  /\ pending' = IF keep THEN pending \cup {l} ELSE pending
  /\ halt' = IF keep /\ e = SDEI_EVENT_0 THEN "sgi_pending" ELSE ""
  /\ goto(p, "ns", <<>>)
  /\ UNCHANGED <<maps, entries, percpu, stack, exc, enabled, group0, routing>>

sdei_intr_handler(p) ==
  LET i  == arg[p][1]
      e  == find_event_map_by_intr(i, i \in Spi)
      en == get_event_entry(e, p)
  IN
  /\ halt = "" /\ pc[p] = "intr"
  /\ IF MapsByIntr(i, i \in Spi) = {} THEN panic("nomap")
     ELSE IF pe_masked[p] THEN handle_masked_trigger(p, e)
     ELSE IF e \notin Private /\ route[en] \notin {RM_ANY, p} THEN panic("affinity")
     ELSE IF ~can_sdei_state_trans(en, "dispatch") THEN CannotDispatch(p, e)
     ELSE IF ~MayNest(p, e) THEN panic("nesting")
     ELSE /\ Transition(en, "dispatch")
          /\ Push(p, e, "intr")
          /\ goto(p, "ns", <<>>)
          /\ UNCHANGED <<maps, route, percpu, exc, gic, halt>>

\* Firmware dispatches an event after a fault in the Non-secure world on p.
sdei_dispatch_event(p, e) ==
  LET en == get_event_entry(e, p)
      d  == EHF!ehf_activate_priority(
              EHF!ehf_entering_normal_world(exc[p], RunningPriority(p)),
              RunningPriority(p), sdei_event_priority(e))
  IN
  /\ Calls(p, "fault")
  /\ ~pe_masked[p] /\ e \in Explicit
  /\ MayNest(p, e)
  /\ can_sdei_state_trans(en, "dispatch")
  /\ Transition(en, "dispatch")
  /\ exc' = [exc EXCEPT ![p] = d]
  /\ halt' = d.error
  /\ Push(p, e, "explicit")
  /\ UNCHANGED <<maps, route, percpu, gic, control>>

\* Mutant: the event is left running.
sdei_event_complete_KeepRunning(p) ==
  LET top == Last(stack[p]) IN
  /\ Calls(p, "complete") /\ stack[p] # <<>>
  /\ stack' = [stack EXCEPT ![p] = Front(@)]
  /\ goto(p, IF top.kind = "intr" THEN "eoi" ELSE "deactivate", <<top.ev>>)
  /\ UNCHANGED <<maps, entries, percpu, exc, gic, halt>>

\* EVENT_COMPLETE and EVENT_COMPLETE_AND_RESUME.
sdei_event_complete(p) ==
  LET top == Last(stack[p])
      en  == get_event_entry(top.ev, p)
  IN
  /\ Calls(p, "complete")
  /\ stack[p] # <<>>
  /\ can_sdei_state_trans(en, "complete")
  /\ Transition(en, "complete")
  /\ stack' = [stack EXCEPT ![p] = Front(@)]
  /\ goto(p, IF top.kind = "intr" THEN "eoi" ELSE "deactivate", <<top.ev>>)
  /\ UNCHANGED <<maps, route, percpu, exc, gic, halt>>

\* sdei_intr_handler() after the client completed.
FinishInterrupt(p) ==
  LET e == arg[p][1] IN
  /\ halt = "" /\ pc[p] = "eoi"
  /\ IF e # SDEI_EVENT_0 /\ ~is_map_bound(e) THEN panic("mapping")
     ELSE /\ EndOfInterrupt(p, Last(acked[p]).line)
          /\ goto(p, "ns", <<>>)
          /\ UNCHANGED <<maps, entries, percpu, stack, exc, enabled, pending, group0, routing,
                         halt>>

\* sdei_dispatch_event() after the client completed.
FinishExplicit(p) ==
  LET d == EHF!ehf_deactivate_priority(exc[p], RunningPriority(p),
                                       sdei_event_priority(arg[p][1]))
  IN
  /\ halt = "" /\ pc[p] = "deactivate"
  /\ exc' = [exc EXCEPT ![p] = d]
  /\ halt' = d.error
  /\ goto(p, "ns", <<>>)
  /\ UNCHANGED <<maps, entries, percpu, stack, gic>>

-----------------------------------------------------------------------------
\* The calls of PE p's client, a fault there, and its power.
Client(p) ==
  \/ \E e \in Event :
       \/ \E r \in workload.route : \/ sdei_event_register(p, e, r)
                                    \/ sdei_event_routing_set(p, e, r)
       \/ sdei_event_enable(p, e)
       \/ sdei_event_disable(p, e)
       \/ sdei_event_unregister(p, e)
       \/ sdei_interrupt_release(p, e)
       \/ sdei_dispatch_event(p, e)
  \/ \E i \in Spi \cup Ppi : sdei_interrupt_bind(p, i)
  \/ \E t \in PE : sdei_signal(p, t)
  \/ sdei_private_reset(p)
  \/ sdei_shared_reset(p)
  \/ sdei_pe_mask(p)
  \/ sdei_pe_unmask(p)
  \/ sdei_event_complete(p)
  \/ CpuOff(p)
  \/ sdei_cpu_on_init(p)
  \/ sdei_cpu_wakeup_init(p)

\* The steps EL3 takes on PE p to finish what it began.
Firmware(p) ==
  \/ BindLookup(p) \/ BindSlot(p) \/ BindLock(p)
  \/ ResetUnregisters(p) \/ ResetUnregistered(p)
  \/ ResetReleases(p) \/ ResetReleased(p)
  \/ UnmaskEnables(p) \/ Unmasked(p)
  \/ SignalCheck(p) \/ RaiseSgi(p)
  \/ sdei_intr_handler(p)
  \/ FinishInterrupt(p) \/ FinishExplicit(p)

\* A system that panicked stays where it is.
Halted == halt # "" /\ UNCHANGED vars

Next ==
  \/ \E p \in PE : \/ Client(p)
                   \/ Firmware(p)
                   \/ \E l \in Line : Acknowledge(p, l)
  \/ \E l \in Line : Trigger(l)
  \/ Halted

Spec == Init /\ [][Next]_vars

\* A PE that comes back to the Non-secure world while the GIC goes on signalling
\* interrupts to it takes one: calls delay it, but do not put it off for ever.
TakesInterrupts(p) ==
  /\ []<>(halt = "" /\ online[p] /\ pc[p] = "ns")
  /\ <>[](\E l \in Line : Signals(l, p))
  => []<><<\E l \in Line : Acknowledge(p, l)>>_vars

\* EL3 runs to completion, interrupts are taken, and a client completes the events
\* dispatched to it (docs/components/sdei.rst asks it to finish "in finite time").
FairSpec ==
  /\ Spec
  /\ \A p \in PE : /\ WF_vars(Firmware(p))
                   /\ SF_vars(sdei_event_complete(p))
                   /\ TakesInterrupts(p)

-----------------------------------------------------------------------------
(* Properties.                                                             *)

\* An entry is in the running state exactly while one dispatch of it is on the
\* stack of one PE, however the calls, interrupts and resets of the PEs interleave:
\* no event is dispatched twice, and none is left running for ever.
RunningIsDispatched ==
  \A en \in Entry :
    Quantify(PE, LAMBDA p :
      \E k \in DOMAIN stack[p] : get_event_entry(stack[p][k].ev, p) = en)
    = IF "R" \in state[en] THEN 1 ELSE 0

\* sdei_intr_mgmt.c:491-505: at most two dispatches are nested on a PE, a
\* critical one inside a normal one, whether they come from interrupts or from
\* explicit dispatches.
CriticalInsideNormal ==
  /\ halt # "nesting"
  /\ \A p \in PE : \A k, l \in DOMAIN stack[p] :
       k < l => stack[p][l].ev \in Critical /\ stack[p][k].ev \notin Critical

\* An enabled event can fire: its interrupt is enabled in the GIC, or was disabled
\* because it arrived while the PE it is meant for was masked, and that PE knows it
\* has to enable it again when it unmasks.
EnabledEventCanFire ==
  halt = "" =>
    \A e \in Event, p \in PE :
      LET en == get_event_entry(e, p)
          owner == IF e \in Private THEN p ELSE route[en]
      IN  is_map_bound(e) /\ "E" \in state[en] =>
            \/ LineOf(intr[e], p) \in enabled
            \/ owner \in PE /\ pe_masked[owner] /\ pending_enables[owner]

\* EL3 owns an interrupt exactly while an event bound to it is registered.
OwnedWhileRegistered ==
  halt = "" =>
    \A l \in Line \ SgiLines :
      l \in group0 <=> \E e \in Event, p \in PE :
                         /\ is_map_bound(e) /\ LineOf(intr[e], p) = l
                         /\ "G" \in state[get_event_entry(e, p)]

\* Every interrupt but an SGI that a PE acknowledged is being handled: a dispatch of
\* it is on the stack or EL3 is about to handle or end it.  A leftover would hold
\* the PE's running priority and keep later events out.
AcknowledgedIsHandled ==
  halt = "" =>
    \A p \in PE :
      Len(SelectSeq(acked[p], LAMBDA a : a.line[1] \notin Sgi))
        = Len(SelectSeq(stack[p], LAMBDA d : d.kind = "intr" /\ d.ev # SDEI_EVENT_0))
          + (IF \/ pc[p] = "intr" /\ arg[p][1] \notin Sgi
                \/ pc[p] = "eoi" /\ arg[p][1] # SDEI_EVENT_0 THEN 1 ELSE 0)

\* sdei_event.c:148-150 takes the number of registered events from reg_count, and
\* a release relies on it: it counts the registered entries, and for a private
\* event it misses none (the entries of a PE that went off stay counted).
RegCountCovers ==
  halt = "" =>
    \A e \in Event :
      LET n == Cardinality({en \in Entry : en[1] = e /\ "G" \in state[en]})
      IN  IF e \in Private THEN reg_count[e] >= n ELSE reg_count[e] = n

\* The client that got an event number from sdei_interrupt_bind() keeps its interrupt
\* until somebody releases it: a second PE that had found the same free slot without
\* the lock, for another interrupt, looks for another slot (sdei_main.c:737-771).
BindingKept ==
  [][\A e \in Dynamic : is_map_bound(e) /\ is_map_bound(e)' => intr'[e] = intr[e]]_vars

\* sdei_main.c:812-815 "Deny release if the interrupt is active, which means it's
\* probably being acknowledged and handled elsewhere": whichever PE releases it, the
\* binding of a shared interrupt stays from its acknowledgement to its end.
MappingOutlivesDispatch ==
  \A p \in PE : \A k \in DOMAIN acked[p] :
    acked[p][k].line[1] \in Spi => MapsByIntr(acked[p][k].line[1], TRUE) # {}

\* docs/components/exception-handling.rst:587-589 "one dispatcher being starved of
\* interrupts by virtue of another dispatcher handling its (higher priority)
\* interrupts": again and again a PE that could take the interrupt of e takes another
\* one of the same or a higher priority.
Overrun(e, p) ==
  \E q \in PE, l \in Line :
    /\ e \in Private => q = p
    /\ []<><<l # LineOf(intr[e], p) /\ IntrPriority(l) <= sdei_event_priority(e)
             /\ Acknowledge(q, l)>>_vars

\* A trigger is never lost (sdei_intr_mgmt.c:338-380): once the interrupt of an
\* enabled event is pending, also if a masked PE takes it first, the event is
\* dispatched or disabled, unless the PEs mask themselves again and again or
\* interrupts of at least its priority keep arriving.
PendingIsDispatched ==
  \A e \in Event \ Explicit, p \in PE :
    LET en == get_event_entry(e, p) IN
    \/ Overrun(e, p)
    \/ [](LineOf(intr[e], p) \in pending /\ "E" \in state[en] =>
            \/ <>("R" \in state[en] \/ "E" \notin state[en] \/ halt # "")
            \/ []<>(\E q \in PE : pe_masked[q] \/ ~online[q]))
=============================================================================
