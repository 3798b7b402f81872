--------------------------------- MODULE Ehf ---------------------------------
(***************************************************************************)
(* The EL3 Exception Handling Framework on one PE (bl31/ehf.c): priority   *)
(* levels that are active because an EL3 interrupt was acknowledged or     *)
(* because a dispatcher activated them, the GIC priority mask (PMR) that   *)
(* keeps lower levels out, and the Non-secure mask that is stashed while   *)
(* the Secure world runs.  A smaller number is a higher priority.  All of  *)
(* the state is per CPU, so one PE is the whole system.                    *)
(*                                                                         *)
(* pe is what the framework owns: the fields of pe_exc_data_t and the PMR. *)
(* frames is the stack of dispatches that EL3 delegated to the Non-secure  *)
(* world and that have not completed.                                      *)
(***************************************************************************)
EXTENDS EhfData, SequencesExt

VARIABLES
  pe,        \* pe_exc_data_t and the PMR of this PE
  handlers,  \* exception_data: the levels with a registered handler
  frames,    \* dispatches delegated to the Non-secure world, innermost last
  world,     \* "NS", "S", or "EL3" between saving one context and restoring one
  yielding,  \* the Secure call in progress allowed Non-secure preemption
  nsPmr,     \* the mask the Non-secure world last programmed
  halt       \* "" or the panic or assertion that stopped the PE

vars == <<pe, handlers, frames, world, yielding, nsPmr, halt>>

\* plat_ic_get_running_priority(): the highest acknowledged interrupt.
RunningPriority ==
  Min({frames[i].pri : i \in {j \in DOMAIN frames : frames[j].kind = "intr"}}
        \cup {GIC_PRI_MASK})

-----------------------------------------------------------------------------
Init ==
  /\ pe = InitialData
  /\ handlers = {}
  /\ frames = <<>>
  /\ world = "NS"
  /\ yielding = FALSE
  /\ nsPmr = GIC_PRI_MASK
  /\ halt = ""

\* A panic or a failed assertion stops the PE.
Becomes(d) == /\ pe' = d
              /\ halt' = d.error

\* A dispatcher registers its handler while the runtime services start.
ehf_register_priority_handler(p) ==
  /\ halt = "" /\ frames = <<>> /\ world = "NS"
  /\ IF p \in handlers
     THEN halt' = "handler" /\ UNCHANGED handlers
     ELSE handlers' = handlers \cup {p} /\ UNCHANGED halt
  /\ UNCHANGED <<pe, frames, world, yielding, nsPmr>>

\* The Non-secure world programs its mask.  The GIC ignores the write while the
\* mask is in the secure range.  A handler that interrupted the Secure world, whose
\* mask is in force, leaves it alone.
NsWritesMask(m) ==
  /\ halt = "" /\ world = "NS"
  /\ \A i \in DOMAIN frames : frames[i].from # "S"
  /\ ~IS_PRI_SECURE(pe.pmr)
  /\ nsPmr' = m
  /\ pe' = [pe EXCEPT !.pmr = m]
  /\ UNCHANGED <<handlers, frames, world, yielding, halt>>

\* An SMC for the Secure world: EL3 saves the Non-secure context.  A call that
\* is already suspended below a dispatch is not re-entered.
SaveNormalContext ==
  /\ halt = "" /\ world = "NS"
  /\ \A i \in DOMAIN frames : frames[i].from # "S"
  /\ Becomes(ehf_exited_normal_world(pe, RunningPriority))
  /\ world' = "EL3"
  /\ UNCHANGED <<handlers, frames, yielding, nsPmr>>

\* The dispatcher of a yielding call allows preemption before the Secure
\* context is restored.
AllowPreemption ==
  /\ halt = "" /\ world = "EL3" /\ ~yielding
  /\ Becomes(ehf_allow_ns_preemption(pe))
  /\ yielding' = TRUE
  /\ UNCHANGED <<handlers, frames, world, nsPmr>>

EnterSecure ==
  /\ halt = "" /\ world = "EL3"
  /\ world' = "S"
  /\ UNCHANGED <<pe, handlers, frames, yielding, nsPmr, halt>>

\* The Secure call returns, or a Non-secure interrupt preempts it: EL3 restores
\* the Non-secure context.
RestoreNormalContext ==
  /\ halt = "" /\ world = "S"
  /\ Becomes(ehf_entering_normal_world(pe, RunningPriority))
  /\ world' = "NS"
  /\ yielding' = FALSE
  /\ UNCHANGED <<handlers, frames, nsPmr>>

\* An EL3 interrupt of priority p.  Its handler delegates to the Non-secure
\* world, whose context is restored when the Secure world was interrupted.
ehf_el3_interrupt_handler(p) ==
  /\ halt = "" /\ world \in {"NS", "S"}
  /\ p < pe.pmr /\ p < RunningPriority
  /\ IF p \notin handlers
     THEN halt' = "handler" /\ UNCHANGED <<pe, frames, world>>
     ELSE /\ frames' = Append(frames, [kind |-> "intr", pri |-> p, from |-> world])
          /\ Becomes(IF world = "S" THEN ehf_entering_normal_world(pe, p) ELSE pe)
          /\ world' = "NS"
  /\ UNCHANGED <<handlers, yielding, nsPmr>>

\* The client completes an interrupt: EL3 ends it in the GIC and resumes the
\* world it interrupted.
CompleteInterrupt ==
  /\ halt = "" /\ world = "NS" /\ frames # <<>>
  /\ Last(frames).kind = "intr"
  /\ frames' = Front(frames)
  /\ world' = Last(frames).from
  /\ UNCHANGED <<pe, handlers, yielding, nsPmr, halt>>

\* A fault in either world is delegated to the Non-secure world at level p, as
\* sdei_dispatch_event() does: restore the context, then activate the level.  The
\* Non-secure world runs on afterwards; a Secure call that faulted is given up.
ExplicitDispatch(p) ==
  /\ halt = "" /\ world \in {"NS", "S"}
  /\ Becomes(ehf_activate_priority(ehf_entering_normal_world(pe, RunningPriority),
                                   RunningPriority, p))
  /\ frames' = Append(frames, [kind |-> "explicit", pri |-> p, from |-> "NS"])
  /\ world' = "NS"
  /\ yielding' = (yielding /\ world = "NS")
  /\ UNCHANGED <<handlers, nsPmr>>

CompleteExplicit ==
  /\ halt = "" /\ world = "NS" /\ frames # <<>>
  /\ Last(frames).kind = "explicit"
  /\ Becomes(ehf_deactivate_priority(pe, RunningPriority, Last(frames).pri))
  /\ frames' = Front(frames)
  /\ UNCHANGED <<handlers, world, yielding, nsPmr>>

\* A PE that panicked stays where it is.
Halted == halt # "" /\ UNCHANGED vars

Next ==
  \/ \E p \in Priority : \/ ehf_register_priority_handler(p)
                         \/ ehf_el3_interrupt_handler(p)
                         \/ ExplicitDispatch(p)
  \/ \E m \in NsMask : NsWritesMask(m)
  \/ SaveNormalContext
  \/ AllowPreemption
  \/ EnterSecure
  \/ RestoreNormalContext
  \/ CompleteInterrupt
  \/ CompleteExplicit
  \/ Halted

Spec == Init /\ [][Next]_vars

-----------------------------------------------------------------------------
(* Properties.                                                             *)

\* The Non-secure world never sees its priority mask change behind its back:
\* whenever it runs outside a dispatch, through any sequence of Secure calls,
\* interrupts and explicit dispatches, the mask is the one it last programmed.
NsMaskPreserved ==
  halt = "" /\ world = "NS" /\ frames = <<>> => pe.pmr = nsPmr

\* "It's impossible for a lower priority interrupt to preempt a higher priority
\* one": the dispatches in progress, interrupts and explicit activations alike,
\* have strictly rising priorities.
PrioritiesNest ==
  halt = "" =>
    \A i, j \in DOMAIN frames : i < j => frames[j].pri < frames[i].pri

\* "No Non-secure interrupts can preempt Secure execution" unless the call in
\* progress asked for it: the mask, or an interrupt being handled, keeps every
\* Non-secure priority out.
SecureNotPreempted ==
  halt = "" /\ world = "S" /\ ~yielding =>
    Min({pe.pmr, RunningPriority}) <= GIC_HIGHEST_NS_PRIORITY

\* ehf_is_ns_preemption_allowed() tells the dispatchers exactly whether the
\* Secure call that runs allowed preemption, although it is computed from the
\* cleared stash.
PreemptionReportedRight ==
  halt = "" /\ world = "S" =>
    (ehf_is_ns_preemption_allowed(pe, RunningPriority) <=> yielding)

\* The checks of the stash, the mask and the order of levels ("We should have been notified
\* earlier of entering secure world", ehf.c:342-346) can fail only for what the handler of a dispatch
\* does: no sequence of fast and yielding calls, interrupts and completed dispatches makes
\* a call or a dispatch fail that starts outside a handler.
ChecksFailInsideDispatch ==
  /\ halt = "stash" => frames # <<>>
  /\ halt \in {"mask", "order"} => Len(frames) > 1
=============================================================================
