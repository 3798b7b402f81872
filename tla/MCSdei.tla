------------------------------- MODULE MCSdei -------------------------------
(***************************************************************************)
(* Instances of Sdei: event 0; private events 10 (dynamic), 12 and 13     *)
(* (explicit, normal and critical) and 14 (static); shared events 20 and   *)
(* 21 (dynamic), 22 (critical, static) and 23 (static).                    *)
(***************************************************************************)
EXTENDS Sdei

CONSTANTS p1, p2

PEs == {p1, p2}
Privates == Event \cap {0, 10, 12, 13, 14}
Criticals == Event \cap {13, 22}
Dynamics == Event \cap {10, 20, 21}
Explicits == Event \cap {12, 13}
StaticIntrs ==
  [e \in Event \cap {0, 14, 22, 23} |->
     CASE e = 0 -> 8 [] e = 14 -> 24 [] e = 22 -> 40 [] e = 23 -> 41]

Symmetry == Permutations({p1, p2})

Routes == PEs \cup {RM_ANY}
Calls1 == {"register", "enable", "disable", "unregister", "mask", "unmask", "complete"}

\* Two PEs that share a dynamic event.
SharedWorkload ==
  [pe |-> PEs, event |-> {20}, intr |-> {33}, route |-> Routes,
   call |-> Calls1 \cup {"bind", "release", "routing", "shared_reset"}]

\* Two PEs that bind and release shared interrupts, one of them a static event's.
BindWorkload ==
  [pe |-> PEs, event |-> {}, intr |-> {33, 34, 40}, route |-> {RM_ANY},
   call |-> {"bind", "release", "shared_reset"}]

\* Two PEs that share two static events, of which a reset meets one running.
ResetWorkload ==
  [pe |-> PEs, event |-> {22, 23}, intr |-> {}, route |-> {RM_ANY},
   call |-> {"register", "enable", "unmask", "complete", "shared_reset"}]

\* Two PEs, which are also turned off and on, with a private event.
PrivateWorkload ==
  [pe |-> PEs, event |-> {10}, intr |-> {25}, route |-> Routes,
   call |-> Calls1 \cup {"bind", "release", "private_reset", "shared_reset", "power"}]

\* Two PEs that signal each other.
SignalWorkload ==
  [pe |-> PEs, event |-> {0}, intr |-> {}, route |-> Routes,
   call |-> Calls1 \cup {"signal"}]

\* One PE with normal and critical events, explicit and from interrupts, of
\* which two fill the dispatch stack.
NestingEvents == {{12, 13, 22}, {12, 13, 23}, {12, 22, 23}}
NestingWorkload(p, events) ==
  [pe |-> {p}, event |-> events, intr |-> {}, route |-> {RM_ANY},
   call |-> (Calls1 \ {"mask", "disable"}) \cup {"fault"}]

SafetyWorkloads ==
  {SharedWorkload, BindWorkload, ResetWorkload, PrivateWorkload, SignalWorkload}
    \cup {NestingWorkload(p, events) : p \in PEs, events \in NestingEvents}

\* Two PEs that mask and unmask while interrupts arrive.
MaskWorkload ==
  [pe |-> PEs, event |-> {14, 22}, intr |-> {}, route |-> Routes,
   call |-> {"register", "enable", "mask", "unmask", "complete"}]
ProgressWorkloads == {MaskWorkload}
=============================================================================
