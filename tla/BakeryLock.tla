------------------------------ MODULE BakeryLock ------------------------------
(***************************************************************************)
(* The bakery lock in coherent memory                                      *)
(* (lib/locks/bakery/bakery_lock_coherent.c).  Every read and write of a   *)
(* lock_data word is a step of its own, so that the CPUs interleave        *)
(* between any two of them; the event register that wfe/sev work on is     *)
(* part of the state.                                                      *)
(***************************************************************************)
EXTENDS Naturals

CONSTANTS
  N,             \* BAKERY_LOCK_MAX_CPUS
  TicketLimit,   \* the number field of lock_data wraps here: 2^15 in the code
  TicketCap      \* bound: no CPU starts to contend while a ticket is >= TicketCap

\* bakery_get_priority keeps the CPU's position in the low 8 bits.
PosLimit == 256

ASSUME NAssumption == N \in 1..PosLimit
ASSUME TicketAssumption == TicketLimit \in Nat \ {0} /\ TicketCap \in Nat \ {0}

CPU == 0..(N - 1)

VARIABLES
  lock_data,     \* the shared words: the choosing bit and the ticket number
  my_ticket,     \* local of bakery_get_ticket, then of bakery_lock_get
  their_ticket,  \* local of bakery_lock_get: the ticket it waits to see change
  they,          \* the loop counter of both loops
  pc,            \* where each CPU is
  event          \* the event register of each CPU (set by sev, consumed by wfe)

vars == <<lock_data, my_ticket, their_ticket, they, pc, event>>
locals == <<my_ticket, their_ticket, they>>

-----------------------------------------------------------------------------
(* The helpers of bakery_lock.h.                                           *)

bakery_get_priority(t, pos) == t * PosLimit + pos

\* A word of lock_data, and its value while the CPU does not contend.
LockWord == [choosing : BOOLEAN, number : 0..(TicketLimit - 1)]
NoTicket == [choosing |-> FALSE, number |-> 0]

make_bakery_data(choosing, num) ==
  [choosing |-> choosing, number |-> num % TicketLimit]

bakery_is_choosing(info) == info.choosing

bakery_ticket_number(info) == info.number

-----------------------------------------------------------------------------
goto(i, label) == pc' = [pc EXCEPT ![i] = label]

Init ==
  /\ lock_data = [i \in CPU |-> NoTicket]
  /\ my_ticket = [i \in CPU |-> 0]
  /\ their_ticket = [i \in CPU |-> 0]
  /\ they = [i \in CPU |-> 0]
  /\ pc = [i \in CPU |-> "idle"]
  /\ event = [i \in CPU |-> FALSE]

\* bakery_get_ticket, up to the loop: announce that a ticket is being chosen.
StartChoosing(i) ==
  /\ pc[i] = "idle"
  /\ \A j \in CPU : bakery_ticket_number(lock_data[j]) < TicketCap
  /\ lock_data' = [lock_data EXCEPT ![i] = make_bakery_data(TRUE, 0)]
  /\ my_ticket' = [my_ticket EXCEPT ![i] = 0]
  /\ they' = [they EXCEPT ![i] = 0]
  /\ goto(i, "scan")
  /\ UNCHANGED <<their_ticket, event>>

\* Mutant: keeps the last ticket read rather than the largest.
ScanTicket_LastSeen(i) ==
  /\ pc[i] = "scan"
  /\ they[i] < N
  /\ my_ticket' = [my_ticket EXCEPT ![i] = bakery_ticket_number(lock_data[they[i]])]
  /\ they' = [they EXCEPT ![i] = @ + 1]
  /\ UNCHANGED <<lock_data, their_ticket, pc, event>>

\* One iteration of the loop of bakery_get_ticket.
ScanTicket(i) ==
  /\ pc[i] = "scan"
  /\ they[i] < N
  /\ LET t == bakery_ticket_number(lock_data[they[i]])
     IN  my_ticket' = [my_ticket EXCEPT ![i] = IF t > @ THEN t ELSE @]
  /\ they' = [they EXCEPT ![i] = @ + 1]
  /\ UNCHANGED <<lock_data, their_ticket, pc, event>>

\* The end of bakery_get_ticket: one store clears the choosing bit and
\* publishes the ticket.
TakeTicket(i) ==
  /\ pc[i] = "scan"
  /\ they[i] = N
  /\ my_ticket' = [my_ticket EXCEPT ![i] = @ + 1]
  /\ lock_data' = [lock_data EXCEPT ![i] = make_bakery_data(FALSE, my_ticket[i] + 1)]
  /\ they' = [they EXCEPT ![i] = 0]
  /\ goto(i, "wait")
  /\ UNCHANGED <<their_ticket, event>>

\* bakery_lock_get: the loop passes over the CPU itself.
SkipSelf(i) ==
  /\ pc[i] = "wait"
  /\ they[i] = i
  /\ they' = [they EXCEPT ![i] = @ + 1]
  /\ UNCHANGED <<lock_data, my_ticket, their_ticket, pc, event>>

\* Mutant: equal tickets are not told apart by position.
HasPriorityOver_TicketOnly(t, j, i) == t # 0 /\ t < my_ticket[i]

\* Whether a CPU that holds ticket t at position j goes before CPU i.
HasPriorityOver(t, j, i) ==
  /\ t # 0
  /\ bakery_get_priority(t, j) < bakery_get_priority(my_ticket[i], i)

\* Mutant: does not wait for a contender that is choosing its ticket.
ReadContender_NoChoosingLoop(i) ==
  /\ pc[i] = "wait"
  /\ they[i] < N /\ they[i] # i
  /\ LET t == bakery_ticket_number(lock_data[they[i]])
     IN  /\ their_ticket' = [their_ticket EXCEPT ![i] = t]
         /\ \/ HasPriorityOver(t, they[i], i) /\ goto(i, "wfe") /\ UNCHANGED they
            \/ /\ ~ HasPriorityOver(t, they[i], i)
               /\ they' = [they EXCEPT ![i] = @ + 1] /\ UNCHANGED pc
  /\ UNCHANGED <<lock_data, my_ticket, event>>

\* The read that leaves the choosing loop, and the comparison of priorities.
ReadContender(i) ==
  /\ pc[i] = "wait"
  /\ they[i] < N /\ they[i] # i
  /\ LET info == lock_data[they[i]]
         t == bakery_ticket_number(info)
     IN  /\ ~ bakery_is_choosing(info)
         /\ their_ticket' = [their_ticket EXCEPT ![i] = t]
         /\ \/ /\ HasPriorityOver(t, they[i], i)
               /\ goto(i, "wfe")
               /\ UNCHANGED they
            \/ /\ ~ HasPriorityOver(t, they[i], i)
               /\ they' = [they EXCEPT ![i] = @ + 1]
               /\ UNCHANGED pc
  /\ UNCHANGED <<lock_data, my_ticket, event>>

\* wfe returns once the event register is set, and clears it.
WakeOnEvent(i) ==
  /\ pc[i] = "wfe"
  /\ event[i]
  /\ event' = [event EXCEPT ![i] = FALSE]
  /\ goto(i, "recheck")
  /\ UNCHANGED <<lock_data, locals>>

\* The architecture lets wfe return for any other reason as well.
WakeSpuriously(i) ==
  /\ pc[i] = "wfe"
  /\ ~ event[i]
  /\ goto(i, "recheck")
  /\ UNCHANGED <<lock_data, locals, event>>

\* The condition of the wfe loop: go on as soon as their ticket has changed.
Recheck(i) ==
  /\ pc[i] = "recheck"
  /\ \/ /\ bakery_ticket_number(lock_data[they[i]]) = their_ticket[i]
        /\ goto(i, "wfe")
        /\ UNCHANGED they
     \/ /\ bakery_ticket_number(lock_data[they[i]]) # their_ticket[i]
        /\ they' = [they EXCEPT ![i] = @ + 1]
        /\ goto(i, "wait")
  /\ UNCHANGED <<lock_data, my_ticket, their_ticket, event>>

\* The loop has seen every contender: bakery_lock_get returns.
Enter(i) ==
  /\ pc[i] = "wait"
  /\ they[i] = N
  /\ goto(i, "cs")
  /\ UNCHANGED <<lock_data, locals, event>>

\* bakery_lock_release: drop the ticket ...
DropTicket(i) ==
  /\ pc[i] = "cs"
  /\ lock_data' = [lock_data EXCEPT ![i] = NoTicket]
  /\ goto(i, "sev")
  /\ UNCHANGED <<locals, event>>

\* Mutant: the release does not signal the waiting CPUs.
SignalEvent_NoSev(i) ==
  /\ pc[i] = "sev"
  /\ goto(i, "idle")
  /\ UNCHANGED <<lock_data, locals, event>>

\* ... and then signal the event to every CPU.
SignalEvent(i) ==
  /\ pc[i] = "sev"
  /\ event' = [j \in CPU |-> TRUE]
  /\ goto(i, "idle")
  /\ UNCHANGED <<lock_data, locals>>

\* The steps a CPU keeps taking once it has called bakery_lock_get.
Progress(i) ==
  \/ ScanTicket(i) \/ TakeTicket(i) \/ SkipSelf(i) \/ ReadContender(i)
  \/ WakeOnEvent(i) \/ Recheck(i) \/ Enter(i) \/ DropTicket(i) \/ SignalEvent(i)

Next == \E i \in CPU : StartChoosing(i) \/ Progress(i) \/ WakeSpuriously(i)

Spec == Init /\ [][Next]_vars

\* A CPU that has called bakery_lock_get keeps executing, and leaves its
\* critical section.  Nothing makes a CPU contend or wfe return spuriously.
FairSpec == Spec /\ \A i \in CPU : WF_vars(Progress(i))

-----------------------------------------------------------------------------
(* Properties.                                                             *)

\* The labels at which a CPU holds a published ticket.
Ticketed == {"wait", "wfe", "recheck", "cs"}

\* Type invariant: the words of lock_data hold a choosing bit and a ticket that
\* fits its field, and the loop counters of bakery_get_ticket and
\* bakery_lock_get stay within 0..BAKERY_LOCK_MAX_CPUS.
TypeOK ==
  /\ lock_data \in [CPU -> LockWord]
  /\ my_ticket \in [CPU -> Nat]
  /\ their_ticket \in [CPU -> 0..(TicketLimit - 1)]
  /\ they \in [CPU -> 0..N]
  /\ pc \in [CPU -> {"idle", "scan", "wait", "wfe", "recheck", "cs", "sev"}]
  /\ event \in [CPU -> BOOLEAN]

\* No two CPUs are past bakery_lock_get at the same time.
MutualExclusion ==
  \A i, j \in CPU : pc[i] = "cs" /\ pc[j] = "cs" => i = j

\* "The CPU with the highest priority (lowest numerical value) acquires the
\* lock": the owner's priority is before that of every CPU with a ticket,
\* including those that took theirs after the owner had looked at them.
OwnerHasPriority ==
  \A i \in CPU : pc[i] = "cs" =>
    \A j \in CPU \ {i} : pc[j] \in Ticketed =>
      bakery_get_priority(my_ticket[i], i) < bakery_get_priority(my_ticket[j], j)

\* The wfe loop of bakery_lock_get only compares ticket numbers: once the ticket
\* it waits for has gone, the same number must not come back while it waits.
AwaitedTicketNeverRecurs ==
  [][\A i \in CPU :
       /\ pc[i] \in {"wfe", "recheck"} /\ pc'[i] \in {"wfe", "recheck"}
       /\ bakery_ticket_number(lock_data[they[i]]) # their_ticket[i]
       => bakery_ticket_number(lock_data'[they[i]]) # their_ticket[i]]_vars

\* Every call of bakery_lock_get returns: no CPU starves, and no wake-up is
\* lost between the read of a ticket and the wfe that waits for it to change.
EveryCallReturns == \A i \in CPU : pc[i] = "scan" ~> pc[i] = "cs"

\* The lock as its callers see it.
lockState ==
  [i \in CPU |-> CASE pc[i] \in {"idle", "sev"} -> "idle"
                   [] pc[i] = "cs" -> "owner"
                   [] OTHER -> "waiting"]

Lock == INSTANCE AbstractLock WITH state <- lockState

\* bakery_lock_get and bakery_lock_release implement the abstract lock.
ImplementsLock == Lock!Spec
=============================================================================
