--------------------------- MODULE BakeryLockProofs ---------------------------
(***************************************************************************)
(* Proofs about BakeryLock for every number of CPUs up to 256: the type    *)
(* invariant, and, in every behaviour in which no ticket leaves its 15-bit *)
(* field, mutual exclusion and the refinement of the abstract lock.        *)
(***************************************************************************)
EXTENDS BakeryLock, TLAPS

\* No CPU has computed a ticket that make_bakery_data would truncate.
NoWrap == \A i \in CPU : my_ticket[i] < TicketLimit

\* The number of CPUs and the limits are naturals, and a CPU's position fits 8 bits.
LEMMA ConstantFacts ==
  /\ N \in Nat /\ N >= 1 /\ N <= 256
  /\ TicketLimit \in Nat /\ TicketLimit >= 1
  /\ TicketCap \in Nat
  /\ \A i \in CPU : i \in Nat /\ i < N
  /\ CPU \subseteq Nat
BY NAssumption, TicketAssumption DEF PosLimit, CPU

\* make_bakery_data keeps the number within its field, and keeps a number that
\* fits the field as it is.
LEMMA MakeBakeryData ==
  ASSUME NEW c \in BOOLEAN, NEW n \in Nat
  PROVE  /\ make_bakery_data(c, n) \in LockWord
         /\ make_bakery_data(c, n).choosing = c
         /\ n < TicketLimit => make_bakery_data(c, n).number = n
<1>1. TicketLimit \in Nat \ {0}
  BY TicketAssumption
<1>2. n % TicketLimit \in 0..(TicketLimit - 1)
  BY <1>1
<1>3. n < TicketLimit => n % TicketLimit = n
  BY <1>1
<1> QED
  BY <1>2, <1>3 DEF make_bakery_data, LockWord

\* A word of lock_data is a record of a choosing bit and a number in its field.
LEMMA LockWordFacts ==
  /\ NoTicket \in LockWord
  /\ \A w \in LockWord : w.number \in 0..(TicketLimit - 1) /\ w.choosing \in BOOLEAN
BY ConstantFacts DEF LockWord, NoTicket

\* The wfe loop runs only for another CPU, so its exit keeps the loop counter
\* within bounds.
WaitsForAnother ==
  \A i \in CPU : pc[i] \in {"wfe", "recheck"} => they[i] \in CPU \ {i}

LoopInv == TypeOK /\ WaitsForAnother

\* Every step of bakery_lock_get and bakery_lock_release keeps the types and the
\* fact that a CPU never waits for itself.
LEMMA LoopInvInductive == LoopInv /\ [Next]_vars => LoopInv'
<1> SUFFICES ASSUME LoopInv, [Next]_vars PROVE LoopInv'
  OBVIOUS
<1> USE DEF LoopInv, TypeOK, WaitsForAnother
<1>1. ASSUME NEW i \in CPU, StartChoosing(i) PROVE LoopInv'
  <2>1. make_bakery_data(TRUE, 0) \in LockWord
    BY MakeBakeryData
  <2>2. lock_data' \in [CPU -> LockWord]
    BY <1>1, <2>1 DEF StartChoosing
  <2>3. my_ticket' \in [CPU -> Nat] /\ they' \in [CPU -> 0..N]
    BY <1>1, ConstantFacts DEF StartChoosing
  <2>4. TypeOK'
    BY <1>1, <2>2, <2>3 DEF StartChoosing, goto
  <2> QED
    BY <1>1, <2>4 DEF StartChoosing, goto
<1>2. ASSUME NEW i \in CPU, ScanTicket(i) PROVE LoopInv'
  <2>1. they[i] \in CPU
    BY <1>2, ConstantFacts DEF ScanTicket, CPU
  <2>2. lock_data[they[i]].number \in 0..(TicketLimit - 1)
    BY <2>1, LockWordFacts
  <2>3. my_ticket' \in [CPU -> Nat]
    BY <1>2, <2>2, ConstantFacts DEF ScanTicket, bakery_ticket_number
  <2> QED
    BY <1>2, <2>3, ConstantFacts DEF ScanTicket
<1>3. ASSUME NEW i \in CPU, TakeTicket(i) PROVE LoopInv'
  <2>1. my_ticket[i] + 1 \in Nat
    OBVIOUS
  <2>2. make_bakery_data(FALSE, my_ticket[i] + 1) \in LockWord
    BY <2>1, MakeBakeryData
  <2>3. lock_data' \in [CPU -> LockWord]
    BY <1>3, <2>2 DEF TakeTicket
  <2>4. my_ticket' \in [CPU -> Nat] /\ they' \in [CPU -> 0..N]
    BY <1>3, <2>1, ConstantFacts DEF TakeTicket
  <2>5. TypeOK'
    BY <1>3, <2>3, <2>4 DEF TakeTicket, goto
  <2> QED
    BY <1>3, <2>5 DEF TakeTicket, goto
<1>4. ASSUME NEW i \in CPU, SkipSelf(i) PROVE LoopInv'
  BY <1>4, ConstantFacts DEF SkipSelf
<1>5. ASSUME NEW i \in CPU, ReadContender(i) PROVE LoopInv'
  <2>1. they[i] \in CPU /\ they[i] # i
    BY <1>5, ConstantFacts DEF ReadContender, CPU
  <2>2. lock_data[they[i]].number \in 0..(TicketLimit - 1)
    BY <2>1, LockWordFacts
  <2>3. /\ their_ticket' \in [CPU -> 0..(TicketLimit - 1)]
        /\ UNCHANGED <<lock_data, my_ticket, event>>
    BY <1>5, <2>2 DEF ReadContender, bakery_ticket_number
  <2>4. CASE pc' = [pc EXCEPT ![i] = "wfe"] /\ they' = they
    BY <2>1, <2>3, <2>4
  <2>5. CASE they' = [they EXCEPT ![i] = @ + 1] /\ pc' = pc
    <3>1. they' \in [CPU -> 0..N]
      <4>1. they[i] + 1 \in 0..N
        BY ONLY <2>1, ConstantFacts DEF CPU
      <4> QED
        BY <2>5, <4>1
    <3>2. pc[i] = "wait"
      BY <1>5 DEF ReadContender
    <3> QED
      BY <2>3, <2>5, <3>1, <3>2
  <2> QED
    BY <1>5, <2>4, <2>5 DEF ReadContender, goto
<1>6. ASSUME NEW i \in CPU, WakeOnEvent(i) \/ WakeSpuriously(i) PROVE LoopInv'
  <2>1. /\ UNCHANGED <<lock_data, my_ticket, their_ticket, they>>
        /\ pc[i] = "wfe" /\ pc' = [pc EXCEPT ![i] = "recheck"]
        /\ event' \in [CPU -> BOOLEAN]
    BY <1>6 DEF WakeOnEvent, WakeSpuriously, goto, locals
  <2> QED
    BY <2>1
<1>7. ASSUME NEW i \in CPU, Recheck(i) PROVE LoopInv'
  <2>1. UNCHANGED <<lock_data, my_ticket, their_ticket, event>> /\ pc[i] = "recheck"
    BY <1>7 DEF Recheck
  <2>2. CASE pc' = [pc EXCEPT ![i] = "wfe"] /\ they' = they
    BY <2>1, <2>2
  <2>3. CASE they' = [they EXCEPT ![i] = @ + 1] /\ pc' = [pc EXCEPT ![i] = "wait"]
    <3>1. they[i] \in CPU
      BY <2>1
    <3>2. they' \in [CPU -> 0..N]
      <4>1. they[i] + 1 \in 0..N
        BY ONLY <3>1, ConstantFacts DEF CPU
      <4> QED
        BY <2>3, <4>1
    <3> QED
      BY <2>1, <2>3, <3>2
  <2> QED
    BY <1>7, <2>2, <2>3 DEF Recheck, goto
<1>8. ASSUME NEW i \in CPU, Enter(i) \/ SignalEvent(i) PROVE LoopInv'
  <2>1. /\ UNCHANGED <<lock_data, my_ticket, their_ticket, they>>
        /\ pc' = [pc EXCEPT ![i] = "cs"] \/ pc' = [pc EXCEPT ![i] = "idle"]
        /\ event' \in [CPU -> BOOLEAN]
    BY <1>8 DEF Enter, SignalEvent, goto, locals
  <2> QED
    BY <2>1
<1>9. ASSUME NEW i \in CPU, DropTicket(i) PROVE LoopInv'
  <2>1. lock_data' \in [CPU -> LockWord]
    BY <1>9, LockWordFacts DEF DropTicket
  <2> QED
    BY <1>9, <2>1 DEF DropTicket, goto, locals
<1>10. ASSUME UNCHANGED vars PROVE LoopInv'
  BY <1>10 DEF vars
<1> QED
  BY <1>1, <1>2, <1>3, <1>4, <1>5, <1>6, <1>7, <1>8, <1>9, <1>10 DEF Next, Progress

\* The types, and that no CPU waits for itself, hold in every reachable state.
LEMMA LoopInvHolds == Spec => []LoopInv
<1>1. Init => LoopInv
  BY ConstantFacts, LockWordFacts DEF Init, LoopInv, TypeOK, WaitsForAnother
<1> QED
  BY <1>1, LoopInvInductive, PTL DEF Spec

\* The type invariant of the bakery lock: ticket numbers stay within their
\* field and the loop counters within the number of CPUs.
THEOREM TypeCorrect == Spec => []TypeOK
BY LoopInvHolds, PTL DEF LoopInv

-----------------------------------------------------------------------------
(* The order of the tickets.                                               *)

\* What a CPU's shared word says, given where the CPU is.
WordInv ==
  \A i \in CPU :
    /\ pc[i] \in {"idle", "sev"} => lock_data[i].number = 0 /\ ~ lock_data[i].choosing
    /\ pc[i] = "scan" => lock_data[i].number = 0 /\ lock_data[i].choosing
    /\ pc[i] \in Ticketed => /\ lock_data[i].number = my_ticket[i]
                             /\ ~ lock_data[i].choosing
                             /\ my_ticket[i] > 0

Priority(i) == bakery_get_priority(my_ticket[i], i)

\* CPU j cannot get the lock before CPU i, which has a ticket.
GoesBefore(i, j) ==
  \/ pc[j] \in {"idle", "sev"}
  \/ pc[j] = "scan" /\ (they[j] <= i \/ my_ticket[j] >= my_ticket[i])
  \/ pc[j] \in Ticketed /\ Priority(i) < Priority(j)

\* The loop of bakery_lock_get of CPU i has passed CPU j.
HasPassed(i, j) ==
  \/ pc[i] = "cs"
  \/ pc[i] \in {"wait", "wfe", "recheck"} /\ j < they[i]

OrderInv ==
  \A i, j \in CPU : i # j /\ HasPassed(i, j) => GoesBefore(i, j)

\* A CPU in the wfe loop waits for a ticket that is ahead of its own; either
\* that ticket is still there, or its owner can no longer overtake.
WaitInv ==
  \A i \in CPU : pc[i] \in {"wfe", "recheck"} =>
    /\ HasPriorityOver(their_ticket[i], they[i], i)
    /\ \/ pc[they[i]] \in Ticketed /\ lock_data[they[i]].number = their_ticket[i]
       \/ GoesBefore(i, they[i])

TicketInv == WordInv /\ OrderInv /\ WaitInv

\* Priorities order tickets first, then positions, because a position fits the
\* low 8 bits.
LEMMA PriorityOrder ==
  ASSUME NEW t \in Nat, NEW u \in Nat, NEW i \in CPU, NEW j \in CPU
  PROVE  /\ bakery_get_priority(t, i) \in Nat
         /\ t < u => bakery_get_priority(t, i) < bakery_get_priority(u, j)
         /\ bakery_get_priority(t, i) = bakery_get_priority(u, j) => i = j /\ t = u
<1>1. i \in Nat /\ j \in Nat /\ i < 256 /\ j < 256
  BY ConstantFacts
<1> QED
  BY <1>1 DEF bakery_get_priority, PosLimit

\* A step of CPU k leaves alone what belongs to every other CPU.
OthersKept(k) ==
  \A m \in CPU \ {k} :
    /\ pc'[m] = pc[m] /\ they'[m] = they[m] /\ lock_data'[m] = lock_data[m]
    /\ my_ticket'[m] = my_ticket[m] /\ their_ticket'[m] = their_ticket[m]

Step(k) == StartChoosing(k) \/ Progress(k) \/ WakeSpuriously(k)

\* A step of one CPU leaves the word, the locals and the place of the others alone.
LEMMA StepKeepsOthers ==
  ASSUME LoopInv, NEW k \in CPU, Step(k)
  PROVE  OthersKept(k)
<1> USE DEF LoopInv, TypeOK, OthersKept
<1>1. CASE StartChoosing(k)
  BY <1>1 DEF StartChoosing, goto
<1>2. CASE ScanTicket(k) \/ SkipSelf(k)
  BY <1>2 DEF ScanTicket, SkipSelf
<1>3. CASE TakeTicket(k)
  BY <1>3 DEF TakeTicket, goto
<1>4. CASE ReadContender(k)
  BY <1>4 DEF ReadContender, goto
<1>5. CASE WakeOnEvent(k) \/ WakeSpuriously(k)
  BY <1>5 DEF WakeOnEvent, WakeSpuriously, goto, locals
<1>6. CASE Recheck(k)
  BY <1>6 DEF Recheck, goto
<1>7. CASE Enter(k) \/ DropTicket(k) \/ SignalEvent(k)
  BY <1>7 DEF Enter, DropTicket, SignalEvent, goto, locals
<1> QED
  BY <1>1, <1>2, <1>3, <1>4, <1>5, <1>6, <1>7 DEF Step, Progress

\* What a step that begins and ends with a ticket does to the CPU that takes it.
LEMMA TicketedStep ==
  ASSUME LoopInv, NEW k \in CPU, Step(k), pc[k] \in Ticketed
  PROVE  /\ my_ticket'[k] = my_ticket[k]
         /\ \/ pc'[k] \in Ticketed /\ lock_data'[k] = lock_data[k]
            \/ pc[k] = "cs" /\ pc'[k] = "sev" /\ lock_data'[k] = NoTicket
<1> USE DEF LoopInv, TypeOK, Ticketed
<1>1. CASE SkipSelf(k) \/ ReadContender(k) \/ Recheck(k)
  BY <1>1 DEF SkipSelf, ReadContender, Recheck, goto
<1>2. CASE WakeOnEvent(k) \/ WakeSpuriously(k) \/ Enter(k) \/ DropTicket(k)
  BY <1>2 DEF WakeOnEvent, WakeSpuriously, Enter, DropTicket, goto, locals
<1>3. ~ StartChoosing(k) /\ ~ ScanTicket(k) /\ ~ TakeTicket(k) /\ ~ SignalEvent(k)
  BY DEF StartChoosing, ScanTicket, TakeTicket, SignalEvent
<1> QED
  BY <1>1, <1>2, <1>3 DEF Step, Progress

\* While CPU i holds its ticket, no step lets a CPU overtake it.
LEMMA GoesBeforeKept ==
  ASSUME LoopInv, WordInv, NoWrap', NEW k \in CPU, Step(k),
         NEW i \in CPU, NEW j \in CPU, i # j,
         pc[i] \in Ticketed, pc'[i] \in Ticketed, GoesBefore(i, j)
  PROVE  GoesBefore(i, j)'
<1> USE DEF LoopInv, TypeOK
<1>1. my_ticket'[i] = my_ticket[i] /\ Priority(i)' = Priority(i)
  BY StepKeepsOthers, TicketedStep DEF OthersKept, Priority
<1>2. CASE k # j
  BY <1>1, <1>2, StepKeepsOthers DEF OthersKept, GoesBefore, Priority
<1>3. CASE k = j /\ pc[j] \in Ticketed
  <2>1. Priority(j)' = Priority(j) /\ (pc'[j] \in Ticketed \/ pc'[j] = "sev")
    BY <1>3, TicketedStep DEF Priority
  <2>2. Priority(i) < Priority(j)
    BY <1>3 DEF GoesBefore, Ticketed
  <2> QED
    BY <1>1, <2>1, <2>2 DEF GoesBefore
<1>4. CASE k = j /\ StartChoosing(j)
  BY <1>4, ConstantFacts DEF StartChoosing, goto, GoesBefore
<1>5. CASE k = j /\ ScanTicket(j)
  <2>1. they[j] <= i \/ my_ticket[j] >= my_ticket[i]
    BY <1>5 DEF ScanTicket, GoesBefore, Ticketed
  <2>2. /\ they'[j] = they[j] + 1 /\ pc'[j] = "scan"
        /\ my_ticket'[j] = IF lock_data[they[j]].number > my_ticket[j]
                           THEN lock_data[they[j]].number ELSE my_ticket[j]
    BY <1>5 DEF ScanTicket, bakery_ticket_number
  <2>3. lock_data[i].number = my_ticket[i]
    BY DEF WordInv
  <2>4. they[j] \in CPU /\ lock_data[they[j]].number \in Nat
    <3>1. they[j] \in CPU
      BY <1>5, ConstantFacts DEF ScanTicket, CPU
    <3> QED
      BY <3>1, LockWordFacts, ConstantFacts
  <2>5. they'[j] <= i \/ my_ticket'[j] >= my_ticket'[i]
    BY <1>1, <2>1, <2>2, <2>3, <2>4, ConstantFacts
  <2> QED
    BY <2>2, <2>5 DEF GoesBefore
<1>6. CASE k = j /\ TakeTicket(j)
  <2>1. my_ticket[j] >= my_ticket[i]
    BY <1>6, ConstantFacts DEF TakeTicket, GoesBefore, Ticketed
  <2>2. my_ticket'[j] = my_ticket[j] + 1 /\ pc'[j] = "wait"
    BY <1>6 DEF TakeTicket, goto
  <2>3. Priority(i)' < Priority(j)'
    <3>1. my_ticket[i] \in Nat /\ my_ticket[j] + 1 \in Nat /\ my_ticket[i] < my_ticket[j] + 1
      BY <2>1
    <3> QED
      BY <1>1, <2>2, <3>1, PriorityOrder DEF Priority
  <2> QED
    BY <2>2, <2>3 DEF GoesBefore, Ticketed
<1>7. CASE k = j /\ SignalEvent(j)
  BY <1>7 DEF SignalEvent, goto, GoesBefore
<1>8. pc[j] \notin Ticketed /\ k = j =>
        StartChoosing(j) \/ ScanTicket(j) \/ TakeTicket(j) \/ SignalEvent(j)
  BY DEF Step, Progress, Ticketed, SkipSelf, ReadContender, WakeOnEvent,
         WakeSpuriously, Recheck, Enter, DropTicket
<1> QED
  BY <1>2, <1>3, <1>4, <1>5, <1>6, <1>7, <1>8

\* Every step keeps the relation between a CPU's word, its ticket and its place.
LEMMA WordInvKept ==
  ASSUME LoopInv, WordInv, NoWrap', NEW k \in CPU, Step(k)
  PROVE  WordInv'
<1> SUFFICES ASSUME NEW i \in CPU
             PROVE  /\ pc'[i] \in {"idle", "sev"} =>
                         lock_data'[i].number = 0 /\ ~ lock_data'[i].choosing
                    /\ pc'[i] = "scan" =>
                         lock_data'[i].number = 0 /\ lock_data'[i].choosing
                    /\ pc'[i] \in Ticketed => /\ lock_data'[i].number = my_ticket'[i]
                                              /\ ~ lock_data'[i].choosing
                                              /\ my_ticket'[i] > 0
  BY DEF WordInv
<1> USE DEF LoopInv, TypeOK
<1>1. CASE i # k
  BY <1>1, StepKeepsOthers DEF OthersKept, WordInv
<1>2. CASE i = k /\ pc[k] \in Ticketed
  BY <1>2, TicketedStep DEF WordInv, Ticketed, NoTicket
<1>3. CASE i = k /\ StartChoosing(k)
  <2>1. /\ make_bakery_data(TRUE, 0).number = 0
        /\ make_bakery_data(TRUE, 0).choosing = TRUE
    <3>1. 0 \in Nat /\ 0 < TicketLimit
      BY ConstantFacts
    <3> QED
      BY <3>1, MakeBakeryData
  <2>2. pc'[k] = "scan" /\ lock_data'[k] = make_bakery_data(TRUE, 0)
    BY <1>3 DEF StartChoosing, goto
  <2> QED
    BY <1>3, <2>1, <2>2 DEF Ticketed
<1>4. CASE i = k /\ TakeTicket(k)
  <2>1. my_ticket'[k] = my_ticket[k] + 1 /\ my_ticket'[k] < TicketLimit
    BY <1>4 DEF TakeTicket, NoWrap
  <2>2. my_ticket[k] \in Nat /\ my_ticket[k] + 1 \in Nat /\ my_ticket[k] + 1 > 0
    OBVIOUS
  <2>3. /\ make_bakery_data(FALSE, my_ticket[k] + 1).number = my_ticket[k] + 1
        /\ make_bakery_data(FALSE, my_ticket[k] + 1).choosing = FALSE
    BY <2>1, <2>2, MakeBakeryData
  <2>4. pc'[k] = "wait" /\ lock_data'[k] = make_bakery_data(FALSE, my_ticket[k] + 1)
    BY <1>4 DEF TakeTicket, goto
  <2>5. my_ticket'[k] > 0 /\ lock_data'[k].number = my_ticket'[k]
    BY ONLY <2>1, <2>2, <2>3, <2>4
  <2>6. ~ lock_data'[k].choosing
    BY <2>3, <2>4
  <2> QED
    BY <1>4, <2>4, <2>5, <2>6 DEF Ticketed
<1>5. CASE i = k /\ ScanTicket(k)
  BY <1>5 DEF ScanTicket, WordInv, Ticketed
<1>6. CASE i = k /\ SignalEvent(k)
  BY <1>6 DEF SignalEvent, WordInv, goto, Ticketed
<1>7. pc[k] \notin Ticketed =>
        StartChoosing(k) \/ ScanTicket(k) \/ TakeTicket(k) \/ SignalEvent(k)
  BY DEF Step, Progress, Ticketed, SkipSelf, ReadContender, WakeOnEvent,
         WakeSpuriously, Recheck, Enter, DropTicket
<1> QED
  BY <1>1, <1>2, <1>3, <1>4, <1>5, <1>6, <1>7

\* The loop of bakery_lock_get moves past CPU j only when j cannot overtake.
LEMMA PassedMeansBefore ==
  ASSUME LoopInv, TicketInv, NEW k \in CPU, Step(k),
         NEW j \in CPU, k # j, HasPassed(k, j)'
  PROVE  pc[k] \in Ticketed /\ GoesBefore(k, j)
<1> USE DEF LoopInv, TypeOK, TicketInv
<1>1. CASE HasPassed(k, j)
  BY <1>1 DEF OrderInv, HasPassed, Ticketed
<1>2. CASE SkipSelf(k)
  BY <1>2, <1>1, ConstantFacts DEF SkipSelf, HasPassed, Ticketed
<1>3. CASE ReadContender(k)
  <2>1. pc[k] = "wait"
    BY <1>3 DEF ReadContender
  <2>2. CASE they[k] # j
    BY <1>1, <1>3, <2>1, <2>2, ConstantFacts DEF ReadContender, HasPassed, goto, Ticketed
  <2>3. CASE they[k] = j
    <3>1. /\ ~ lock_data[j].choosing
          /\ they'[k] # j => ~ HasPriorityOver(lock_data[j].number, j, k)
      BY <1>3, <2>3 DEF ReadContender, bakery_ticket_number, bakery_is_choosing
    <3>2. they'[k] # j
      BY <1>3, <2>1, <2>3, ConstantFacts DEF ReadContender, HasPassed, goto
    <3>3. pc[j] \in Ticketed => lock_data[j].number = my_ticket[j] /\ my_ticket[j] > 0
      BY DEF WordInv
    <3>4. pc[j] \in Ticketed => Priority(k) < Priority(j)
      <4> SUFFICES ASSUME pc[j] \in Ticketed PROVE Priority(k) < Priority(j)
        OBVIOUS
      <4>1. ~ (bakery_get_priority(my_ticket[j], j) < bakery_get_priority(my_ticket[k], k))
        BY <3>1, <3>2, <3>3 DEF HasPriorityOver
      <4>2. /\ bakery_get_priority(my_ticket[j], j) \in Nat
            /\ bakery_get_priority(my_ticket[k], k) \in Nat
            /\ bakery_get_priority(my_ticket[j], j) # bakery_get_priority(my_ticket[k], k)
        BY PriorityOrder
      <4> QED
        BY <4>1, <4>2 DEF Priority
    <3>5. pc[j] # "scan"
      BY <3>1 DEF WordInv
    <3> QED
      BY <2>1, <3>4, <3>5 DEF GoesBefore, Ticketed
  <2> QED
    BY <2>2, <2>3
<1>4. CASE Recheck(k)
  <2>1. pc[k] = "recheck" /\ pc[k] \in Ticketed
    BY <1>4 DEF Recheck, Ticketed
  <2>2. CASE they[k] # j
    BY <1>1, <1>4, <2>1, <2>2, ConstantFacts DEF Recheck, HasPassed, goto
  <2>3. CASE they[k] = j
    <3>1. lock_data[j].number # their_ticket[k]
      BY <1>4, <2>3, ConstantFacts DEF Recheck, HasPassed, goto, bakery_ticket_number
    <3> QED
      BY <2>1, <2>3, <3>1 DEF WaitInv
  <2> QED
    BY <2>2, <2>3
<1>5. CASE Enter(k)
  BY <1>1, <1>5, ConstantFacts DEF Enter, HasPassed
<1>6. CASE WakeOnEvent(k) \/ WakeSpuriously(k)
  BY <1>1, <1>6 DEF WakeOnEvent, WakeSpuriously, HasPassed, goto, locals
<1>7. CASE StartChoosing(k) \/ DropTicket(k) \/ SignalEvent(k)
  BY <1>7 DEF StartChoosing, DropTicket, SignalEvent, HasPassed, goto
<1>8. CASE ScanTicket(k)
  BY <1>8 DEF ScanTicket, HasPassed
<1>9. CASE TakeTicket(k)
  BY <1>9, ConstantFacts DEF TakeTicket, HasPassed, goto
<1> QED
  BY <1>2, <1>3, <1>4, <1>5, <1>6, <1>7, <1>8, <1>9 DEF Step, Progress

\* Every step keeps the order that the loop of bakery_lock_get has established.
LEMMA OrderInvKept ==
  ASSUME LoopInv, TicketInv, NoWrap', NEW k \in CPU, Step(k)
  PROVE  OrderInv'
<1> SUFFICES ASSUME NEW i \in CPU, NEW j \in CPU, i # j, HasPassed(i, j)'
             PROVE  GoesBefore(i, j)'
  BY DEF OrderInv
<1>1. pc'[i] \in Ticketed
  BY DEF HasPassed, Ticketed
<1>2. pc[i] \in Ticketed /\ GoesBefore(i, j)
  <2>1. CASE i = k
    BY <2>1, PassedMeansBefore
  <2>2. CASE i # k
    BY <2>2, StepKeepsOthers DEF OthersKept, HasPassed, TicketInv, OrderInv, Ticketed
  <2> QED
    BY <2>1, <2>2
<1> QED
  BY <1>1, <1>2, GoesBeforeKept DEF TicketInv

\* Every step keeps what the wfe loop knows of the ticket it waits for.
LEMMA WaitInvKept ==
  ASSUME LoopInv, TicketInv, NoWrap', NEW k \in CPU, Step(k)
  PROVE  WaitInv'
<1> SUFFICES ASSUME NEW i \in CPU, pc'[i] \in {"wfe", "recheck"}
             PROVE  /\ HasPriorityOver(their_ticket[i], they[i], i)'
                    /\ \/ /\ pc'[they'[i]] \in Ticketed
                          /\ lock_data'[they'[i]].number = their_ticket'[i]
                       \/ GoesBefore(i, they[i])'
  BY DEF WaitInv
<1> USE DEF LoopInv, TypeOK
<1>1. CASE i = k /\ ReadContender(k)
  <2>0. they[i] \in CPU
    BY <1>1, ConstantFacts DEF ReadContender, CPU
  <2>1. /\ pc[i] = "wait" /\ they[i] \in CPU /\ they[i] # i
        /\ they'[i] = they[i] /\ lock_data' = lock_data /\ my_ticket' = my_ticket
        /\ their_ticket'[i] = lock_data[they[i]].number
        /\ HasPriorityOver(lock_data[they[i]].number, they[i], i)
        /\ ~ lock_data[they[i]].choosing
    BY <1>1, <2>0 DEF ReadContender, goto, bakery_ticket_number, bakery_is_choosing
  <2>2. HasPriorityOver(their_ticket[i], they[i], i)'
    BY <2>1 DEF HasPriorityOver
  <2>3. pc[they[i]] \in Ticketed
    BY <2>1 DEF TicketInv, WordInv, HasPriorityOver, Ticketed
  <2>4. pc'[they[i]] = pc[they[i]]
    BY <1>1, <2>1, StepKeepsOthers DEF OthersKept
  <2> QED
    BY <2>1, <2>2, <2>3, <2>4
<1>2. CASE ~ (i = k /\ ReadContender(k))
  <2>1. /\ pc[i] \in {"wfe", "recheck"} /\ they'[i] = they[i]
        /\ their_ticket'[i] = their_ticket[i]
    <3>1. CASE i # k
      BY <3>1, StepKeepsOthers DEF OthersKept
    <3>2. CASE i = k /\ (WakeOnEvent(k) \/ WakeSpuriously(k) \/ Recheck(k))
      BY <3>2 DEF WakeOnEvent, WakeSpuriously, Recheck, goto, locals
    <3>3. ASSUME i = k
          PROVE  /\ ~ StartChoosing(k) /\ ~ TakeTicket(k) /\ ~ SkipSelf(k)
                 /\ ~ Enter(k) /\ ~ DropTicket(k) /\ ~ SignalEvent(k) /\ ~ ScanTicket(k)
      BY <3>3 DEF StartChoosing, TakeTicket, SkipSelf, Enter, DropTicket, SignalEvent,
                  ScanTicket, goto
    <3> QED
      BY <1>2, <3>1, <3>2, <3>3 DEF Step, Progress
  <2>2. they[i] \in CPU /\ they[i] # i
    BY <2>1 DEF WaitsForAnother
  <2>3. my_ticket'[i] = my_ticket[i] /\ pc[i] \in Ticketed /\ pc'[i] \in Ticketed
    BY <2>1, StepKeepsOthers, TicketedStep DEF OthersKept, Ticketed
  <2>4. HasPriorityOver(their_ticket[i], they[i], i)'
    BY <2>1, <2>3 DEF TicketInv, WaitInv, HasPriorityOver
  <2>5. CASE GoesBefore(i, they[i])
    BY <2>1, <2>2, <2>3, <2>4, <2>5, GoesBeforeKept DEF TicketInv
  <2>6. CASE pc[they[i]] \in Ticketed /\ lock_data[they[i]].number = their_ticket[i]
    <3>1. \/ pc'[they[i]] \in Ticketed /\ lock_data'[they[i]] = lock_data[they[i]]
          \/ pc'[they[i]] = "sev"
      BY <2>2, <2>6, StepKeepsOthers, TicketedStep DEF OthersKept
    <3> QED
      BY <2>1, <2>4, <2>6, <3>1 DEF GoesBefore
  <2> QED
    BY <2>1, <2>5, <2>6 DEF TicketInv, WaitInv
<1> QED
  BY <1>1, <1>2

\* The inductive invariant: kept by every step in which no ticket wraps.
LEMMA TicketInvInductive ==
  LoopInv /\ TicketInv /\ NoWrap' /\ [Next]_vars => TicketInv'
<1> SUFFICES ASSUME LoopInv, TicketInv, NoWrap', [Next]_vars PROVE TicketInv'
  OBVIOUS
<1>1. ASSUME NEW k \in CPU, Step(k) PROVE TicketInv'
  BY <1>1, WordInvKept, OrderInvKept, WaitInvKept DEF TicketInv
<1>2. CASE UNCHANGED vars
  BY <1>2 DEF vars, TicketInv, WordInv, OrderInv, WaitInv, GoesBefore, HasPassed,
              Priority, HasPriorityOver
<1> QED
  BY <1>1, <1>2 DEF Next, Step

\* The inductive invariant holds as long as no ticket wraps.
LEMMA TicketInvHolds == Spec /\ []NoWrap => [](LoopInv /\ TicketInv)
<1>1. Init => TicketInv
  BY ConstantFacts DEF Init, TicketInv, WordInv, OrderInv, WaitInv, GoesBefore,
                       HasPassed, Ticketed, NoTicket
<1> QED
  BY <1>1, LoopInvHolds, TicketInvInductive, PTL DEF Spec

\* The inductive invariant implies the safety invariants of the lock.
LEMMA TicketInvImplies ==
  ASSUME LoopInv, TicketInv
  PROVE  OwnerHasPriority /\ MutualExclusion
<1>1. OwnerHasPriority
  BY DEF TicketInv, OrderInv, HasPassed, GoesBefore, Ticketed, OwnerHasPriority, Priority
<1>2. MutualExclusion
  <2> SUFFICES ASSUME NEW i \in CPU, NEW j \in CPU, pc[i] = "cs", pc[j] = "cs", i # j
               PROVE  FALSE
    BY DEF MutualExclusion
  <2>1. Priority(i) < Priority(j) /\ Priority(j) < Priority(i)
    BY <1>1 DEF OwnerHasPriority, Priority, Ticketed
  <2>2. Priority(i) \in Nat /\ Priority(j) \in Nat
    BY PriorityOrder DEF Priority, LoopInv, TypeOK
  <2> QED
    BY <2>1, <2>2
<1> QED
  BY <1>1, <1>2

\* bakery_lock_get lets one CPU at a time through, for any number of CPUs up to
\* 256, as long as no ticket outgrows its field.
THEOREM BakeryMutualExclusion == Spec /\ []NoWrap => []MutualExclusion
BY TicketInvHolds, TicketInvImplies, PTL

\* The owner's priority is before that of every CPU that holds a ticket, for any
\* number of CPUs up to 256, as long as no ticket outgrows its field.
THEOREM BakeryOwnerHasPriority == Spec /\ []NoWrap => []OwnerHasPriority
BY TicketInvHolds, TicketInvImplies, PTL

\* The wfe loop cannot mistake a new ticket for the one it waits for: the new
\* one is behind the waiting CPU's own ticket.
LEMMA NoRecurrenceStep ==
  ASSUME LoopInv, TicketInv, LoopInv', TicketInv', [Next]_vars,
         NEW i \in CPU, pc[i] \in {"wfe", "recheck"}, pc'[i] \in {"wfe", "recheck"},
         bakery_ticket_number(lock_data[they[i]]) # their_ticket[i]
  PROVE  bakery_ticket_number(lock_data'[they[i]]) # their_ticket[i]
<1> DEFINE j == they[i]
<1> USE DEF LoopInv, TypeOK
<1>1. j \in CPU /\ j # i
  BY DEF WaitsForAnother
<1>2. CASE UNCHANGED vars
  BY <1>2 DEF vars
<1>3. ASSUME NEW k \in CPU, Step(k)
      PROVE  bakery_ticket_number(lock_data'[j]) # their_ticket[i]
  <2>1. GoesBefore(i, j) /\ HasPriorityOver(their_ticket[i], j, i) /\ pc[i] \in Ticketed
    BY DEF TicketInv, WaitInv, bakery_ticket_number, Ticketed
  <2>2. CASE k # j
    BY <1>1, <1>3, <2>2, StepKeepsOthers DEF OthersKept
  <2>3. CASE k = j /\ pc'[j] \notin Ticketed
    <3>1. lock_data'[j].number = 0
      BY <1>1, <2>3 DEF TicketInv, WordInv, Ticketed
    <3> QED
      BY <2>1, <3>1 DEF HasPriorityOver, bakery_ticket_number
  <2>4. CASE k = j /\ pc[j] \in Ticketed /\ pc'[j] \in Ticketed
    <3>1. lock_data'[j] = lock_data[j]
      BY <1>1, <1>3, <2>4, TicketedStep DEF Ticketed
    <3> QED
      BY <3>1
  <2>5. CASE k = j /\ pc[j] \notin Ticketed /\ pc'[j] \in Ticketed
    <3>1. TakeTicket(j)
      <4>1. /\ ~ StartChoosing(j) /\ ~ ScanTicket(j) /\ ~ SignalEvent(j)
            /\ ~ DropTicket(j)
        BY <1>1, <2>5 DEF StartChoosing, ScanTicket, SignalEvent, DropTicket,
                          Ticketed, goto
      <4>2. /\ ~ SkipSelf(j) /\ ~ ReadContender(j) /\ ~ WakeOnEvent(j)
            /\ ~ WakeSpuriously(j) /\ ~ Recheck(j) /\ ~ Enter(j)
        BY <2>5 DEF SkipSelf, ReadContender, WakeOnEvent, WakeSpuriously, Recheck,
                    Enter, Ticketed
      <4> QED
        BY <1>3, <2>5, <4>1, <4>2 DEF Step, Progress
    <3>2. my_ticket[j] >= my_ticket[i] /\ my_ticket'[j] = my_ticket[j] + 1
      BY <1>1, <2>1, <3>1, ConstantFacts DEF TakeTicket, GoesBefore, Ticketed
    <3>3. lock_data'[j].number = my_ticket[j] + 1
      BY <1>1, <2>5, <3>2 DEF TicketInv, WordInv
    <3>4. my_ticket[i] \in Nat /\ my_ticket[j] + 1 \in Nat /\ my_ticket[i] < my_ticket[j] + 1
      BY <1>1, <3>2
    <3>5. /\ bakery_get_priority(my_ticket[i], i) < bakery_get_priority(my_ticket[j] + 1, j)
          /\ bakery_get_priority(my_ticket[i], i) \in Nat
          /\ bakery_get_priority(my_ticket[j] + 1, j) \in Nat
      BY <1>1, <3>4, PriorityOrder
    <3>6. my_ticket[j] + 1 # their_ticket[i]
      BY <2>1, <3>5 DEF HasPriorityOver
    <3> QED
      BY <3>3, <3>6 DEF bakery_ticket_number
  <2> QED
    BY <2>2, <2>3, <2>4, <2>5
<1> QED
  BY <1>2, <1>3 DEF Next, Step

\* Once the ticket that a CPU waits for in its wfe loop is gone, its number does
\* not come back before the CPU has left the loop.
THEOREM BakeryTicketNeverRecurs == Spec /\ []NoWrap => AwaitedTicketNeverRecurs
<1>1. LoopInv /\ TicketInv /\ LoopInv' /\ TicketInv' /\ [Next]_vars =>
        [\A i \in CPU :
           /\ pc[i] \in {"wfe", "recheck"} /\ pc'[i] \in {"wfe", "recheck"}
           /\ bakery_ticket_number(lock_data[they[i]]) # their_ticket[i]
           => bakery_ticket_number(lock_data'[they[i]]) # their_ticket[i]]_vars
  BY NoRecurrenceStep
<1> QED
  BY <1>1, TicketInvHolds, PTL DEF Spec, AwaitedTicketNeverRecurs

-----------------------------------------------------------------------------
(* Refinement of the abstract lock.                                        *)

\* Every step of the bakery lock is a step of the abstract lock or a stutter.
LEMMA StepRefines ==
  ASSUME LoopInv, MutualExclusion', [Next]_vars
  PROVE  [Lock!Next]_lockState
<1> USE DEF LoopInv, TypeOK
<1>1. ASSUME NEW i \in CPU, StartChoosing(i) PROVE [Lock!Next]_lockState
  <2>1. Lock!Request(i)
    BY <1>1 DEF StartChoosing, goto, Lock!Request, lockState
  <2> QED
    BY <2>1 DEF Lock!Next
<1>2. ASSUME NEW i \in CPU, Enter(i) PROVE [Lock!Next]_lockState
  <2>1. \A j \in CPU : pc[j] # "cs"
    <3> SUFFICES ASSUME NEW j \in CPU, pc[j] = "cs" PROVE FALSE
      OBVIOUS
    <3>1. pc'[i] = "cs" /\ pc'[j] = "cs" /\ i # j
      BY <1>2 DEF Enter, goto
    <3> QED
      BY <3>1 DEF MutualExclusion
  <2>2. Lock!Acquire(i)
    BY <1>2, <2>1 DEF Enter, goto, Lock!Acquire, lockState
  <2> QED
    BY <2>2 DEF Lock!Next
<1>3. ASSUME NEW i \in CPU, DropTicket(i) PROVE [Lock!Next]_lockState
  <2>1. Lock!Release(i)
    BY <1>3 DEF DropTicket, goto, Lock!Release, lockState
  <2> QED
    BY <2>1 DEF Lock!Next
<1>4. ASSUME NEW i \in CPU, ScanTicket(i) \/ SkipSelf(i) PROVE UNCHANGED lockState
  BY <1>4 DEF ScanTicket, SkipSelf, lockState
<1>5. ASSUME NEW i \in CPU, TakeTicket(i) PROVE UNCHANGED lockState
  BY <1>5 DEF TakeTicket, goto, lockState
<1>6. ASSUME NEW i \in CPU, ReadContender(i) PROVE UNCHANGED lockState
  BY <1>6 DEF ReadContender, goto, lockState
<1>7. ASSUME NEW i \in CPU, WakeOnEvent(i) \/ WakeSpuriously(i) PROVE UNCHANGED lockState
  BY <1>7 DEF WakeOnEvent, WakeSpuriously, goto, lockState
<1>8. ASSUME NEW i \in CPU, Recheck(i) PROVE UNCHANGED lockState
  BY <1>8 DEF Recheck, goto, lockState
<1>9. ASSUME NEW i \in CPU, SignalEvent(i) PROVE UNCHANGED lockState
  BY <1>9 DEF SignalEvent, goto, lockState
<1>10. CASE UNCHANGED vars
  BY <1>10 DEF vars, lockState
<1> QED
  BY <1>1, <1>2, <1>3, <1>4, <1>5, <1>6, <1>7, <1>8, <1>9, <1>10 DEF Next, Progress

\* bakery_lock_get and bakery_lock_release implement the abstract lock, for any
\* number of CPUs up to 256, as long as no ticket outgrows its field.
THEOREM BakeryImplementsLock == Spec /\ []NoWrap => ImplementsLock
<1>1. Init => Lock!Init
  BY DEF Init, Lock!Init, lockState
<1>2. LoopInv /\ MutualExclusion' /\ [Next]_vars => [Lock!Next]_lockState
  BY StepRefines
<1> QED
  BY <1>1, <1>2, LoopInvHolds, BakeryMutualExclusion, PTL DEF Spec, ImplementsLock, Lock!Spec
=============================================================================
