------------------------------ MODULE EhfProofs ------------------------------
(***************************************************************************)
(* The exception handling framework keeps its promises for every set of    *)
(* priority levels and every mask of the Non-secure world.                 *)
(*                                                                         *)
(* What the PE will find once all dispatches have completed is decided by  *)
(* the world below the outermost one: the mask to return to is the PMR, or *)
(* init_pri_mask while a level is active, and together with the stash it   *)
(* tells whether a Secure call is in progress and whether it yields.       *)
(***************************************************************************)
EXTENDS Ehf, SequenceTheorems, WellFoundedInduction, TLAPS

Frame == [kind : {"intr", "explicit"}, pri : Priority, from : {"NS", "S"}]

Data == [active_pri_bits : SUBSET Priority, init_pri_mask : Nat, ns_pri_mask : Nat,
         pmr : Nat, error : {"", "order", "mask", "stash"}]

TypeInv ==
  /\ pe \in Data
  /\ frames \in Seq(Frame)
  /\ world \in {"NS", "EL3", "S"}
  /\ yielding \in BOOLEAN
  /\ nsPmr \in NsMask

\* The levels that are active are those of the explicit dispatches.
ActiveInv ==
  \A p \in Priority :
    p \in pe.active_pri_bits <=>
      \E i \in DOMAIN frames : frames[i].kind = "explicit" /\ frames[i].pri = p

\* Dispatches nest, and the mask keeps out what is not above the active levels.
NestInv ==
  /\ \A i, j \in DOMAIN frames : i < j => frames[j].pri < frames[i].pri
  /\ \A q \in pe.active_pri_bits : pe.pmr <= q

\* A Secure call that a dispatch interrupted is the only one, and an interrupt did it.
SecureFrameInv ==
  \A i \in DOMAIN frames : frames[i].from = "S" =>
    /\ world = "NS"
    /\ frames[i].kind = "intr"
    /\ \A j \in DOMAIN frames : frames[j].from = "S" => j = i

BaseMask == IF pe.active_pri_bits = {} THEN pe.pmr ELSE pe.init_pri_mask
OuterWorld == IF frames = <<>> THEN world ELSE frames[1].from

MaskInv ==
  IF OuterWorld # "NS" /\ ~yielding
  THEN BaseMask = GIC_HIGHEST_NS_PRIORITY /\ pe.ns_pri_mask = nsPmr
  ELSE /\ BaseMask = nsPmr /\ pe.ns_pri_mask = 0
       /\ OuterWorld = "NS" => ~yielding

EhfInv ==
  /\ TypeInv
  /\ ChecksFailInsideDispatch
  /\ halt = "" => /\ pe.error = ""
                  /\ ActiveInv /\ NestInv /\ SecureFrameInv /\ MaskInv

-----------------------------------------------------------------------------
(* Helpers.                                                                *)

\* A set of naturals that is not empty has a least member, and Min is it.
LEMMA LeastLevel ==
  ASSUME NEW S, S \subseteq Nat, S # {}
  PROVE  Min(S) \in S /\ \A q \in S : Min(S) <= q
<1>1. PICK x \in S : \A q \in S : ~ (<<q, x>> \in OpToRel(<, Nat))
  BY ONLY NatLessThanWellFounded, WFMin, S \subseteq Nat, S # {}
<1>2. ASSUME NEW q \in S PROVE x <= q
  <2>1. x \in Nat /\ q \in Nat
    OBVIOUS
  <2>2. q < x => <<q, x>> \in OpToRel(<, Nat)
    BY ONLY <2>1 DEF OpToRel
  <2>3. ~ (q < x)
    BY ONLY <1>1, <2>2, q \in S, Zenon
  <2> QED
    BY ONLY <2>1, <2>3
<1> QED
  BY <1>2 DEF Min

\* The priorities of the Non-secure world are numbers above every secure level.
LEMMA LevelFacts ==
  /\ Priority \subseteq Nat /\ NsMask \subseteq Nat
  /\ GIC_HIGHEST_NS_PRIORITY \in Nat /\ GIC_HIGHEST_NS_PRIORITY # 0
  /\ GIC_PRI_MASK \in NsMask
  /\ \A p \in Priority : p < GIC_HIGHEST_NS_PRIORITY
  /\ \A m \in NsMask : m \in Nat /\ m >= GIC_HIGHEST_NS_PRIORITY /\ m # 0
<1>1. PICK p \in Priority : p \in Nat \ {0} /\ p < GIC_HIGHEST_NS_PRIORITY
  BY PriorityAssumption
<1>2. GIC_HIGHEST_NS_PRIORITY \in Nat /\ GIC_HIGHEST_NS_PRIORITY # 0
  BY <1>1, PriorityAssumption
<1>3. \A m \in NsMask : m \in Nat /\ m >= GIC_HIGHEST_NS_PRIORITY /\ m # 0
  BY <1>2, PriorityAssumption
<1> QED
  BY <1>2, <1>3, PriorityAssumption

\* The dispatches of the stack, from the outermost at 1 to the innermost.
LEMMA StackFacts ==
  ASSUME NEW f \in Seq(Frame)
  PROVE  /\ Len(f) \in Nat /\ DOMAIN f = 1..Len(f)
         /\ \A i \in DOMAIN f : i \in Nat /\ f[i] \in Frame
         /\ f = <<>> <=> Len(f) = 0
         /\ f = <<>> <=> DOMAIN f = {}
         /\ f # <<>> => 1 \in DOMAIN f /\ Len(f) \in DOMAIN f
<1>1. Len(f) \in Nat /\ DOMAIN f = 1..Len(f)
  OBVIOUS
<1>2. \A i \in DOMAIN f : i \in Nat /\ f[i] \in Frame
  OBVIOUS
<1>3. f = <<>> <=> Len(f) = 0
  BY EmptySeq
<1> QED
  BY ONLY <1>1, <1>2, <1>3

\* The running priority is the idle one or that of an interrupt in progress, whichever is
\* least.
LEMMA RunningFacts ==
  ASSUME TypeInv
  PROVE  /\ RunningPriority \in Nat
         /\ \A i \in DOMAIN frames :
              frames[i].kind = "intr" => RunningPriority <= frames[i].pri
         /\ \/ RunningPriority = GIC_PRI_MASK
            \/ \E i \in DOMAIN frames :
                 frames[i].kind = "intr" /\ RunningPriority = frames[i].pri
<1>1. \A i \in DOMAIN frames : frames[i] \in Frame
  BY StackFacts DEF TypeInv
<1> DEFINE S == {frames[i].pri : i \in {j \in DOMAIN frames : frames[j].kind = "intr"}}
                  \cup {GIC_PRI_MASK}
<1>2. S \subseteq Nat
  BY <1>1, LevelFacts DEF Frame
<1>3. RunningPriority = Min(S)
  BY DEF RunningPriority
<1>4. Min(S) \in S /\ \A q \in S : Min(S) <= q
  BY <1>2, LeastLevel
<1> HIDE DEF S
<1>5. \A i \in DOMAIN frames : frames[i].kind = "intr" => frames[i].pri \in S
  BY DEF S
<1>6. \/ Min(S) = GIC_PRI_MASK
      \/ \E i \in DOMAIN frames : frames[i].kind = "intr" /\ Min(S) = frames[i].pri
  BY <1>4 DEF S
<1> QED
  BY <1>2, <1>3, <1>4, <1>5, <1>6

\* While a dispatch is in progress, an interrupt is being handled or a level is active.
LEMMA DispatchFacts ==
  ASSUME TypeInv, ActiveInv, frames # <<>>
  PROVE  IS_PRI_SECURE(RunningPriority) \/ has_valid_pri_activations(pe)
<1>1. 1 \in DOMAIN frames /\ frames[1] \in Frame
  BY StackFacts DEF TypeInv
<1>2. CASE frames[1].kind = "intr"
  <2>1. RunningPriority \in Nat /\ RunningPriority <= frames[1].pri
    BY <1>1, <1>2, RunningFacts
  <2>2. frames[1].pri \in Nat /\ frames[1].pri < GIC_HIGHEST_NS_PRIORITY
    BY <1>1, LevelFacts DEF Frame
  <2>3. RunningPriority < GIC_HIGHEST_NS_PRIORITY
    BY ONLY <2>1, <2>2, LevelFacts
  <2> QED
    BY <2>3 DEF IS_PRI_SECURE
<1>3. CASE frames[1].kind = "explicit"
  BY <1>1, <1>3 DEF ActiveInv, has_valid_pri_activations, Frame
<1> QED
  BY <1>1, <1>2, <1>3 DEF Frame

\* Without a dispatch neither is the case.
LEMMA QuietFacts ==
  ASSUME TypeInv, ActiveInv, frames = <<>>
  PROVE  /\ RunningPriority = GIC_PRI_MASK
         /\ ~IS_PRI_SECURE(RunningPriority)
         /\ pe.active_pri_bits = {} /\ DOMAIN frames = {}
<1>1. DOMAIN frames = {}
  OBVIOUS
<1>2. RunningPriority = GIC_PRI_MASK
  BY <1>1, RunningFacts
<1>3. pe.active_pri_bits = {}
  BY <1>1 DEF ActiveInv, TypeInv, Data
<1> QED
  BY <1>1, <1>2, <1>3, LevelFacts DEF IS_PRI_SECURE

\* Appending a dispatch.
LEMMA AppendFacts ==
  ASSUME NEW f \in Seq(Frame), NEW x \in Frame
  PROVE  /\ Append(f, x) \in Seq(Frame) /\ Append(f, x) # <<>>
         /\ Len(Append(f, x)) = Len(f) + 1 /\ Len(f) \in Nat
         /\ DOMAIN Append(f, x) = DOMAIN f \cup {Len(f) + 1}
         /\ \A i \in DOMAIN f : Append(f, x)[i] = f[i] /\ i < Len(f) + 1
         /\ Append(f, x)[Len(f) + 1] = x
         /\ Len(f) + 1 \notin DOMAIN f
OBVIOUS

\* Removing the innermost one.
LEMMA FrontFacts ==
  ASSUME NEW f \in Seq(Frame), f # <<>>
  PROVE  /\ Front(f) \in Seq(Frame)
         /\ DOMAIN Front(f) = DOMAIN f \ {Len(f)}
         /\ \A i \in DOMAIN Front(f) : Front(f)[i] = f[i] /\ i < Len(f)
         /\ Len(f) \in DOMAIN f /\ Last(f) = f[Len(f)] /\ Last(f) \in Frame
<1>1. Len(f) \in Nat \ {0} /\ DOMAIN f = 1..Len(f) /\ \A i \in 1..Len(f) : f[i] \in Frame
  BY StackFacts
<1>2. /\ Front(f) \in Seq(Frame) /\ Len(Front(f)) = Len(f) - 1
      /\ \A i \in 1..(Len(f) - 1) : Front(f)[i] = f[i]
  <2>1. \A i \in 1..(Len(f) - 1) : f[i] \in Frame
    BY <1>1
  <2>2. /\ SubSeq(f, 1, Len(f) - 1) \in Seq(Frame)
        /\ Len(SubSeq(f, 1, Len(f) - 1)) = IF 1 <= Len(f) - 1 THEN Len(f) - 1 - 1 + 1 ELSE 0
        /\ \A i \in 1 .. Len(f) - 1 - 1 + 1 : SubSeq(f, 1, Len(f) - 1)[i] = f[1 + i - 1]
    BY <1>1, <2>1, SubSeqProperties
  <2> QED
    BY <1>1, <2>2 DEF Front
<1>3. DOMAIN Front(f) = 1..(Len(f) - 1)
  BY <1>1, <1>2
<1> QED
  BY <1>1, <1>2, <1>3 DEF Last

-----------------------------------------------------------------------------
(* One lemma for each action.                                              *)

\* A step that leaves the data, the dispatches and the worlds alone.
LEMMA QuietStep ==
  ASSUME EhfInv, UNCHANGED <<pe, frames, world, yielding, nsPmr>>,
         halt' = halt \/ (halt = "" /\ halt' = "handler")
  PROVE  EhfInv'
BY DEF EhfInv, TypeInv, ChecksFailInsideDispatch, ActiveInv, NestInv, SecureFrameInv, MaskInv,
       BaseMask, OuterWorld

\* The PE starts in the Non-secure world, with the mask it programmed and no dispatch.
LEMMA InitStep == Init => EhfInv
<1> SUFFICES ASSUME Init PROVE EhfInv
  OBVIOUS
<1>1. frames = <<>> /\ frames \in Seq(Frame) /\ DOMAIN frames = {}
  <2>1. frames = <<>>
    BY DEF Init
  <2> QED
    BY ONLY <2>1
<1>2. TypeInv
  BY <1>1, LevelFacts DEF Init, TypeInv, Data, InitialData
<1>3. ActiveInv /\ NestInv /\ SecureFrameInv
  BY <1>1 DEF Init, InitialData, ActiveInv, NestInv, SecureFrameInv
<1>4. MaskInv
  BY <1>1 DEF Init, InitialData, MaskInv, BaseMask, OuterWorld
<1> QED
  BY <1>2, <1>3, <1>4 DEF EhfInv, Init, InitialData, ChecksFailInsideDispatch

\* The mask the Non-secure world programs is the one to return to: no level is active
\* where the GIC takes the write, and no Secure call is in progress below.
LEMMA NsWritesMaskStep ==
  ASSUME EhfInv, NEW m \in NsMask, NsWritesMask(m)
  PROVE  EhfInv'
<1>1. /\ TypeInv /\ ActiveInv /\ NestInv /\ SecureFrameInv /\ MaskInv /\ pe.error = ""
      /\ halt = "" /\ world = "NS" /\ ~IS_PRI_SECURE(pe.pmr)
      /\ \A i \in DOMAIN frames : frames[i].from # "S"
      /\ nsPmr' = m /\ pe' = [pe EXCEPT !.pmr = m]
      /\ UNCHANGED <<frames, world, yielding, halt>>
  BY DEF EhfInv, NsWritesMask
<1>2. pe.active_pri_bits = {}
  <2> SUFFICES ASSUME NEW q \in pe.active_pri_bits PROVE FALSE
    OBVIOUS
  <2>1. q \in Nat /\ q < GIC_HIGHEST_NS_PRIORITY /\ GIC_HIGHEST_NS_PRIORITY \in Nat
    BY <1>1, LevelFacts DEF TypeInv, Data
  <2>2. pe.pmr \in Nat /\ pe.pmr <= q
    BY <1>1 DEF NestInv, TypeInv, Data
  <2>3. pe.pmr < GIC_HIGHEST_NS_PRIORITY
    BY ONLY <2>1, <2>2
  <2> QED
    BY <1>1, <2>3 DEF IS_PRI_SECURE
<1>3. OuterWorld = "NS" /\ OuterWorld' = "NS"
  <2>1. frames # <<>> => 1 \in DOMAIN frames /\ frames[1] \in Frame
    BY <1>1, StackFacts DEF TypeInv
  <2> QED
    BY <1>1, <2>1 DEF OuterWorld, Frame
<1>4. TypeInv'
  BY <1>1, LevelFacts DEF TypeInv, Data
<1>5. pe'.pmr = m /\ pe'.active_pri_bits = {} /\ pe'.ns_pri_mask = pe.ns_pri_mask /\ pe'.error = ""
  BY <1>1, <1>2 DEF TypeInv, Data
<1>6. ActiveInv' /\ NestInv' /\ SecureFrameInv'
  BY <1>1, <1>2, <1>5 DEF ActiveInv, NestInv, SecureFrameInv
<1>7. MaskInv'
  BY <1>1, <1>2, <1>3, <1>5 DEF MaskInv, BaseMask
<1> QED
  BY <1>1, <1>4, <1>5, <1>6, <1>7 DEF EhfInv, ChecksFailInsideDispatch

\* Outside a dispatch the Secure call stashes the mask; inside one nothing changes.
LEMMA SaveNormalContextStep ==
  ASSUME EhfInv, SaveNormalContext
  PROVE  EhfInv'
<1>1. /\ TypeInv /\ ActiveInv /\ NestInv /\ MaskInv /\ pe.error = "" /\ halt = "" /\ world = "NS"
      /\ pe' = ehf_exited_normal_world(pe, RunningPriority) /\ halt' = pe'.error
      /\ world' = "EL3" /\ UNCHANGED <<frames, yielding, nsPmr>>
      /\ \A i \in DOMAIN frames : frames[i].from # "S"
  BY DEF EhfInv, SaveNormalContext, Becomes
<1>2. SecureFrameInv'
  BY <1>1 DEF SecureFrameInv
<1>3. CASE frames = <<>>
  <2>1. DOMAIN frames = {} /\ pe.active_pri_bits = {} /\ ~IS_PRI_SECURE(RunningPriority)
    BY <1>1, <1>3, QuietFacts
  <2>2. pe.pmr = nsPmr /\ pe.ns_pri_mask = 0 /\ ~yielding
    BY <1>1, <1>3, <2>1 DEF MaskInv, BaseMask, OuterWorld
  <2>3. ~IS_PRI_SECURE(pe.pmr)
    <3>1. nsPmr \in NsMask
      BY <1>1 DEF TypeInv
    <3> QED
      BY <2>2, <3>1, LevelFacts DEF IS_PRI_SECURE
  <2>4. pe' = [pe EXCEPT !.ns_pri_mask = pe.pmr, !.pmr = GIC_HIGHEST_NS_PRIORITY, !.error = ""]
    BY <1>1, <2>1, <2>2, <2>3 DEF ehf_exited_normal_world, has_valid_pri_activations
  <2>5. /\ pe'.pmr = GIC_HIGHEST_NS_PRIORITY /\ pe'.ns_pri_mask = nsPmr /\ pe'.error = ""
        /\ pe'.active_pri_bits = {}
    BY <1>1, <2>1, <2>2, <2>4 DEF TypeInv, Data
  <2>6. TypeInv'
    BY <1>1, <2>4, LevelFacts DEF TypeInv, Data
  <2>7. ActiveInv' /\ NestInv'
    BY <1>1, <2>1, <2>5 DEF ActiveInv, NestInv
  <2>8. MaskInv'
    BY <1>1, <1>3, <2>2, <2>5 DEF MaskInv, BaseMask, OuterWorld
  <2> QED
    BY <1>1, <1>2, <2>5, <2>6, <2>7, <2>8 DEF EhfInv, ChecksFailInsideDispatch
<1>4. CASE frames # <<>>
  <2>1. pe' = pe
    BY <1>1, <1>4, DispatchFacts DEF ehf_exited_normal_world
  <2>2. TypeInv' /\ ActiveInv' /\ NestInv'
    BY <1>1, <2>1 DEF TypeInv, ActiveInv, NestInv
  <2>3. MaskInv'
    BY <1>1, <1>4, <2>1 DEF MaskInv, BaseMask, OuterWorld
  <2> QED
    BY <1>1, <1>2, <2>1, <2>2, <2>3 DEF EhfInv, ChecksFailInsideDispatch
<1> QED
  BY <1>3, <1>4

\* Below a dispatch of the Non-secure world the stash is empty.
LEMMA OuterNormal ==
  ASSUME TypeInv, SecureFrameInv, MaskInv, frames # <<>>, world # "NS"
  PROVE  OuterWorld = "NS" /\ pe.ns_pri_mask = 0 /\ ~yielding
<1>1. 1 \in DOMAIN frames /\ frames[1] \in Frame
  BY StackFacts DEF TypeInv
<1>2. OuterWorld = "NS"
  BY <1>1 DEF OuterWorld, SecureFrameInv, Frame
<1> QED
  BY <1>2 DEF MaskInv

\* A yielding call puts the stashed mask back; the stash is empty only inside a dispatch.
LEMMA AllowPreemptionStep ==
  ASSUME EhfInv, AllowPreemption
  PROVE  EhfInv'
<1>1. /\ TypeInv /\ ActiveInv /\ NestInv /\ SecureFrameInv /\ MaskInv /\ pe.error = ""
      /\ halt = "" /\ world = "EL3" /\ ~yielding /\ yielding' = TRUE
      /\ pe' = ehf_allow_ns_preemption(pe) /\ halt' = pe'.error
      /\ UNCHANGED <<frames, world, nsPmr>>
  BY DEF EhfInv, AllowPreemption, Becomes
<1>2. CASE frames # <<>>
  <2>1. pe.ns_pri_mask = 0
    BY <1>1, <1>2, OuterNormal
  <2>2. pe' = [pe EXCEPT !.error = "stash"]
    BY <1>1, <2>1 DEF ehf_allow_ns_preemption
  <2>3. TypeInv' /\ halt' = "stash"
    BY <1>1, <2>2 DEF TypeInv, Data
  <2> QED
    BY <1>1, <1>2, <2>3 DEF EhfInv, ChecksFailInsideDispatch
<1>3. CASE frames = <<>>
  <2>1. pe.active_pri_bits = {} /\ DOMAIN frames = {}
    BY <1>1, <1>3, QuietFacts
  <2>2. pe.ns_pri_mask = nsPmr /\ nsPmr # 0
    BY <1>1, <1>3, LevelFacts DEF MaskInv, OuterWorld, TypeInv, Data
  <2>3. pe' = [pe EXCEPT !.pmr = pe.ns_pri_mask, !.ns_pri_mask = 0]
    BY <1>1, <2>1, <2>2 DEF ehf_allow_ns_preemption, has_valid_pri_activations
  <2>4. pe'.pmr = nsPmr /\ pe'.ns_pri_mask = 0 /\ pe'.error = "" /\ pe'.active_pri_bits = {}
    BY <1>1, <2>1, <2>2, <2>3 DEF TypeInv, Data
  <2>5. TypeInv'
    <3>1. pe \in Data
      BY <1>1 DEF TypeInv
    <3>2. pe' \in Data
      BY ONLY <3>1, <2>3 DEF Data
    <3> QED
      BY <1>1, <3>2 DEF TypeInv
  <2>6. ActiveInv' /\ NestInv' /\ SecureFrameInv'
    BY <1>1, <2>1, <2>4 DEF ActiveInv, NestInv, SecureFrameInv
  <2>7. MaskInv'
    BY <1>1, <1>3, <2>4 DEF MaskInv, BaseMask, OuterWorld
  <2> QED
    BY <1>1, <2>4, <2>5, <2>6, <2>7 DEF EhfInv, ChecksFailInsideDispatch
<1> QED
  BY <1>2, <1>3

\* Entering the Secure world changes neither the mask nor the stash.
LEMMA EnterSecureStep ==
  ASSUME EhfInv, EnterSecure
  PROVE  EhfInv'
<1>1. /\ TypeInv /\ ActiveInv /\ NestInv /\ SecureFrameInv /\ MaskInv /\ pe.error = ""
      /\ halt = "" /\ world = "EL3" /\ world' = "S"
      /\ UNCHANGED <<pe, frames, yielding, nsPmr, halt>>
  BY DEF EhfInv, EnterSecure
<1>2. TypeInv' /\ ActiveInv' /\ NestInv'
  BY <1>1 DEF TypeInv, ActiveInv, NestInv
<1>3. SecureFrameInv'
  BY <1>1 DEF SecureFrameInv
<1>4. MaskInv'
  BY <1>1 DEF MaskInv, BaseMask, OuterWorld
<1> QED
  BY <1>1, <1>2, <1>3, <1>4 DEF EhfInv, ChecksFailInsideDispatch

\* Outside a dispatch the mask is restored from the stash, unless the call yielded.
LEMMA RestoreNormalContextStep ==
  ASSUME EhfInv, RestoreNormalContext
  PROVE  EhfInv'
<1>1. /\ TypeInv /\ ActiveInv /\ NestInv /\ SecureFrameInv /\ MaskInv /\ pe.error = ""
      /\ halt = "" /\ world = "S" /\ world' = "NS" /\ yielding' = FALSE
      /\ pe' = ehf_entering_normal_world(pe, RunningPriority) /\ halt' = pe'.error
      /\ UNCHANGED <<frames, nsPmr>>
  BY DEF EhfInv, RestoreNormalContext, Becomes
<1>2. SecureFrameInv'
  BY <1>1 DEF SecureFrameInv
<1>3. CASE frames # <<>>
  <2>1. pe' = pe
    BY <1>1, <1>3, DispatchFacts DEF ehf_entering_normal_world
  <2>2. OuterWorld = "NS" /\ ~yielding
    BY <1>1, <1>3, OuterNormal
  <2>3. TypeInv' /\ ActiveInv' /\ NestInv'
    BY <1>1, <2>1 DEF TypeInv, ActiveInv, NestInv
  <2>4. MaskInv'
    BY <1>1, <1>3, <2>1, <2>2 DEF MaskInv, BaseMask, OuterWorld
  <2> QED
    BY <1>1, <1>2, <2>1, <2>3, <2>4 DEF EhfInv, ChecksFailInsideDispatch
<1>4. CASE frames = <<>>
  <2>1. pe.active_pri_bits = {} /\ DOMAIN frames = {} /\ ~IS_PRI_SECURE(RunningPriority)
    BY <1>1, <1>4, QuietFacts
  <2>2. /\ nsPmr # 0
        /\ \/ pe.pmr = nsPmr /\ pe.ns_pri_mask = 0
           \/ pe.pmr = GIC_HIGHEST_NS_PRIORITY /\ pe.ns_pri_mask = nsPmr
    BY <1>1, <1>4, <2>1, LevelFacts DEF MaskInv, BaseMask, OuterWorld, TypeInv, Data
  <2>3. \/ pe' = pe /\ pe.pmr = nsPmr /\ pe.ns_pri_mask = 0
        \/ pe' = [pe EXCEPT !.pmr = nsPmr, !.error = "", !.ns_pri_mask = 0]
    BY <1>1, <2>1, <2>2 DEF ehf_entering_normal_world, has_valid_pri_activations
  <2>4. pe'.pmr = nsPmr /\ pe'.ns_pri_mask = 0 /\ pe'.error = "" /\ pe'.active_pri_bits = {}
    BY <1>1, <2>1, <2>3 DEF TypeInv, Data
  <2>5. pe' \in Data
    <3>1. pe \in Data /\ nsPmr \in Nat
      BY <1>1, LevelFacts DEF TypeInv, Data
    <3>2. [pe EXCEPT !.pmr = nsPmr, !.error = "", !.ns_pri_mask = 0] \in Data
      BY ONLY <3>1 DEF Data
    <3> QED
      BY ONLY <3>1, <3>2, <2>3
  <2>6. TypeInv'
    BY <1>1, <2>5 DEF TypeInv
  <2>7. ActiveInv' /\ NestInv'
    BY <1>1, <2>1, <2>4 DEF ActiveInv, NestInv
  <2>8. MaskInv'
    BY <1>1, <1>4, <2>4 DEF MaskInv, BaseMask, OuterWorld
  <2> QED
    BY <1>1, <1>2, <2>4, <2>6, <2>7, <2>8 DEF EhfInv, ChecksFailInsideDispatch
<1> QED
  BY <1>3, <1>4

\* A dispatch that the mask and the running priority admit is above all in progress.
LEMMA Admitted ==
  ASSUME TypeInv, ActiveInv, NestInv, NEW p \in Priority, p < RunningPriority,
         p < pe.pmr \/ pe.active_pri_bits = {}
  PROVE  \A i \in DOMAIN frames : p < frames[i].pri
<1> SUFFICES ASSUME NEW i \in DOMAIN frames PROVE p < frames[i].pri
  OBVIOUS
<1>1. frames[i] \in Frame
  BY StackFacts DEF TypeInv
<1>2. frames[i].pri \in Priority /\ frames[i].kind \in {"intr", "explicit"}
  BY <1>1 DEF Frame
<1>3. p \in Nat /\ frames[i].pri \in Nat /\ RunningPriority \in Nat /\ pe.pmr \in Nat
  BY <1>2, LevelFacts, RunningFacts DEF TypeInv, Data
<1>4. CASE frames[i].kind = "intr"
  <2>1. RunningPriority <= frames[i].pri
    BY <1>4, RunningFacts
  <2> QED
    BY ONLY <2>1, <1>3, p < RunningPriority
<1>5. CASE frames[i].kind = "explicit"
  <2>1. frames[i].pri \in pe.active_pri_bits
    BY <1>2, <1>5 DEF ActiveInv
  <2>2. pe.pmr <= frames[i].pri /\ p < pe.pmr
    BY <2>1 DEF NestInv
  <2> QED
    BY ONLY <2>2, <1>3
<1> QED
  BY <1>2, <1>4, <1>5

\* The stack and its outer world after a dispatch of priority p has been added.
LEMMA Pushed ==
  ASSUME TypeInv, NEW x \in Frame, frames' = Append(frames, x),
         \A i \in DOMAIN frames : x.pri < frames[i].pri,
         \A i, j \in DOMAIN frames : i < j => frames[j].pri < frames[i].pri
  PROVE  /\ frames' \in Seq(Frame) /\ frames' # <<>>
         /\ \A i, j \in DOMAIN frames' : i < j => frames'[j].pri < frames'[i].pri
         /\ OuterWorld' = IF frames = <<>> THEN x.from ELSE OuterWorld
<1>1. frames \in Seq(Frame)
  BY DEF TypeInv
<1>2. /\ frames' \in Seq(Frame) /\ frames' # <<>>
      /\ DOMAIN frames' = DOMAIN frames \cup {Len(frames) + 1}
      /\ \A i \in DOMAIN frames : frames'[i] = frames[i] /\ i < Len(frames) + 1 /\ i \in Nat
      /\ frames'[Len(frames) + 1] = x /\ Len(frames) \in Nat
  BY <1>1, AppendFacts, StackFacts
<1>3. \A i, j \in DOMAIN frames' : i < j => frames'[j].pri < frames'[i].pri
  <2> SUFFICES ASSUME NEW i \in DOMAIN frames', NEW j \in DOMAIN frames', i < j
               PROVE  frames'[j].pri < frames'[i].pri
    OBVIOUS
  <2>1. i \in DOMAIN frames
    BY ONLY <1>2, i \in DOMAIN frames', j \in DOMAIN frames', i < j
  <2>2. CASE j \in DOMAIN frames
    BY <1>2, <2>1, <2>2
  <2>3. CASE j = Len(frames) + 1
    BY <1>2, <2>1, <2>3
  <2> QED
    BY <1>2, <2>2, <2>3
<1>4. OuterWorld' = IF frames = <<>> THEN x.from ELSE OuterWorld
  <2>1. CASE frames = <<>>
    <3>1. Len(frames) = 0
      BY <2>1
    <3> QED
      BY <1>2, <2>1, <3>1 DEF OuterWorld
  <2>2. CASE frames # <<>>
    <3>1. 1 \in DOMAIN frames
      BY <1>1, <2>2, StackFacts
    <3> QED
      BY <1>2, <2>2, <3>1 DEF OuterWorld
  <2> QED
    BY <2>1, <2>2
<1> QED
  BY <1>2, <1>3, <1>4

\* The levels of explicit dispatches in a stack that grew by one.
LEMMA PushedLevels ==
  ASSUME NEW f, NEW g, NEW n, DOMAIN g = DOMAIN f \cup {n}, \A i \in DOMAIN f : g[i] = f[i], NEW q
  PROVE  (\E i \in DOMAIN g : g[i].kind = "explicit" /\ g[i].pri = q) <=>
           \/ \E i \in DOMAIN f : f[i].kind = "explicit" /\ f[i].pri = q
           \/ g[n].kind = "explicit" /\ g[n].pri = q
OBVIOUS

\* An interrupt that gets through is above every dispatch, and its secure priority keeps
\* ehf_entering_normal_world() from touching the mask.
LEMMA InterruptStep ==
  ASSUME EhfInv, NEW p \in Priority, ehf_el3_interrupt_handler(p)
  PROVE  EhfInv'
<1>1. CASE p \notin handlers
  <2>1. UNCHANGED <<pe, frames, world, yielding, nsPmr>> /\ halt = "" /\ halt' = "handler"
    BY <1>1 DEF ehf_el3_interrupt_handler
  <2> QED
    BY <2>1, QuietStep
<1>2. CASE p \in handlers
  <2> DEFINE x == [kind |-> "intr", pri |-> p, from |-> world]
  <2>1. /\ TypeInv /\ ActiveInv /\ NestInv /\ SecureFrameInv /\ MaskInv /\ pe.error = ""
        /\ halt = "" /\ world \in {"NS", "S"} /\ world' = "NS"
        /\ p < pe.pmr /\ p < RunningPriority
        /\ UNCHANGED <<yielding, nsPmr>>
    BY <1>2 DEF EhfInv, ehf_el3_interrupt_handler
  <2>2. frames' = Append(frames, x)
    BY <1>2 DEF ehf_el3_interrupt_handler
  <2>3. pe' = pe /\ halt' = ""
    <3>1. IS_PRI_SECURE(p)
      BY LevelFacts DEF IS_PRI_SECURE
    <3>2. ehf_entering_normal_world(pe, p) = pe
      BY <3>1 DEF ehf_entering_normal_world
    <3> QED
      BY <1>2, <2>1, <3>2 DEF ehf_el3_interrupt_handler, Becomes
  <2>4. x \in Frame /\ x.from = world /\ x.pri = p /\ x.kind = "intr"
    BY <2>1 DEF Frame
  <2> HIDE DEF x
  <2>5. \A i \in DOMAIN frames : p < frames[i].pri
    BY <2>1, Admitted
  <2>6. /\ frames' \in Seq(Frame) /\ frames' # <<>>
        /\ \A i, j \in DOMAIN frames' : i < j => frames'[j].pri < frames'[i].pri
        /\ OuterWorld' = OuterWorld
    BY <2>1, <2>2, <2>4, <2>5, Pushed DEF NestInv, OuterWorld
  <2>7. /\ DOMAIN frames' = DOMAIN frames \cup {Len(frames) + 1}
        /\ \A i \in DOMAIN frames : frames'[i] = frames[i]
        /\ frames'[Len(frames) + 1] = x
    <3>1. frames \in Seq(Frame)
      BY <2>1 DEF TypeInv
    <3> QED
      BY ONLY <2>2, <2>4, <3>1, AppendFacts
  <2>8. TypeInv'
    BY <2>1, <2>3, <2>6 DEF TypeInv
  <2>9. ActiveInv'
    <3> SUFFICES ASSUME NEW q \in Priority
                 PROVE  q \in pe'.active_pri_bits <=>
                          \E i \in DOMAIN frames' : frames'[i].kind = "explicit" /\ frames'[i].pri = q
      BY DEF ActiveInv
    <3>1. (\E i \in DOMAIN frames' : frames'[i].kind = "explicit" /\ frames'[i].pri = q) <=>
            \E i \in DOMAIN frames : frames[i].kind = "explicit" /\ frames[i].pri = q
      BY <2>4, <2>7, PushedLevels
    <3> QED
      BY <2>1, <2>3, <3>1 DEF ActiveInv
  <2>10. NestInv'
    BY <2>1, <2>3, <2>6 DEF NestInv
  <2>11. SecureFrameInv'
    BY <2>1, <2>4, <2>7 DEF SecureFrameInv
  <2>12. MaskInv'
    BY <2>1, <2>3, <2>6 DEF MaskInv, BaseMask
  <2> QED
    BY <2>1, <2>3, <2>8, <2>9, <2>10, <2>11, <2>12 DEF EhfInv, ChecksFailInsideDispatch
<1> QED
  BY <1>1, <1>2

\* Outside a dispatch ehf_entering_normal_world() puts the mask of the Non-secure world
\* back, whichever world runs; inside one it does nothing.
LEMMA Entering ==
  ASSUME TypeInv, ActiveInv, MaskInv, pe.error = "",
         NEW d, d = ehf_entering_normal_world(pe, RunningPriority)
  PROVE  /\ d \in Data /\ d.error = ""
         /\ d.active_pri_bits = pe.active_pri_bits /\ d.init_pri_mask = pe.init_pri_mask
         /\ frames # <<>> => d = pe
         /\ frames = <<>> => d.pmr = nsPmr /\ d.ns_pri_mask = 0 /\ pe.active_pri_bits = {}
<1>1. pe \in Data
  BY DEF TypeInv
<1>2. CASE frames # <<>>
  <2>1. d = pe
    BY <1>2, DispatchFacts DEF ehf_entering_normal_world
  <2> QED
    BY <1>1, <1>2, <2>1
<1>3. CASE frames = <<>>
  <2>1. pe.active_pri_bits = {} /\ ~IS_PRI_SECURE(RunningPriority)
    BY <1>3, QuietFacts
  <2>2. /\ nsPmr # 0 /\ nsPmr \in Nat
        /\ \/ pe.pmr = nsPmr /\ pe.ns_pri_mask = 0
           \/ pe.pmr = GIC_HIGHEST_NS_PRIORITY /\ pe.ns_pri_mask = nsPmr
    BY <2>1, LevelFacts DEF MaskInv, BaseMask, TypeInv, Data
  <2>3. \/ d = pe /\ pe.pmr = nsPmr /\ pe.ns_pri_mask = 0
        \/ d = [pe EXCEPT !.pmr = nsPmr, !.error = "", !.ns_pri_mask = 0]
    BY <2>1, <2>2 DEF ehf_entering_normal_world, has_valid_pri_activations
  <2>4. CASE d = pe /\ pe.pmr = nsPmr /\ pe.ns_pri_mask = 0
    BY <1>1, <1>3, <2>1, <2>4
  <2>5. CASE d = [pe EXCEPT !.pmr = nsPmr, !.error = "", !.ns_pri_mask = 0]
    <3>1. /\ d \in Data /\ d.error = "" /\ d.pmr = nsPmr /\ d.ns_pri_mask = 0
          /\ d.active_pri_bits = pe.active_pri_bits /\ d.init_pri_mask = pe.init_pri_mask
      BY ONLY <1>1, <2>2, <2>5 DEF Data
    <3> QED
      BY <1>3, <2>1, <3>1
  <2> QED
    BY <2>3, <2>4, <2>5
<1> QED
  BY <1>2, <1>3

\* Outside a dispatch every check of an explicit activation holds.
LEMMA ExplicitDispatchStep ==
  ASSUME EhfInv, NEW p \in Priority, ExplicitDispatch(p)
  PROVE  EhfInv'
<1> DEFINE x == [kind |-> "explicit", pri |-> p, from |-> "NS"]
           d == ehf_entering_normal_world(pe, RunningPriority)
<1>1. /\ TypeInv /\ ActiveInv /\ NestInv /\ SecureFrameInv /\ MaskInv /\ pe.error = ""
      /\ halt = "" /\ world \in {"NS", "S"} /\ world' = "NS" /\ halt' = pe'.error
      /\ yielding' = (yielding /\ world = "NS") /\ nsPmr' = nsPmr
  BY DEF EhfInv, ExplicitDispatch, Becomes
<1>2. frames' = Append(frames, x)
  BY DEF ExplicitDispatch
<1>3. x \in Frame /\ x.from = "NS" /\ x.pri = p /\ x.kind = "explicit"
  BY <1>1 DEF Frame
<1> HIDE DEF x
<1>4. /\ d \in Data /\ d.error = ""
      /\ d.active_pri_bits = pe.active_pri_bits /\ d.init_pri_mask = pe.init_pri_mask
      /\ frames # <<>> => d = pe
      /\ frames = <<>> => /\ d.pmr = nsPmr /\ d.ns_pri_mask = 0 /\ pe.active_pri_bits = {}
                          /\ RunningPriority = GIC_PRI_MASK /\ Len(frames) = 0
  BY <1>1, Entering, QuietFacts
<1>5. pe' = ehf_activate_priority(d, RunningPriority, p)
  BY DEF ExplicitDispatch, Becomes
<1> HIDE DEF d
<1>6. frames = <<>> => p < RunningPriority /\ p < d.pmr /\ d.active_pri_bits = {}
  <2>1. p < GIC_PRI_MASK /\ p < nsPmr
    <3>1. nsPmr \in NsMask
      BY <1>1 DEF TypeInv
    <3>2. nsPmr \in Nat /\ nsPmr >= GIC_HIGHEST_NS_PRIORITY
      BY <3>1, LevelFacts
    <3>3. GIC_PRI_MASK \in Nat /\ GIC_PRI_MASK >= GIC_HIGHEST_NS_PRIORITY
      BY LevelFacts
    <3>4. p \in Nat /\ p < GIC_HIGHEST_NS_PRIORITY /\ GIC_HIGHEST_NS_PRIORITY \in Nat
      BY LevelFacts
    <3> QED
      BY ONLY <3>2, <3>3, <3>4
  <2> QED
    BY <2>1, <1>4
<1>7. /\ frames' \in Seq(Frame) /\ Len(frames') = Len(frames) + 1 /\ Len(frames) \in Nat
      /\ DOMAIN frames' = DOMAIN frames \cup {Len(frames) + 1}
      /\ \A i \in DOMAIN frames : frames'[i] = frames[i]
      /\ frames'[Len(frames) + 1] = x
      /\ frames = <<>> <=> Len(frames) = 0
  <2>1. frames \in Seq(Frame)
    BY <1>1 DEF TypeInv
  <2>2. frames = <<>> <=> Len(frames) = 0
    BY <2>1, StackFacts
  <2> QED
    BY ONLY <1>2, <1>3, <2>1, <2>2, AppendFacts
<1>8. d \in Data /\ p \in Nat /\ RunningPriority \in Nat
  BY <1>1, <1>4, LevelFacts, RunningFacts
<1> DEFINE first == ~has_valid_pri_activations(d)
           refused == p >= RunningPriority \/ (~first /\ p >= Min(d.active_pri_bits))
<1>9. CASE refused
  <2>1. pe' = [d EXCEPT !.error = "order"]
    BY <1>5, <1>9 DEF ehf_activate_priority
  <2>2. pe' \in Data /\ pe'.error = "order"
    BY ONLY <1>8, <2>1 DEF Data
  <2>3. frames # <<>>
    BY <1>6, <1>8, <1>9 DEF has_valid_pri_activations
  <2>4. Len(frames') > 1
    BY ONLY <1>7, <2>3
  <2>5. TypeInv'
    BY <1>1, <1>7, <2>2 DEF TypeInv
  <2> QED
    BY <1>1, <2>2, <2>4, <2>5 DEF EhfInv, ChecksFailInsideDispatch
<1>10. CASE ~refused
  <2> DEFINE new == [d EXCEPT !.active_pri_bits = @ \cup {p}, !.pmr = p,
                               !.error = IF p >= d.pmr THEN "mask" ELSE "",
                               !.init_pri_mask = IF first THEN d.pmr ELSE @]
  <2>1. pe' = new
    BY <1>5, <1>10 DEF ehf_activate_priority
  <2>2. /\ pe' \in Data /\ pe'.active_pri_bits = d.active_pri_bits \cup {p} /\ pe'.pmr = p
        /\ pe'.init_pri_mask = IF d.active_pri_bits = {} THEN d.pmr ELSE d.init_pri_mask
        /\ pe'.ns_pri_mask = d.ns_pri_mask
        /\ pe'.error = IF p >= d.pmr THEN "mask" ELSE ""
    BY ONLY <1>8, <2>1, p \in Priority DEF Data, has_valid_pri_activations
  <2>3. TypeInv'
    BY <1>1, <1>7, <2>2 DEF TypeInv
  <2>4. CASE p >= d.pmr
    <3>1. d.pmr \in Nat /\ p \in Nat
      BY <1>8 DEF Data
    <3>2. ~(p < d.pmr)
      BY ONLY <2>4, <3>1
    <3>3. frames # <<>>
      BY <1>6, <3>2
    <3>4. Len(frames') > 1
      BY ONLY <1>7, <3>3
    <3> QED
      BY <1>1, <2>2, <2>3, <2>4, <3>4 DEF EhfInv, ChecksFailInsideDispatch
  <2>5. CASE ~(p >= d.pmr)
    <3>1. p < d.pmr /\ p < RunningPriority
      <4>1. d.pmr \in Nat
        BY <1>8 DEF Data
      <4> QED
        BY <1>8, <1>10, <2>5, <4>1
    <3>2. \A i \in DOMAIN frames : p < frames[i].pri
      BY <1>1, <1>4, <3>1, Admitted
    <3>3. /\ frames' # <<>>
          /\ \A i, j \in DOMAIN frames' : i < j => frames'[j].pri < frames'[i].pri
          /\ OuterWorld' = IF frames = <<>> THEN "NS" ELSE OuterWorld
      BY <1>1, <1>2, <1>3, <3>2, Pushed DEF NestInv
    <3>4. ActiveInv'
      <4> SUFFICES ASSUME NEW q \in Priority
                   PROVE  q \in pe'.active_pri_bits <=>
                            \E i \in DOMAIN frames' :
                              frames'[i].kind = "explicit" /\ frames'[i].pri = q
        BY DEF ActiveInv
      <4>1. (\E i \in DOMAIN frames' : frames'[i].kind = "explicit" /\ frames'[i].pri = q) <=>
              \/ \E i \in DOMAIN frames : frames[i].kind = "explicit" /\ frames[i].pri = q
              \/ q = p
        BY <1>3, <1>7, PushedLevels
      <4> QED
        BY <1>1, <1>4, <2>2, <4>1 DEF ActiveInv
    <3>5. NestInv'
      <4>1. ASSUME NEW q \in pe'.active_pri_bits PROVE pe'.pmr <= q
        <5>1. q = p \/ q \in d.active_pri_bits
          BY <2>2
        <5>2. q \in Nat /\ d.pmr \in Nat
          BY <5>1, <1>8, LevelFacts DEF Data
        <5>3. q = p \/ d.pmr <= q
          BY <5>1, <1>1, <1>4 DEF NestInv
        <5>4. p <= q
          BY ONLY <5>2, <5>3, <3>1, <1>8
        <5> QED
          BY <2>2, <5>4
      <4> QED
        BY <3>3, <4>1 DEF NestInv
    <3>6. SecureFrameInv'
      BY <1>1, <1>3, <1>7 DEF SecureFrameInv
    <3>7. MaskInv'
      <4>1. BaseMask' = IF frames = <<>> THEN nsPmr ELSE BaseMask
        BY <1>4, <2>2 DEF BaseMask
      <4>2. CASE frames = <<>>
        <5>1. ~yielding'
          BY <1>1, <4>2 DEF MaskInv, OuterWorld
        <5> QED
          BY <1>1, <1>4, <2>2, <3>3, <4>1, <4>2, <5>1 DEF MaskInv
      <4>3. CASE frames # <<>>
        <5>1. world = "S" => ~yielding
          BY <1>1, <4>3, OuterNormal
        <5>2. yielding' = yielding
          BY <1>1, <5>1 DEF TypeInv
        <5>3. /\ OuterWorld' = OuterWorld /\ BaseMask' = BaseMask
              /\ pe'.ns_pri_mask = pe.ns_pri_mask /\ nsPmr' = nsPmr
          BY <1>1, <1>4, <2>2, <3>3, <4>1, <4>3
        <5>4. MaskInv
          BY <1>1
        <5> QED
          BY ONLY <5>2, <5>3, <5>4 DEF MaskInv
      <4> QED
        BY <4>2, <4>3
    <3>8. halt' = "" /\ pe'.error = ""
      BY <1>1, <2>2, <2>5
    <3> QED
      BY <2>3, <3>4, <3>5, <3>6, <3>7, <3>8 DEF EhfInv, ChecksFailInsideDispatch
  <2> QED
    BY <2>4, <2>5
<1> QED
  BY <1>9, <1>10

\* The stack and its outer world after the innermost dispatch has been removed.
LEMMA Popped ==
  ASSUME TypeInv, frames # <<>>, frames' = Front(frames), world' = Last(frames).from
  PROVE  /\ frames' \in Seq(Frame)
         /\ DOMAIN frames' = DOMAIN frames \ {Len(frames)}
         /\ \A i \in DOMAIN frames' : frames'[i] = frames[i] /\ i < Len(frames)
         /\ Len(frames) \in DOMAIN frames /\ Last(frames) = frames[Len(frames)]
         /\ Last(frames) \in Frame
         /\ OuterWorld' = OuterWorld
<1>1. frames \in Seq(Frame)
  BY DEF TypeInv
<1>2. /\ frames' \in Seq(Frame)
      /\ DOMAIN frames' = DOMAIN frames \ {Len(frames)}
      /\ \A i \in DOMAIN frames' : frames'[i] = frames[i] /\ i < Len(frames)
      /\ Len(frames) \in DOMAIN frames /\ Last(frames) = frames[Len(frames)]
      /\ Last(frames) \in Frame
  BY <1>1, FrontFacts
<1>3. Len(frames) \in Nat /\ DOMAIN frames = 1..Len(frames)
  BY <1>1, StackFacts
<1>4. CASE frames' = <<>>
  <2>1. DOMAIN frames' = {}
    BY <1>2, <1>4, StackFacts
  <2>2. 1 \in DOMAIN frames
    BY <1>1, StackFacts
  <2>3. Len(frames) = 1
    BY <1>2, <2>1, <2>2
  <2> QED
    BY <1>2, <1>4, <2>3 DEF OuterWorld
<1>5. CASE frames' # <<>>
  <2>1. 1 \in DOMAIN frames'
    BY <1>2, <1>5, StackFacts
  <2> QED
    BY <1>2, <1>5, <2>1 DEF OuterWorld
<1> QED
  BY <1>2, <1>4, <1>5

\* Completing an interrupt resumes the world it interrupted with the mask unchanged.
LEMMA CompleteInterruptStep ==
  ASSUME EhfInv, CompleteInterrupt
  PROVE  EhfInv'
<1>1. /\ TypeInv /\ ActiveInv /\ NestInv /\ SecureFrameInv /\ MaskInv /\ pe.error = ""
      /\ halt = "" /\ world = "NS" /\ frames # <<>> /\ Last(frames).kind = "intr"
      /\ frames' = Front(frames) /\ world' = Last(frames).from
      /\ UNCHANGED <<pe, yielding, nsPmr, halt>>
  BY DEF EhfInv, CompleteInterrupt
<1>2. /\ frames' \in Seq(Frame)
      /\ DOMAIN frames' = DOMAIN frames \ {Len(frames)}
      /\ \A i \in DOMAIN frames' : frames'[i] = frames[i]
      /\ Len(frames) \in DOMAIN frames /\ Last(frames) = frames[Len(frames)]
      /\ Last(frames) \in Frame
      /\ OuterWorld' = OuterWorld
  BY <1>1, Popped
<1>3. TypeInv'
  <2>1. world' \in {"NS", "S"}
    BY <1>1, <1>2 DEF Frame
  <2> QED
    BY <1>1, <1>2, <2>1 DEF TypeInv
<1>4. ActiveInv'
  <2> SUFFICES ASSUME NEW q \in Priority
               PROVE  q \in pe'.active_pri_bits <=>
                        \E i \in DOMAIN frames' : frames'[i].kind = "explicit" /\ frames'[i].pri = q
    BY DEF ActiveInv
  <2>1. DOMAIN frames = DOMAIN frames' \cup {Len(frames)} /\ frames[Len(frames)].kind # "explicit"
    BY <1>1, <1>2
  <2>2. (\E i \in DOMAIN frames : frames[i].kind = "explicit" /\ frames[i].pri = q) <=>
          \E i \in DOMAIN frames' : frames'[i].kind = "explicit" /\ frames'[i].pri = q
    BY <1>2, <2>1, PushedLevels
  <2> QED
    BY <1>1, <2>2 DEF ActiveInv
<1>5. NestInv'
  BY <1>1, <1>2 DEF NestInv
<1>6. SecureFrameInv'
  <2> SUFFICES ASSUME NEW i \in DOMAIN frames', frames'[i].from = "S"
               PROVE  /\ world' = "NS" /\ frames'[i].kind = "intr"
                      /\ \A j \in DOMAIN frames' : frames'[j].from = "S" => j = i
    BY DEF SecureFrameInv
  <2>1. i \in DOMAIN frames /\ frames[i].from = "S" /\ frames'[i] = frames[i]
    BY <1>2
  <2>2. /\ frames[i].kind = "intr"
        /\ \A j \in DOMAIN frames : frames[j].from = "S" => j = i
    BY <1>1, <2>1 DEF SecureFrameInv
  <2>3. \A j \in DOMAIN frames' : j \in DOMAIN frames /\ frames'[j] = frames[j]
    BY <1>2
  <2>4. Last(frames).from # "S"
    BY <1>2, <2>2
  <2>5. world' = "NS"
    BY <1>1, <1>2, <2>4 DEF Frame
  <2> QED
    BY <2>1, <2>2, <2>3, <2>5
<1>7. MaskInv'
  BY <1>1, <1>2 DEF MaskInv, BaseMask
<1> QED
  BY <1>1, <1>3, <1>4, <1>5, <1>6, <1>7 DEF EhfInv, ChecksFailInsideDispatch

\* The level of the innermost dispatch is the highest one active, so no check fails.
LEMMA CompleteExplicitStep ==
  ASSUME EhfInv, CompleteExplicit
  PROVE  EhfInv'
<1> DEFINE p == Last(frames).pri
           rest == pe.active_pri_bits \ {p}
<1>1. /\ TypeInv /\ ActiveInv /\ NestInv /\ SecureFrameInv /\ MaskInv /\ pe.error = ""
      /\ halt = "" /\ world = "NS" /\ frames # <<>> /\ Last(frames).kind = "explicit"
      /\ pe' = ehf_deactivate_priority(pe, RunningPriority, p) /\ halt' = pe'.error
      /\ frames' = Front(frames) /\ UNCHANGED <<world, yielding, nsPmr>>
  BY DEF EhfInv, CompleteExplicit, Becomes
<1>2. frames \in Seq(Frame)
  BY <1>1 DEF TypeInv
<1>3. /\ Len(frames) \in DOMAIN frames /\ Last(frames) = frames[Len(frames)]
      /\ Last(frames) \in Frame
  BY <1>1, <1>2, FrontFacts
<1>4. Last(frames).from = "NS"
  BY <1>1, <1>3 DEF SecureFrameInv, Frame
<1>5. /\ frames' \in Seq(Frame)
      /\ DOMAIN frames' = DOMAIN frames \ {Len(frames)}
      /\ \A i \in DOMAIN frames' : frames'[i] = frames[i] /\ i < Len(frames)
      /\ OuterWorld' = OuterWorld
  BY <1>1, <1>4, Popped
<1>6. p \in Priority /\ p \in pe.active_pri_bits /\ p = frames[Len(frames)].pri
  <2>1. p \in Priority /\ p = frames[Len(frames)].pri /\ frames[Len(frames)].kind = "explicit"
    BY <1>1, <1>3 DEF Frame
  <2> QED
    BY <1>1, <1>3, <2>1 DEF ActiveInv
<1>7. pe \in Data /\ p \in Nat /\ RunningPriority \in Nat
  BY <1>1, <1>6, LevelFacts, RunningFacts DEF TypeInv
<1> HIDE DEF p
<1>8. \A i \in DOMAIN frames : i # Len(frames) => p < frames[i].pri
  BY <1>1, <1>3, <1>5, <1>6 DEF NestInv
<1>9. \A q \in pe.active_pri_bits : q \in Nat /\ p <= q
  <2> SUFFICES ASSUME NEW q \in pe.active_pri_bits PROVE q \in Nat /\ p <= q
    OBVIOUS
  <2>1. q \in Priority /\ q \in Nat
    BY <1>7, LevelFacts DEF Data
  <2>2. PICK i \in DOMAIN frames : frames[i].pri = q
    BY <1>1, <2>1 DEF ActiveInv
  <2>3. q = p \/ p < q
    BY <1>6, <1>8, <2>2
  <2> QED
    BY ONLY <1>7, <2>1, <2>3
<1>10. p = Min(pe.active_pri_bits)
  <2>1. /\ Min(pe.active_pri_bits) \in pe.active_pri_bits
        /\ Min(pe.active_pri_bits) <= p
    BY <1>6, <1>9, LeastLevel
  <2>2. Min(pe.active_pri_bits) \in Nat /\ p <= Min(pe.active_pri_bits)
    BY <1>9, <2>1
  <2> QED
    BY ONLY <1>7, <2>1, <2>2
<1>11. p < RunningPriority
  <2>1. CASE RunningPriority = GIC_PRI_MASK
    <3>1. p < GIC_HIGHEST_NS_PRIORITY /\ GIC_HIGHEST_NS_PRIORITY \in Nat
      BY <1>6, LevelFacts
    <3>2. GIC_PRI_MASK \in Nat /\ GIC_PRI_MASK >= GIC_HIGHEST_NS_PRIORITY
      BY LevelFacts
    <3> QED
      BY ONLY <1>7, <2>1, <3>1, <3>2
  <2>2. CASE \E i \in DOMAIN frames : frames[i].kind = "intr" /\ RunningPriority = frames[i].pri
    BY <1>1, <1>3, <1>8, <2>2
  <2> QED
    BY <1>1, <2>1, <2>2, RunningFacts
<1>12. pe.pmr \in Nat /\ pe.pmr <= p
  BY <1>1, <1>6, <1>7 DEF NestInv, Data
<1>13. pe' = [pe EXCEPT !.active_pri_bits = rest,
                        !.pmr = IF rest = {} THEN pe.init_pri_mask ELSE p, !.error = ""]
  <2>1. ~(p >= RunningPriority) /\ ~(pe.pmr > p)
    BY ONLY <1>7, <1>11, <1>12
  <2>2. has_valid_pri_activations(pe)
    BY <1>6 DEF has_valid_pri_activations
  <2> QED
    BY <1>1, <1>10, <2>1, <2>2 DEF ehf_deactivate_priority
<1>14. /\ pe' \in Data /\ pe'.active_pri_bits = rest /\ pe'.error = ""
       /\ pe'.pmr = IF rest = {} THEN pe.init_pri_mask ELSE p
       /\ pe'.init_pri_mask = pe.init_pri_mask /\ pe'.ns_pri_mask = pe.ns_pri_mask
  BY ONLY <1>7, <1>13 DEF Data
<1>15. TypeInv'
  BY <1>1, <1>5, <1>14 DEF TypeInv
<1>16. ActiveInv'
  <2> SUFFICES ASSUME NEW q \in Priority
               PROVE  q \in pe'.active_pri_bits <=>
                        \E i \in DOMAIN frames' : frames'[i].kind = "explicit" /\ frames'[i].pri = q
    BY DEF ActiveInv
  <2>1. DOMAIN frames = DOMAIN frames' \cup {Len(frames)}
    BY <1>3, <1>5
  <2>2. (\E i \in DOMAIN frames : frames[i].kind = "explicit" /\ frames[i].pri = q) <=>
          \/ \E i \in DOMAIN frames' : frames'[i].kind = "explicit" /\ frames'[i].pri = q
          \/ frames[Len(frames)].kind = "explicit" /\ frames[Len(frames)].pri = q
    BY <1>5, <2>1, PushedLevels
  <2>3. \A i \in DOMAIN frames' : frames'[i].pri # p
    BY <1>5, <1>7, <1>8
  <2>4. q \in pe.active_pri_bits <=>
          \E i \in DOMAIN frames : frames[i].kind = "explicit" /\ frames[i].pri = q
    BY <1>1 DEF ActiveInv
  <2>5. q \in pe'.active_pri_bits <=> q \in pe.active_pri_bits /\ q # p
    BY <1>14
  <2>6. frames[Len(frames)].kind = "explicit"
    BY <1>1, <1>3
  <2> QED
    BY ONLY <1>6, <2>2, <2>3, <2>4, <2>5, <2>6
<1>17. NestInv'
  <2>1. \A i, j \in DOMAIN frames' : i < j => frames'[j].pri < frames'[i].pri
    BY <1>1, <1>5 DEF NestInv
  <2>2. \A q \in pe'.active_pri_bits : pe'.pmr <= q
    BY <1>9, <1>14
  <2> QED
    BY <2>1, <2>2 DEF NestInv
<1>18. SecureFrameInv'
  <2> SUFFICES ASSUME NEW i \in DOMAIN frames', frames'[i].from = "S"
               PROVE  /\ world' = "NS" /\ frames'[i].kind = "intr"
                      /\ \A j \in DOMAIN frames' : frames'[j].from = "S" => j = i
    BY DEF SecureFrameInv
  <2>1. i \in DOMAIN frames /\ frames[i].from = "S" /\ frames'[i] = frames[i]
    BY <1>5
  <2>2. /\ frames[i].kind = "intr"
        /\ \A j \in DOMAIN frames : frames[j].from = "S" => j = i
    BY <1>1, <2>1 DEF SecureFrameInv
  <2>3. \A j \in DOMAIN frames' : j \in DOMAIN frames /\ frames'[j] = frames[j]
    BY <1>5
  <2> QED
    BY <1>1, <2>1, <2>2, <2>3
<1>19. MaskInv'
  <2>1. BaseMask' = BaseMask
    BY <1>6, <1>14 DEF BaseMask
  <2> QED
    BY <1>1, <1>5, <1>14, <2>1 DEF MaskInv
<1> QED
  BY <1>1, <1>14, <1>15, <1>16, <1>17, <1>18, <1>19 DEF EhfInv, ChecksFailInsideDispatch

-----------------------------------------------------------------------------
(* The theorems.                                                           *)

\* Every step of the PE keeps the invariant.
LEMMA NextStep == EhfInv /\ [Next]_vars => EhfInv'
<1> SUFFICES ASSUME EhfInv, [Next]_vars PROVE EhfInv'
  OBVIOUS
<1>1. ASSUME NEW p \in Priority, ehf_register_priority_handler(p) PROVE EhfInv'
  BY <1>1, QuietStep DEF ehf_register_priority_handler
<1>2. CASE Halted \/ UNCHANGED vars
  BY <1>2, QuietStep DEF Halted, vars
<1> QED
  BY <1>1, <1>2, InterruptStep, ExplicitDispatchStep, NsWritesMaskStep, SaveNormalContextStep,
     AllowPreemptionStep, EnterSecureStep, RestoreNormalContextStep, CompleteInterruptStep,
     CompleteExplicitStep DEF Next

\* The strengthened invariant holds of every behaviour of the PE.
THEOREM EhfInvariant == Spec => []EhfInv
BY InitStep, NextStep, PTL DEF Spec

\* Through any sequence of Secure calls, interrupts and explicit dispatches, the Non-secure
\* world finds the priority mask it programmed (ehf_exited_normal_world() stashes it,
\* ehf_entering_normal_world() and ehf_deactivate_priority() bring it back).
THEOREM MaskPreserved == Spec => []NsMaskPreserved
<1>1. EhfInv => NsMaskPreserved
  <2> SUFFICES ASSUME EhfInv, halt = "", world = "NS", frames = <<>> PROVE pe.pmr = nsPmr
    BY DEF NsMaskPreserved
  <2>1. TypeInv /\ ActiveInv /\ MaskInv
    BY DEF EhfInv
  <2>2. pe.active_pri_bits = {}
    BY <2>1, QuietFacts
  <2> QED
    BY <2>1, <2>2 DEF MaskInv, BaseMask, OuterWorld
<1> QED
  BY <1>1, EhfInvariant, PTL

\* Interrupts and explicit activations in progress have strictly rising priorities: the mask
\* of ehf_activate_priority() and the running priority let nothing else in.
THEOREM DispatchesNest == Spec => []PrioritiesNest
<1>1. EhfInv => PrioritiesNest
  BY DEF EhfInv, NestInv, PrioritiesNest
<1> QED
  BY <1>1, EhfInvariant, PTL

\* No check of the stash, the mask or the order of levels fails for a Secure call or a
\* dispatch that starts outside the handler of another dispatch.
THEOREM ChecksHoldOutside == Spec => []ChecksFailInsideDispatch
<1>1. EhfInv => ChecksFailInsideDispatch
  BY DEF EhfInv
<1> QED
  BY <1>1, EhfInvariant, PTL

\* Secure execution that did not allow preemption is out of reach of every Non-secure
\* interrupt: the mask is raised, or a secure level is active or being handled.
THEOREM SecureKept == Spec => []SecureNotPreempted
<1>1. EhfInv => SecureNotPreempted
  <2> SUFFICES ASSUME EhfInv, halt = "", world = "S", ~yielding
               PROVE  Min({pe.pmr, RunningPriority}) <= GIC_HIGHEST_NS_PRIORITY
    BY DEF SecureNotPreempted
  <2>1. TypeInv /\ ActiveInv /\ NestInv /\ MaskInv
    BY DEF EhfInv
  <2>2. pe \in Data /\ pe.pmr \in Nat /\ RunningPriority \in Nat
    BY <2>1, RunningFacts DEF TypeInv, Data
  <2>3. /\ Min({pe.pmr, RunningPriority}) \in Nat
        /\ Min({pe.pmr, RunningPriority}) <= pe.pmr
        /\ Min({pe.pmr, RunningPriority}) <= RunningPriority
    <3> DEFINE S == {pe.pmr, RunningPriority}
    <3>1. S \subseteq Nat /\ S # {}
      BY <2>2
    <3>2. Min(S) \in S /\ \A q \in S : Min(S) <= q
      BY ONLY <3>1, LeastLevel
    <3> QED
      BY <3>1, <3>2
  <2>4. pe.pmr <= GIC_HIGHEST_NS_PRIORITY \/ RunningPriority <= GIC_HIGHEST_NS_PRIORITY
    <3>1. CASE frames = <<>>
      <4>1. pe.pmr = GIC_HIGHEST_NS_PRIORITY
        BY <2>1, <3>1, QuietFacts DEF MaskInv, BaseMask, OuterWorld
      <4> QED
        BY ONLY <2>2, <4>1
    <3>2. CASE IS_PRI_SECURE(RunningPriority)
      <4>1. RunningPriority < GIC_HIGHEST_NS_PRIORITY /\ GIC_HIGHEST_NS_PRIORITY \in Nat
        BY <3>2, LevelFacts DEF IS_PRI_SECURE
      <4> QED
        BY ONLY <2>2, <4>1
    <3>3. CASE has_valid_pri_activations(pe)
      <4>1. PICK q \in pe.active_pri_bits : pe.pmr <= q
        BY <2>1, <3>3 DEF has_valid_pri_activations, NestInv
      <4>2. q \in Nat /\ q < GIC_HIGHEST_NS_PRIORITY /\ GIC_HIGHEST_NS_PRIORITY \in Nat
        BY <2>2, LevelFacts DEF Data
      <4> QED
        BY ONLY <2>2, <4>1, <4>2
    <3> QED
      BY <2>1, <3>1, <3>2, <3>3, DispatchFacts
  <2> QED
    BY ONLY <2>2, <2>3, <2>4, LevelFacts
<1> QED
  BY <1>1, EhfInvariant, PTL

\* ehf_is_ns_preemption_allowed(), which looks at nothing but the levels and the stash, tells
\* whether the Secure call in progress allowed preemption.
THEOREM PreemptionReported == Spec => []PreemptionReportedRight
<1>1. EhfInv => PreemptionReportedRight
  <2> SUFFICES ASSUME EhfInv, halt = "", world = "S"
               PROVE  ehf_is_ns_preemption_allowed(pe, RunningPriority) <=> yielding
    BY DEF PreemptionReportedRight
  <2>1. TypeInv /\ ActiveInv /\ SecureFrameInv /\ MaskInv
    BY DEF EhfInv
  <2>2. CASE frames = <<>>
    <3>1. pe.active_pri_bits = {} /\ ~IS_PRI_SECURE(RunningPriority)
      BY <2>1, <2>2, QuietFacts
    <3>2. nsPmr # 0
      BY <2>1, LevelFacts DEF TypeInv
    <3>3. pe.ns_pri_mask = 0 <=> yielding
      BY <2>1, <2>2, <3>2 DEF MaskInv, OuterWorld
    <3> QED
      BY <3>1, <3>3 DEF ehf_is_ns_preemption_allowed, has_valid_pri_activations
  <2>3. CASE frames # <<>>
    <3>1. ~yielding
      BY <2>1, <2>3, OuterNormal
    <3> QED
      BY <2>1, <2>3, <3>1, DispatchFacts DEF ehf_is_ns_preemption_allowed
  <2> QED
    BY <2>2, <2>3
<1> QED
  BY <1>1, EhfInvariant, PTL
=============================================================================
