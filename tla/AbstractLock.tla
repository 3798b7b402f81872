----------------------------- MODULE AbstractLock -----------------------------
(***************************************************************************)
(* What every lock of the firmware promises to the code that calls it:     *)
(* a CPU asks for the lock, is given it while no other CPU owns it, and    *)
(* gives it back.  bakery_lock_get/bakery_lock_release                     *)
(* (include/lib/bakery_lock.h) and spin_lock/spin_unlock                   *)
(* (include/lib/spinlock.h) are implementations of this interface.         *)
(***************************************************************************)

CONSTANT CPU

VARIABLE state     \* state[i]: what CPU i is doing with the lock

LockStates == {"idle", "waiting", "owner"}

Init == state = [i \in CPU |-> "idle"]

\* CPU i calls the function that takes the lock.
Request(i) ==
  /\ state[i] = "idle"
  /\ state' = [state EXCEPT ![i] = "waiting"]

\* The call returns: i owns the lock, and nobody else does.
Acquire(i) ==
  /\ state[i] = "waiting"
  /\ \A j \in CPU : state[j] # "owner"
  /\ state' = [state EXCEPT ![i] = "owner"]

\* CPU i gives the lock back.
Release(i) ==
  /\ state[i] = "owner"
  /\ state' = [state EXCEPT ![i] = "idle"]

Next == \E i \in CPU : Request(i) \/ Acquire(i) \/ Release(i)

Spec == Init /\ [][Next]_state
=============================================================================
