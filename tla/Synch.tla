-------------------------------- MODULE Synch --------------------------------
(***************************************************************************)
(* Semaphore, Lock and Condition as the kernel test programs of threads/kernel.cc use *)
(* them. threads/synch.cc is not in the source tree, so both are written   *)
(* from the spec (section 5): a semaphore is [value, queue], a lock is a   *)
(* binary semaphore with a holder, and a condition is a wait queue (its    *)
(* value is the counter of Condition::Barrier). Every operator takes the kernel record  *)
(* of Scheduler/Thread and the primitive, and returns both after the call; *)
(* the call runs with interrupts off, so it is part of one atomic step.    *)
(***************************************************************************)
EXTENDS Thread

(* Semaphore::P: with value 0 the caller joins the wait list and sleeps;   *)
(* otherwise the value is decremented.                                     *)
P(k, s) ==
  IF s.value = 0
  THEN [k |-> Sleep(k, FALSE), s |-> [s EXCEPT !.queue = Append(@, k.currentThread)]]
  ELSE [k |-> k, s |-> [s EXCEPT !.value = @ - 1]]

(* Fault variant of V: the value goes up but no waiter is woken.          *)
VNoWake(k, s) == [k |-> k, s |-> [s EXCEPT !.value = @ + 1]]

(* Semaphore::V: hand the unit to the first waiter (ReadyToRun), or        *)
(* increment the value when nobody waits.                                  *)
V(k, s) ==
  IF s.queue # <<>>
  THEN [k |-> ReadyToRun(k, Head(s.queue)), s |-> [s EXCEPT !.queue = Tail(@)]]
  ELSE [k |-> k, s |-> [s EXCEPT !.value = @ + 1]]

(* Lock::Acquire: P on the lock's semaphore, then the caller records       *)
(* itself as holder. When P sleeps, the holder is recorded only once the   *)
(* caller runs again ("blocked": the rest of Acquire is still to come).    *)
Acquire(k, l) ==
  LET r == P(k, l)
  IN  [k |-> r.k,
       l |-> IF l.value = 0 THEN r.s ELSE [r.s EXCEPT !.holder = k.currentThread],
       blocked |-> l.value = 0]

(* Lock::Release by its holder: clear the holder, then V.                  *)
Release(k, l) ==
  LET r == V(k, [l EXCEPT !.holder = NULL])
  IN  [k |-> r.k, l |-> r.s]

(* Lock::IsHeldByCurrentThread, which Release asserts.                     *)
IsHeldByCurrentThread(k, l) == l.holder = k.currentThread

(* Condition::Wait (Mesa semantics): the caller joins the wait queue,      *)
(* releases the lock and sleeps. It reacquires the lock once it runs       *)
(* again, in a later step of its own.                                      *)
Wait(k, c, l) ==
  LET r == Release(k, l)
  IN  [k |-> Sleep(r.k, FALSE), c |-> [c EXCEPT !.queue = Append(@, k.currentThread)],
       l |-> r.l]

(* Condition::Signal: wake the first waiter, if any.                       *)
Signal(k, c) ==
  IF c.queue # <<>>
  THEN [k |-> ReadyToRun(k, Head(c.queue)), c |-> [c EXCEPT !.queue = Tail(@)]]
  ELSE [k |-> k, c |-> c]

(* Condition::Broadcast: Signal until no waiter is left, so the waiters    *)
(* become ready in the order they waited.                                  *)
RECURSIVE Broadcast(_, _)
Broadcast(k, c) ==
  IF c.queue = <<>> THEN [k |-> k, c |-> c]
  ELSE LET r == Signal(k, c) IN Broadcast(r.k, r.c)

(* Fault variant of Barrier: the last arrival wakes only one waiter.       *)
BarrierSignalOnly(k, c, l, n) ==
  LET c1 == [c EXCEPT !.value = @ + 1]
  IN  IF c1.value = n
      THEN LET r == Signal(k, c1) IN [k |-> r.k, c |-> r.c, l |-> l, waits |-> FALSE]
      ELSE LET r == Wait(k, c1, l) IN [k |-> r.k, c |-> r.c, l |-> r.l, waits |-> TRUE]

(* Fault variant of Barrier: the (n-1)-th arrival already broadcasts.      *)
BarrierEarly(k, c, l, n) ==
  LET c1 == [c EXCEPT !.value = @ + 1]
  IN  IF c1.value >= n - 1
      THEN LET r == Broadcast(k, c1) IN [k |-> r.k, c |-> r.c, l |-> l, waits |-> FALSE]
      ELSE LET r == Wait(k, c1, l) IN [k |-> r.k, c |-> r.c, l |-> r.l, waits |-> TRUE]

(* Condition::Barrier(l), a condition plus a counter: the n-th arrival     *)
(* broadcasts and returns still holding l; every earlier one waits on the  *)
(* condition ("waits": the caller's Wait has still to reacquire l).        *)
Barrier(k, c, l, n) ==
  LET c1 == [c EXCEPT !.value = @ + 1]
  IN  IF c1.value = n
      THEN LET r == Broadcast(k, c1) IN [k |-> r.k, c |-> r.c, l |-> l, waits |-> FALSE]
      ELSE LET r == Wait(k, c1, l) IN [k |-> r.k, c |-> r.c, l |-> r.l, waits |-> TRUE]
=============================================================================
