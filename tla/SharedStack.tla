---------------------------- MODULE SharedStack -----------------------------
(***************************************************************************)
(* quiz/quiz3/stack.c: a stack in shared memory, protected by one mutex    *)
(* and one condition variable on which both full and empty are waited for. *)
(* push() and pop() are called by any number of concurrent callers.        *)
(*                                                                         *)
(* pthread_cond_signal wakes one waiter, whichever the library picks, and  *)
(* a waiter may also wake up spuriously (bounded here by MaxSpurious); in  *)
(* either case it goes on only after it has the mutex again.               *)
(***************************************************************************)
EXTENDS Integers, FiniteSets

CONSTANTS
    Callers,      \* the processes that call push() and pop()
    STACK_SIZE,   \* the size of the stack (3 in stack.h)
    MaxCalls,     \* calls made by each caller
    MaxSpurious   \* spurious wakeups of the condition variable

ASSUME StackSizeAssumption == STACK_SIZE \in Nat \ {0}
ASSUME CallersAssumption == "none" \notin Callers
ASSUME BoundsAssumption == MaxCalls \in Nat /\ MaxSpurious \in Nat

VARIABLES
    index,     \* globalStack->index
    buffer,    \* globalStack->buffer
    mutex,     \* the holder of sharedMutex, or "none"
    pc,        \* where each caller is
    op,        \* which of the two functions each caller is in
    result,    \* toReturn of each caller's last pop()
    calls,     \* calls made so far by each caller
    spurious   \* spurious wakeups so far

vars == <<index, buffer, mutex, pc, op, result, calls, spurious>>

Free == "none"

Init ==
    /\ index = 0
    /\ buffer = [i \in 0..(STACK_SIZE - 1) |-> "none"]
    /\ mutex = Free
    /\ pc = [p \in Callers |-> "idle"]
    /\ op = [p \in Callers |-> "push"]
    /\ result = [p \in Callers |-> "none"]
    /\ calls = [p \in Callers |-> 0]
    /\ spurious = 0

\* The condition under which the caller's while loop keeps waiting.
MustWait(p) == index = (IF op[p] = "push" THEN STACK_SIZE ELSE 0)

Waiters == {p \in Callers : pc[p] = "waiting"}

-----------------------------------------------------------------------------

\* Entry of push() or pop().
Call(p, o) ==
    /\ pc[p] = "idle"
    /\ calls[p] < MaxCalls
    /\ calls' = [calls EXCEPT ![p] = @ + 1]
    /\ op' = [op EXCEPT ![p] = o]
    /\ pc' = [pc EXCEPT ![p] = "lock"]
    /\ UNCHANGED <<index, buffer, mutex, result, spurious>>

\* pthread_mutex_lock, on entry or at the end of pthread_cond_wait.
Lock(p) ==
    /\ pc[p] = "lock"
    /\ mutex = Free
    /\ mutex' = p
    /\ pc' = [pc EXCEPT ![p] = "test"]
    /\ UNCHANGED <<index, buffer, op, result, calls, spurious>>

\* The while test fails: go on.
TestPasses(p) ==
    /\ pc[p] = "test"
    /\ ~MustWait(p)
    /\ pc' = [pc EXCEPT ![p] = "update"]
    /\ UNCHANGED <<index, buffer, mutex, op, result, calls, spurious>>

\* Mistake: the mutex is not released while waiting.
CondWaitHolding(p) ==
    /\ pc[p] = "test"
    /\ MustWait(p)
    /\ pc' = [pc EXCEPT ![p] = "waiting"]
    /\ UNCHANGED <<index, buffer, mutex, op, result, calls, spurious>>

\* pthread_cond_wait: wait and release the mutex, at once.
CondWait(p) ==
    /\ pc[p] = "test"
    /\ MustWait(p)
    /\ pc' = [pc EXCEPT ![p] = "waiting"]
    /\ mutex' = Free
    /\ UNCHANGED <<index, buffer, op, result, calls, spurious>>

\* Mistake: buffer[++index] leaves the cell it should have filled as it was.
PushPreIncrement(p) ==
    /\ pc[p] = "update"
    /\ op[p] = "push"
    /\ buffer' = [i \in DOMAIN buffer |-> IF i = index + 1 THEN p ELSE buffer[i]]
    /\ index' = index + 1
    /\ pc' = [pc EXCEPT ![p] = "signal"]
    /\ UNCHANGED <<mutex, op, result, calls, spurious>>

\* buffer[index++] = oneInt
Push(p) ==
    /\ pc[p] = "update"
    /\ op[p] = "push"
    /\ buffer' = [buffer EXCEPT ![index] = p]
    /\ index' = index + 1
    /\ pc' = [pc EXCEPT ![p] = "signal"]
    /\ UNCHANGED <<mutex, op, result, calls, spurious>>

\* toReturn = buffer[--index]
Pop(p) ==
    /\ pc[p] = "update"
    /\ op[p] = "pop"
    /\ index' = index - 1
    /\ result' = [result EXCEPT ![p] = buffer[index - 1]]
    /\ pc' = [pc EXCEPT ![p] = "signal"]
    /\ UNCHANGED <<buffer, mutex, op, calls, spurious>>

\* Mistake: nobody is notified.
SignalOmitted(p) ==
    /\ pc[p] = "signal"
    /\ pc' = [pc EXCEPT ![p] = "unlock"]
    /\ UNCHANGED <<index, buffer, mutex, op, result, calls, spurious>>

\* pthread_cond_signal: one waiter, if any, will compete for the mutex.
Signal(p) ==
    /\ pc[p] = "signal"
    /\ \/ /\ Waiters = {}
          /\ pc' = [pc EXCEPT ![p] = "unlock"]
       \/ \E w \in Waiters : pc' = [pc EXCEPT ![p] = "unlock", ![w] = "lock"]
    /\ UNCHANGED <<index, buffer, mutex, op, result, calls, spurious>>

\* Mistake: return without pthread_mutex_unlock.
UnlockOmitted(p) ==
    /\ pc[p] = "unlock"
    /\ pc' = [pc EXCEPT ![p] = "idle"]
    /\ UNCHANGED <<index, buffer, mutex, op, result, calls, spurious>>

\* pthread_mutex_unlock and return.
Unlock(p) ==
    /\ pc[p] = "unlock"
    /\ mutex' = Free
    /\ pc' = [pc EXCEPT ![p] = "idle"]
    /\ UNCHANGED <<index, buffer, op, result, calls, spurious>>

\* pthread_cond_wait may return without a signal.
SpuriousWakeup(p) ==
    /\ pc[p] = "waiting"
    /\ spurious < MaxSpurious
    /\ spurious' = spurious + 1
    /\ pc' = [pc EXCEPT ![p] = "lock"]
    /\ UNCHANGED <<index, buffer, mutex, op, result, calls>>

-----------------------------------------------------------------------------

\* What a caller does on its own once it has called push() or pop().
Step(p) ==
    \/ Lock(p) \/ TestPasses(p) \/ CondWait(p)
    \/ Push(p) \/ Pop(p) \/ Signal(p) \/ Unlock(p)

Next ==
    \E p \in Callers :
        \/ \E o \in {"push", "pop"} : Call(p, o)
        \/ Step(p)
        \/ SpuriousWakeup(p)

\* Callers inside push() or pop() are scheduled; no caller waits forever for a
\* mutex that is free again and again.  Nothing makes a caller call, or a
\* waiter wake up spuriously.
Fairness == \A p \in Callers : WF_vars(Step(p)) /\ SF_vars(Lock(p))

Spec == Init /\ [][Next]_vars /\ Fairness

-----------------------------------------------------------------------------
(* Properties. *)

\* Type correctness of the shared memory and of the callers.
TypeOK ==
    /\ index \in 0..STACK_SIZE
    /\ buffer \in [0..(STACK_SIZE - 1) -> Callers \union {"none"}]
    /\ mutex \in Callers \union {Free}
    /\ pc \in [Callers -> {"idle", "lock", "test", "waiting", "update", "signal", "unlock"}]
    /\ op \in [Callers -> {"push", "pop"}]
    /\ result \in [Callers -> Callers \union {"none"}]
    /\ calls \in [Callers -> 0..MaxCalls]
    /\ spurious \in 0..MaxSpurious

\* The part of the buffer below index is the stack that callers see.
Bounded == INSTANCE BoundedStack WITH stack <- [i \in 1..index |-> buffer[i - 1]]

\* push() and pop() of concurrent callers behave as atomic operations on a
\* bounded LIFO stack: nothing is overwritten, popped twice or invented.
ImplementsStack == Bounded!SSpec

Ready(p) == pc[p] = "waiting" /\ ~MustWait(p)
Quiet == \A p \in Callers : pc[p] \in {"idle", "waiting"}
TwoSided == \E p, q \in Waiters : op[p] = "push" /\ op[q] = "pop"

\* "Notify waiting threads ... that the stack has changed and, due to the
\* operation just completed, there is now something to pop [push]": once every
\* caller has returned or waits, none waits for what is already there.  With
\* enough callers this is false: the one signal of a pop() may go to a popper.
NoMissedWakeup == Quiet => \A p \in Callers : ~Ready(p)

\* A wakeup is missed only where pushers and poppers wait at once.  As long as
\* one kind waits, each signal goes to that kind, and a woken caller that finds
\* what it waited for signals the next one.
OneSidedWakeup == ~TwoSided => NoMissedWakeup

\* Every call returns, or ends up waiting, and then for something that is not
\* there unless pushers and poppers wait at once.
CallsSettle == <>[](Quiet /\ OneSidedWakeup)

=============================================================================
