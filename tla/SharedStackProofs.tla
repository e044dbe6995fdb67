------------------------- MODULE SharedStackProofs --------------------------
(***************************************************************************)
(* push() and pop() of quiz/quiz3/stack.c are atomic operations on a       *)
(* bounded stack, for every stack size, every set of callers and every     *)
(* choice of the waiter that pthread_cond_signal wakes; no wakeup is lost  *)
(* as long as only pushers or only poppers wait, and process.c never gets  *)
(* further than that.                                                      *)
(*                                                                         *)
(* The strengthening says who holds the mutex and that the while test of a *)
(* caller about to update the stack still holds; the second needs the      *)
(* first, since only the holder changes index.                             *)
(***************************************************************************)
EXTENDS StackDriver, SequenceTheorems, TLAPS

Inside(p) == pc[p] \in {"test", "update", "signal", "unlock"}

HolderInside == \A p \in Callers : Inside(p) <=> mutex = p

TestStillHolds == \A p \in Callers : pc[p] = "update" => ~MustWait(p)

IndInv == TypeOK /\ HolderInside /\ TestStillHolds

-----------------------------------------------------------------------------

LEMMA InitIndInv == Init => IndInv
<1> SUFFICES ASSUME Init PROVE IndInv
  OBVIOUS
<1> USE StackSizeAssumption, CallersAssumption, BoundsAssumption DEF Init
<1>1. TypeOK
  BY DEF TypeOK, Free
<1>2. HolderInside
  BY DEF HolderInside, Inside, Free
<1>3. TestStillHolds
  BY DEF TestStillHolds
<1> QED
  BY <1>1, <1>2, <1>3 DEF IndInv

LEMMA NextIndInv == IndInv /\ [Next]_vars => IndInv'
<1> SUFFICES ASSUME IndInv, [Next]_vars PROVE IndInv'
  OBVIOUS
<1> USE StackSizeAssumption, CallersAssumption, BoundsAssumption
    DEF IndInv, TypeOK, HolderInside, Inside, TestStillHolds, MustWait, Free
<1>1. ASSUME NEW p \in Callers, NEW o \in {"push", "pop"}, Call(p, o) PROVE IndInv'
  BY <1>1 DEF Call
<1>2. ASSUME NEW p \in Callers, Lock(p) PROVE IndInv'
  BY <1>2 DEF Lock
<1>3. ASSUME NEW p \in Callers, TestPasses(p) PROVE IndInv'
  BY <1>3 DEF TestPasses
<1>4. ASSUME NEW p \in Callers, CondWait(p) PROVE IndInv'
  BY <1>4 DEF CondWait
<1>5. ASSUME NEW p \in Callers, Push(p) PROVE IndInv'
  BY <1>5 DEF Push
<1>6. ASSUME NEW p \in Callers, Pop(p) PROVE IndInv'
  BY <1>6 DEF Pop
<1>7. ASSUME NEW p \in Callers, Signal(p) PROVE IndInv'
  BY <1>7 DEF Signal, Waiters
<1>8. ASSUME NEW p \in Callers, Unlock(p) PROVE IndInv'
  BY <1>8 DEF Unlock
<1>9. ASSUME NEW p \in Callers, SpuriousWakeup(p) PROVE IndInv'
  BY <1>9 DEF SpuriousWakeup
<1>10. CASE UNCHANGED vars
  BY <1>10 DEF vars
<1> QED
  BY <1>1, <1>2, <1>3, <1>4, <1>5, <1>6, <1>7, <1>8, <1>9, <1>10 DEF Next, Step

LEMMA IndInvInvariant == Spec => []IndInv
  BY InitIndInv, NextIndInv, PTL DEF Spec

\* The index stays within the buffer and the shared state is well typed.
THEOREM TypeCorrect == Spec => []TypeOK
  BY IndInvInvariant, PTL DEF IndInv

-----------------------------------------------------------------------------
(* The refinement. *)

Contents == [i \in 1..index |-> buffer[i - 1]]

\* The first m cells of an array indexed from 0, as a sequence.
LEMMA ArraySeq ==
  ASSUME NEW S, NEW m \in Nat, NEW b, \A i \in 1..m : b[i - 1] \in S
  PROVE  /\ [i \in 1..m |-> b[i - 1]] \in Seq(S)
         /\ Len([i \in 1..m |-> b[i - 1]]) = m
<1> DEFINE c == [i \in 1..m |-> b[i - 1]]
<1>1. c \in [1..m -> S]
  OBVIOUS
<1>2. c \in Seq(S)
  BY <1>1, SeqDef
<1>3. DOMAIN c = 1..Len(c) /\ Len(c) \in Nat
  BY <1>2, LenProperties
<1>4. Len(c) = m
  BY <1>1, <1>3
<1> QED
  BY <1>2, <1>4

LEMMA ContentsSeq ==
  ASSUME IndInv
  PROVE  Contents \in Seq(Callers \union {"none"}) /\ Len(Contents) = index
<1>1. index \in Nat /\ \A i \in 1..index : buffer[i - 1] \in Callers \union {"none"}
  BY StackSizeAssumption DEF IndInv, TypeOK
<1> QED
  BY <1>1, ArraySeq DEF Contents

LEMMA PushRefines ==
  ASSUME IndInv, NEW p \in Callers, Push(p)
  PROVE  Bounded!SPush(p)
<1>1. index < STACK_SIZE /\ index \in Nat
  BY StackSizeAssumption DEF IndInv, TypeOK, TestStillHolds, MustWait, Push
<1>2. Len(Contents) < STACK_SIZE
  BY <1>1, ContentsSeq
<1>3. Contents' = Append(Contents, p)
  <2>1. IndInv'
    BY NextIndInv DEF Next, Step
  <2>2. Contents' \in Seq(Callers \union {"none"}) /\ Len(Contents') = index + 1
    <3>1. index' = index + 1 /\ \A i \in 1..index' : buffer'[i - 1] \in Callers \union {"none"}
      BY <1>1, <2>1, StackSizeAssumption DEF IndInv, TypeOK, Push
    <3> QED
      BY <1>1, <3>1, ArraySeq DEF Contents
  <2>3. /\ Append(Contents, p) \in Seq(Callers \union {"none"})
        /\ Len(Append(Contents, p)) = index + 1
        /\ \A i \in 1..(index + 1) :
              Append(Contents, p)[i] = IF i = index + 1 THEN p ELSE Contents[i]
    BY ContentsSeq, <1>1
  <2>4. \A i \in 1..(index + 1) : Contents'[i] = IF i = index + 1 THEN p ELSE Contents[i]
    <3> SUFFICES ASSUME NEW i \in 1..(index + 1)
                 PROVE  Contents'[i] = IF i = index + 1 THEN p ELSE Contents[i]
      OBVIOUS
    <3>1. Contents'[i] = [buffer EXCEPT ![index] = p][i - 1]
      BY <1>1 DEF Contents, Push
    <3>2. i - 1 \in 0..(STACK_SIZE - 1) /\ index \in 0..(STACK_SIZE - 1)
      BY <1>1, StackSizeAssumption
    <3>3. CASE i = index + 1
      BY <1>1, <3>1, <3>2, <3>3 DEF IndInv, TypeOK
    <3>4. CASE i # index + 1
      BY <1>1, <3>1, <3>2, <3>4 DEF IndInv, TypeOK, Contents
    <3> QED
      BY <3>3, <3>4
  <2> QED
    BY <1>1, <2>2, <2>3, <2>4, SeqEqual
<1> QED
  BY <1>2, <1>3 DEF Push, Bounded!SPush, Contents

LEMMA PopRefines ==
  ASSUME IndInv, NEW p \in Callers, Pop(p)
  PROVE  Bounded!SPop(p)
<1>1. index > 0 /\ index \in Nat
  BY StackSizeAssumption DEF IndInv, TypeOK, TestStillHolds, MustWait, Pop
<1>2. Contents # <<>> /\ Len(Contents) = index
  BY <1>1, ContentsSeq
<1>3. Contents[Len(Contents)] = buffer[index - 1]
  BY <1>1, <1>2 DEF Contents
<1>4. Contents' = SubSeq(Contents, 1, Len(Contents) - 1)
  BY <1>1, <1>2, ContentsSeq DEF Contents, Pop
<1> QED
  BY <1>2, <1>3, <1>4 DEF Pop, Bounded!SPop, Contents

LEMMA InitRefines == Init => Bounded!SInit
  BY DEF Init, Bounded!SInit

LEMMA NextRefines == IndInv /\ [Next]_vars => [Bounded!SNext]_(Bounded!svars)
<1> SUFFICES ASSUME IndInv, [Next]_vars PROVE [Bounded!SNext]_(Bounded!svars)
  OBVIOUS
<1>1. ASSUME NEW p \in Callers, Push(p) PROVE Bounded!SNext
  BY <1>1, PushRefines DEF Bounded!SNext
<1>2. ASSUME NEW p \in Callers, Pop(p) PROVE Bounded!SNext
  BY <1>2, PopRefines DEF Bounded!SNext
<1>3. CASE UNCHANGED <<index, buffer, result>>
  BY <1>3 DEF Bounded!svars
<1>4. ASSUME NEW p \in Callers,
             (\E o \in {"push", "pop"} : Call(p, o)) \/ Lock(p) \/ TestPasses(p) \/ CondWait(p)
               \/ Signal(p) \/ Unlock(p) \/ SpuriousWakeup(p)
      PROVE  UNCHANGED <<index, buffer, result>>
  BY <1>4 DEF Call, Lock, TestPasses, CondWait, Signal, Unlock, SpuriousWakeup
<1> QED
  BY <1>1, <1>2, <1>3, <1>4 DEF Next, Step, vars

\* Every behaviour of the callers of stack.c is a behaviour of a stack on which
\* push and pop are atomic.
THEOREM StackRefinement == Spec => ImplementsStack
  BY InitRefines, NextRefines, IndInvInvariant, PTL DEF Spec, ImplementsStack, Bounded!SSpec

-----------------------------------------------------------------------------
(* Wakeups. *)

\* Nobody is on its way to the while test or to pthread_cond_signal.
NoneActive == \A p \in Callers : pc[p] \in {"idle", "waiting", "unlock"}

WakeInv == NoneActive /\ ~TwoSided => \A p \in Callers : ~Ready(p)

LEMMA NextWakeInv == IndInv /\ WakeInv /\ [Next]_vars => WakeInv'
<1> SUFFICES ASSUME IndInv, WakeInv, [Next]_vars, NoneActive', ~TwoSided' PROVE \A p \in Callers : ~Ready(p)'
  BY DEF WakeInv
<1> USE DEF IndInv, TypeOK
<1>1. ASSUME NEW q \in Callers, pc'[q] \in {"lock", "test", "update", "signal"} PROVE FALSE
  BY <1>1 DEF NoneActive
\* Steps after which somebody is still active.
<1>2. ASSUME NEW q \in Callers, NEW o \in {"push", "pop"}, Call(q, o) PROVE FALSE
  BY <1>1, <1>2 DEF Call
<1>3. ASSUME NEW q \in Callers, Lock(q) \/ TestPasses(q) \/ Push(q) \/ Pop(q) \/ SpuriousWakeup(q) PROVE FALSE
  BY <1>1, <1>3 DEF Lock, TestPasses, Push, Pop, SpuriousWakeup
\* A signal without a waiter leaves nobody to wake.
<1>4. ASSUME NEW q \in Callers, Signal(q) PROVE \A p \in Callers : ~Ready(p)'
  <2>1. CASE Waiters = {} /\ pc' = [pc EXCEPT ![q] = "unlock"]
    BY <2>1 DEF Waiters, Ready
  <2>2. ASSUME NEW w \in Waiters, pc' = [pc EXCEPT ![q] = "unlock", ![w] = "lock"] PROVE FALSE
    BY <1>1, <2>2 DEF Waiters
  <2> QED
    BY <1>4, <2>1, <2>2 DEF Signal
\* A caller that begins to wait has seen the stack as those of its kind need it.
<1>5. ASSUME NEW q \in Callers, CondWait(q) PROVE \A p \in Callers : ~Ready(p)'
  <2> SUFFICES ASSUME NEW p \in Callers, pc'[p] = "waiting" PROVE MustWait(p)'
    BY DEF Ready
  <2>1. p \in Waiters' /\ q \in Waiters'
    BY <1>5 DEF CondWait, Waiters
  <2>2. op'[p] = op'[q]
    BY <2>1, <1>5 DEF TwoSided, CondWait
  <2> QED
    BY <1>5, <2>2 DEF CondWait, MustWait
\* The other steps change neither the stack nor the waiters.
<1>6. CASE UNCHANGED <<index, op, Waiters>> /\ NoneActive
  <2>1. \A p \in Callers : Ready(p)' => Ready(p)
    BY <1>6 DEF Ready, MustWait, Waiters
  <2>2. ~TwoSided
    BY <1>6 DEF TwoSided
  <2> QED
    BY <1>6, <2>1, <2>2 DEF WakeInv
<1>7. ASSUME NEW q \in Callers, Unlock(q) PROVE UNCHANGED <<index, op, Waiters>> /\ NoneActive
  BY <1>7 DEF Unlock, Waiters, NoneActive
<1>8. CASE UNCHANGED vars
  <2>1. UNCHANGED <<index, op, Waiters>> /\ NoneActive
    BY <1>8 DEF vars, Waiters, NoneActive
  <2> QED
    BY <1>6, <2>1
<1> QED
  BY <1>2, <1>3, <1>4, <1>5, <1>6, <1>7, <1>8 DEF Next, Step

LEMMA InitWakeInv == Init => WakeInv
  BY DEF Init, WakeInv, Ready

LEMMA WakeInvWakeup == WakeInv => OneSidedWakeup
  BY DEF WakeInv, OneSidedWakeup, NoMissedWakeup, Quiet, NoneActive

\* However many callers there are, a caller that waits although it could go on
\* has a caller of the other kind waiting beside it: with one condition variable
\* for both, this is the only way in which a pthread_cond_signal is wasted.
THEOREM WakeupsArrive == Spec => []OneSidedWakeup
  BY InitIndInv, NextIndInv, InitWakeInv, NextWakeInv, WakeInvWakeup, PTL DEF Spec

-----------------------------------------------------------------------------
(* The program around the stack. *)

LEMMA DriverStep == [DriverNext]_dvars => [Next]_vars
<1>1. ASSUME NEW o \in {"push", "pop"}, Fork(o) PROVE Next
  BY <1>1 DEF Fork, Next
<1>2. ASSUME NEW p \in Callers, NEW o \in {"push", "pop"}, FreeCall(p, o) PROVE Next
  BY <1>2 DEF FreeCall, Next
<1>3. ASSUME NEW p \in Callers, ChildStep(p) \/ ChildSpurious(p) PROVE Next
  BY <1>3 DEF ChildStep, ChildSpurious, Next
<1>4. CASE ForkFails \/ Wait \/ Return \/ UNCHANGED dvars
  BY <1>4 DEF ForkFails, Wait, Return, dvars
<1> QED
  BY <1>1, <1>2, <1>3, <1>4 DEF DriverNext, ParentStep

\* One child at a time: wait(NULL) comes before the next fork().
OneChild ==
    /\ kids \in Seq(Callers)
    /\ ppc # "none" =>
         \A p \in Callers : pc[p] # "idle" => ppc = "wait" /\ p = kids[Len(kids)]

LEMMA NextOneChild == IndInv /\ OneChild /\ [DriverNext]_dvars => OneChild'
<1> SUFFICES ASSUME IndInv, OneChild, [DriverNext]_dvars PROVE OneChild'
  OBVIOUS
<1> USE DEF IndInv, TypeOK, OneChild
<1>1. ASSUME NEW o \in {"push", "pop"}, Fork(o) PROVE OneChild'
  <2>1. PICK q \in Callers : Call(q, o) /\ kids' = Append(kids, q)
    BY <1>1 DEF Fork
  <2>2. /\ kids' \in Seq(Callers) /\ Len(kids') = Len(kids) + 1
        /\ kids'[Len(kids) + 1] = q
    BY <2>1, AppendProperties
  <2>3. \A p \in Callers : p # q => pc'[p] = "idle"
    BY <1>1, <2>1 DEF Fork, Call
  <2> QED
    BY <1>1, <2>2, <2>3 DEF Fork
<1>2. CASE ForkFails \/ Return
  BY <1>2 DEF ForkFails, Return, vars
<1>3. CASE Wait
  BY <1>3 DEF Wait, vars
<1>4. ASSUME NEW p \in Callers, NEW o \in {"push", "pop"}, FreeCall(p, o) PROVE OneChild'
  BY <1>4 DEF FreeCall
<1>5. ASSUME NEW q \in Callers, ChildStep(q) \/ ChildSpurious(q) PROVE OneChild'
  <2>1. UNCHANGED <<ppc, kids>>
    BY <1>5 DEF ChildStep, ChildSpurious
  <2>2. \A p \in Callers : pc[p] = "idle" => pc'[p] = "idle"
    BY <1>5 DEF ChildStep, ChildSpurious, Step, Lock, TestPasses, CondWait, Push, Pop, Signal, Unlock,
       SpuriousWakeup, Waiters
  <2> QED
    BY <2>1, <2>2
<1>6. CASE UNCHANGED dvars
  BY <1>6 DEF dvars, vars
<1> QED
  BY <1>1, <1>2, <1>3, <1>4, <1>5, <1>6 DEF DriverNext, ParentStep

LEMMA InitOneChild == DriverInit => OneChild
  BY EmptySeq DEF DriverInit, Init, OneChild

LEMMA DriverInvariant == DriverSpec => [](IndInv /\ WakeInv /\ OneChild)
<1>1. DriverInit => IndInv /\ WakeInv /\ OneChild
  BY InitIndInv, InitWakeInv, InitOneChild DEF DriverInit
<1>2. IndInv /\ WakeInv /\ OneChild /\ [DriverNext]_dvars => (IndInv /\ WakeInv /\ OneChild)'
  BY NextIndInv, NextWakeInv, NextOneChild, DriverStep
<1> QED
  BY <1>1, <1>2, PTL DEF DriverSpec

\* The children of process.c, or any other callers, together make a behaviour of
\* a stack on which push and pop are atomic.
THEOREM DriverRefinement == DriverSpec => ImplementsStack
<1>1. DriverInit => Bounded!SInit
  BY InitRefines DEF DriverInit
<1>2. IndInv /\ [DriverNext]_dvars => [Bounded!SNext]_(Bounded!svars)
  BY NextRefines, DriverStep
<1> QED
  BY <1>1, <1>2, DriverInvariant, PTL DEF DriverSpec, ImplementsStack, Bounded!SSpec

\* process.c misses no wakeup, whatever the stack size and its argument: it has
\* one child at a time, so pushers and poppers never wait at once.
THEOREM DriverWakeups == DriverSpec => [](ppc # "none" => NoMissedWakeup)
<1>1. IndInv /\ WakeInv /\ OneChild => (ppc # "none" => NoMissedWakeup)
  <2> SUFFICES ASSUME IndInv, WakeInv, OneChild, ppc # "none" PROVE NoMissedWakeup
    OBVIOUS
  <2>1. ~TwoSided
    BY DEF OneChild, TwoSided, Waiters, IndInv, TypeOK
  <2> QED
    BY <2>1, WakeInvWakeup DEF OneSidedWakeup
<1> QED
  BY <1>1, DriverInvariant, PTL

=============================================================================
