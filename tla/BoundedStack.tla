---------------------------- MODULE BoundedStack ----------------------------
(***************************************************************************)
(* What quiz/quiz3/stack.c promises its callers: a bounded LIFO stack on   *)
(* which push and pop each happen at one instant, push only when there is  *)
(* room and pop only when there is something to return.                    *)
(***************************************************************************)
EXTENDS Integers, Sequences

CONSTANTS Callers, STACK_SIZE

VARIABLES stack, result

svars == <<stack, result>>

SInit == stack = <<>> /\ result \in [Callers -> Callers \union {"none"}]

\* A caller pushes its own name: which value it is does not matter.
SPush(p) ==
    /\ Len(stack) < STACK_SIZE
    /\ stack' = Append(stack, p)
    /\ UNCHANGED result

SPop(p) ==
    /\ stack # <<>>
    /\ result' = [result EXCEPT ![p] = stack[Len(stack)]]
    /\ stack' = SubSeq(stack, 1, Len(stack) - 1)

SNext == \E p \in Callers : SPush(p) \/ SPop(p)

SSpec == SInit /\ [][SNext]_svars

=============================================================================
