---------------------------- MODULE StackDriver -----------------------------
(***************************************************************************)
(* quiz/quiz3/process.c: the program around SharedStack.  The parent forks *)
(* n children one after the other; each calls push() or pop() once, chosen *)
(* at random, and the parent waits for it before it forks the next.  The   *)
(* stack lives in a mapped file; its mutex and condition variable are      *)
(* initialized process-shared.                                             *)
(*                                                                         *)
(* The same module also lets the callers of stack.c call on their own, as  *)
(* any other program would: then ppc is "none".                            *)
(***************************************************************************)
EXTENDS SharedStack, Sequences

VARIABLES
    ppc,    \* where the parent is, or "none" without process.c
    n,      \* the command-line argument
    kids    \* the children forked so far, in order: the loop index i is Len(kids)

dvars == <<vars, ppc, n, kids>>

DriverInit ==
    /\ Init
    /\ ppc \in {"fork", "none"}
    /\ n \in 0..Cardinality(Callers)
    /\ ppc = "none" => n = 0
    /\ kids = <<>>

\* One turn of the loop: fork() a child that makes the call it was given.
Fork(o) ==
    /\ ppc = "fork"
    /\ Len(kids) < n
    /\ \E p \in Callers : Call(p, o) /\ kids' = Append(kids, p)
    /\ ppc' = "wait"
    /\ UNCHANGED n

\* perror("fork"); exit(1)
ForkFails ==
    /\ ppc = "fork"
    /\ Len(kids) < n
    /\ ppc' = "failed"
    /\ UNCHANGED <<vars, n, kids>>

\* wait(NULL) returns when the child has left push() or pop() and exited.
Wait ==
    /\ ppc = "wait"
    /\ pc[kids[Len(kids)]] = "idle"
    /\ ppc' = "fork"
    /\ UNCHANGED <<vars, n, kids>>

Return ==
    /\ ppc = "fork"
    /\ Len(kids) >= n
    /\ ppc' = "returned"
    /\ UNCHANGED <<vars, n, kids>>

ParentStep == (\E o \in {"push", "pop"} : Fork(o)) \/ ForkFails \/ Wait \/ Return

\* A caller that is not a child of process.c.
FreeCall(p, o) == ppc = "none" /\ Call(p, o) /\ UNCHANGED <<ppc, n, kids>>

ChildStep(p) == Step(p) /\ UNCHANGED <<ppc, n, kids>>

ChildLock(p) == Lock(p) /\ UNCHANGED <<ppc, n, kids>>

ChildSpurious(p) == SpuriousWakeup(p) /\ UNCHANGED <<ppc, n, kids>>

DriverNext ==
    \/ ParentStep
    \/ \E p \in Callers :
         \/ \E o \in {"push", "pop"} : FreeCall(p, o)
         \/ ChildStep(p) \/ ChildSpurious(p)

\* As in SharedStack, and the parent is scheduled.
DriverSpec ==
    /\ DriverInit /\ [][DriverNext]_dvars
    /\ WF_dvars(ParentStep)
    /\ \A p \in Callers : WF_dvars(ChildStep(p)) /\ SF_dvars(ChildLock(p))

-----------------------------------------------------------------------------
(* Properties. *)

\* The program returns, or it hangs for good in a child that pops from an empty
\* stack or pushes on a full one, since no later child is ever forked.
ReturnsOrHangs ==
    <>[](\/ ppc \in {"none", "returned", "failed"}
         \/ /\ ppc = "wait"
            /\ pc[kids[Len(kids)]] = "waiting"
            /\ MustWait(kids[Len(kids)]))

=============================================================================
