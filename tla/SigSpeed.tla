------------------------------ MODULE SigSpeed ------------------------------
(***************************************************************************)
(* The signal ping-pong of homework/hw7/7-1: sig_speed_sigsuspend.c and    *)
(* sig_speed_sigwaitinfo.c.  A parent installs a handler for TESTSIG,      *)
(* blocks TESTSIG, forks, and then the two processes send TESTSIG to each  *)
(* other numSigs times, each waiting for the other's signal in turn.  The  *)
(* programs differ only in how they wait.                                  *)
(*                                                                         *)
(* A standard signal is one pending bit per process: a second kill() of a  *)
(* process whose bit is set is merged into the first.  The programs are    *)
(* correct only because the exchange never needs more than that bit.       *)
(***************************************************************************)
EXTENDS Integers

CONSTANT MaxNumSigs          \* largest num-sigs argument considered

\* getInt(argv[1], GN_GT_0, ...) rejects anything below 1.
ASSUME MaxNumSigsAssumption == MaxNumSigs \in Nat /\ MaxNumSigs >= 1

VARIABLES
    mode,      \* which of the two programs runs
    numSigs,   \* the command-line argument
    handler,   \* TRUE once sigaction() has installed handler(); survives fork
    pc,        \* where each process is
    scnt,      \* each process' loop counter
    blocked,   \* is TESTSIG in the process' signal mask
    pending,   \* is TESTSIG pending for the process
    sent,      \* history: kill() calls made to the process
    awaited    \* history: signals the process accepted in its wait call

vars == <<mode, numSigs, handler, pc, scnt, blocked, pending, sent, awaited>>

Proc == {"parent", "child"}
Peer(p) == IF p = "parent" THEN "child" ELSE "parent"

PC == {"sigaction", "sigprocmask", "fork", "unborn", "loop", "kill", "await",
       "waiting", "exited", "failed", "terminated"}

\* A process in one of these states can be the target of a kill().
Alive(p) == pc[p] \notin {"unborn", "exited", "failed", "terminated"}

Init ==
    /\ mode \in {"sigsuspend", "sigwaitinfo"}
    /\ numSigs \in 1..MaxNumSigs
    /\ handler = FALSE
    /\ pc = [p \in Proc |-> IF p = "parent" THEN "sigaction" ELSE "unborn"]
    /\ scnt = [p \in Proc |-> 0]
    /\ blocked = [p \in Proc |-> FALSE]
    /\ pending = [p \in Proc |-> FALSE]
    /\ sent = [p \in Proc |-> 0]
    /\ awaited = [p \in Proc |-> 0]

-----------------------------------------------------------------------------
(* The set-up, done by the parent alone. *)

\* Mistake: the handler is never installed.
SigactionOmitted ==
    /\ pc["parent"] = "sigaction"
    /\ pc' = [pc EXCEPT !["parent"] = "sigprocmask"]
    /\ UNCHANGED <<mode, numSigs, handler, scnt, blocked, pending, sent, awaited>>

Sigaction ==
    /\ pc["parent"] = "sigaction"
    /\ handler' = TRUE
    /\ pc' = [pc EXCEPT !["parent"] = "sigprocmask"]
    /\ UNCHANGED <<mode, numSigs, scnt, blocked, pending, sent, awaited>>

\* Mistake: the signal is not blocked before fork().
SigprocmaskOmitted ==
    /\ pc["parent"] = "sigprocmask"
    /\ pc' = [pc EXCEPT !["parent"] = "fork"]
    /\ UNCHANGED <<mode, numSigs, handler, scnt, blocked, pending, sent, awaited>>

Sigprocmask ==
    /\ pc["parent"] = "sigprocmask"
    /\ blocked' = [blocked EXCEPT !["parent"] = TRUE]
    /\ pc' = [pc EXCEPT !["parent"] = "fork"]
    /\ UNCHANGED <<mode, numSigs, handler, scnt, pending, sent, awaited>>

\* The child inherits the mask and the disposition, but no pending signal.
Fork ==
    /\ pc["parent"] = "fork"
    /\ pc' = [p \in Proc |-> "loop"]
    /\ blocked' = [blocked EXCEPT !["child"] = blocked["parent"]]
    /\ UNCHANGED <<mode, numSigs, handler, scnt, pending, sent, awaited>>

ForkFails ==
    /\ pc["parent"] = "fork"
    /\ pc' = [pc EXCEPT !["parent"] = "failed"]
    /\ UNCHANGED <<mode, numSigs, handler, scnt, blocked, pending, sent, awaited>>

-----------------------------------------------------------------------------
(* The loops.  The child sends first, the parent waits first. *)

\* Mistake: both processes send first.
FirstStepBothKill(p) == "kill"

FirstStep(p) == IF p = "child" THEN "kill" ELSE "await"

\* Mistake: the parent, which waits first, runs one round less.
LoopTestParentShort(p) ==
    /\ pc[p] = "loop"
    /\ pc' = [pc EXCEPT ![p] = IF scnt[p] < numSigs - (IF p = "parent" THEN 1 ELSE 0)
                               THEN FirstStep(p) ELSE "exited"]
    /\ UNCHANGED <<mode, numSigs, handler, scnt, blocked, pending, sent, awaited>>

\* for (scnt = 0; scnt < numSigs; scnt++), else exit(EXIT_SUCCESS)
LoopTest(p) ==
    /\ pc[p] = "loop"
    /\ pc' = [pc EXCEPT ![p] = IF scnt[p] < numSigs THEN FirstStep(p) ELSE "exited"]
    /\ UNCHANGED <<mode, numSigs, handler, scnt, blocked, pending, sent, awaited>>

\* The end of the loop body, with scnt++; or its other half.
EndOfStep(p, step) ==
    IF step = FirstStep(p)
    THEN /\ pc' = [pc EXCEPT ![p] = IF step = "kill" THEN "await" ELSE "kill"]
         /\ UNCHANGED scnt
    ELSE /\ pc' = [pc EXCEPT ![p] = "loop"]
         /\ scnt' = [scnt EXCEPT ![p] = @ + 1]

(***************************************************************************)
(* kill(peer, TESTSIG).  A blocked signal, or one for a process inside its *)
(* wait call, becomes pending (once).  An unblocked one is delivered at    *)
(* once: the empty handler swallows it, or the default action terminates   *)
(* the process.                                                            *)
(***************************************************************************)
Kill(p) ==
    LET q == Peer(p)
        held == blocked[q] \/ pc[q] = "waiting"
    IN /\ pc[p] = "kill"
       /\ EndOfStep(p, "kill")
       /\ sent' = [sent EXCEPT ![q] = @ + 1]
       /\ pending' = [pending EXCEPT ![q] = @ \/ (Alive(q) /\ held)]
       /\ UNCHANGED <<mode, numSigs, handler, blocked, awaited>>

\* The call to sigsuspend(&emptyMask) or sigwaitinfo(&blockedMask, NULL).
EnterWait(p) ==
    /\ pc[p] = "await"
    /\ pc' = [pc EXCEPT ![p] = "waiting"]
    /\ UNCHANGED <<mode, numSigs, handler, scnt, blocked, pending, sent, awaited>>

\* Either call returns when TESTSIG is pending, and consumes it.
TakeSignal(p) ==
    /\ pc[p] = "waiting"
    /\ pending[p]
    /\ pending' = [pending EXCEPT ![p] = FALSE]
    /\ awaited' = [awaited EXCEPT ![p] = @ + 1]
    /\ UNCHANGED <<mode, numSigs, handler, blocked, sent>>

\* sigsuspend: the temporary empty mask lets the handler run (without one the
\* process would be terminated), the old mask is restored, EINTR is returned.
SigsuspendReturns(p) ==
    /\ mode = "sigsuspend"
    /\ TakeSignal(p)
    /\ IF handler
       THEN EndOfStep(p, "await")
       ELSE pc' = [pc EXCEPT ![p] = "terminated"] /\ UNCHANGED scnt

\* sigwaitinfo: the signal is accepted and no handler runs.
SigwaitinfoReturns(p) ==
    /\ mode = "sigwaitinfo"
    /\ TakeSignal(p)
    /\ EndOfStep(p, "await")

-----------------------------------------------------------------------------

Finished == \A p \in Proc : ~Alive(p)

\* Both processes are gone: the system stays as it is.
Terminating == Finished /\ UNCHANGED vars

ProcStep(p) ==
    \/ LoopTest(p)
    \/ Kill(p)
    \/ EnterWait(p)
    \/ SigsuspendReturns(p)
    \/ SigwaitinfoReturns(p)

SetUp == Sigaction \/ Sigprocmask \/ Fork \/ ForkFails

Next == SetUp \/ (\E p \in Proc : ProcStep(p)) \/ Terminating

\* Each runnable process is eventually scheduled, and a kill() or a wait call
\* that can complete does: the kernel's scheduler gives weak fairness.
Fairness == WF_vars(SetUp) /\ \A p \in Proc : WF_vars(ProcStep(p))

Spec == Init /\ [][Next]_vars /\ Fairness

-----------------------------------------------------------------------------
(* Properties. *)

\* Type correctness of the state of the two processes.
TypeOK ==
    /\ mode \in {"sigsuspend", "sigwaitinfo"}
    /\ numSigs \in 1..MaxNumSigs
    /\ handler \in BOOLEAN
    /\ pc \in [Proc -> PC]
    /\ scnt \in [Proc -> 0..numSigs]
    /\ blocked \in [Proc -> BOOLEAN]
    /\ pending \in [Proc -> BOOLEAN]
    /\ sent \in [Proc -> Nat]
    /\ awaited \in [Proc -> Nat]

\* No TESTSIG is merged with an earlier one, swallowed by the handler outside
\* the wait call, or sent to nobody: what was sent to a process by kill() is
\* what its wait call accepted, plus the one that may be pending.
NoSignalLost ==
    \A p \in Proc : sent[p] = awaited[p] + (IF pending[p] THEN 1 ELSE 0)

\* The two loops stay in lock step: the parent, which ends a round with its
\* kill(), is never behind the child and at most one completed round ahead.
LockStep == scnt["parent"] - scnt["child"] \in {0, 1}

\* A kill() call always has a live target: neither process leaves its loop
\* while the other still has a signal to send to it, so kill(getppid()) never
\* goes to the process that adopted the child.
KillReachesLivePeer ==
    [][\A p \in Proc : sent'[Peer(p)] # sent[Peer(p)] => Alive(Peer(p))]_vars

\* The exchange ends, both processes leaving through exit(EXIT_SUCCESS) after
\* exactly numSigs rounds, unless fork() failed.
ExchangeCompletes ==
    <>(\/ pc = [p \in Proc |-> "exited"] /\ awaited = [p \in Proc |-> numSigs]
       \/ pc["parent"] = "failed" /\ pc["child"] = "unborn")

=============================================================================
