--------------------------- MODULE SigSpeedProofs ---------------------------
(***************************************************************************)
(* Safety of the signal ping-pong for every bound on num-sigs.             *)
(*                                                                         *)
(* NoSignalLost alone is not inductive: that the pending bit of the target *)
(* is clear when kill() is called follows only from where the two loops    *)
(* are.  The strengthening counts what each process has sent and accepted  *)
(* in terms of its loop counter and its place in the loop body; the two    *)
(* inequalities that follow from a pending bit being 0 or 1 then pin the   *)
(* two counters together.                                                  *)
(***************************************************************************)
EXTENDS SigSpeed, TLAPS

Bit(b) == IF b THEN 1 ELSE 0

InSetUp == pc["parent"] \in {"sigaction", "sigprocmask", "fork", "failed"}

\* Before fork() nothing has been sent; the handler and the mask are set in order.
BeforeFork ==
    /\ pc["child"] = "unborn"
    /\ pc["parent"] # "sigaction" => handler
    /\ pc["parent"] \in {"fork", "failed"} => blocked["parent"]
    /\ \A p \in Proc : scnt[p] = 0 /\ sent[p] = 0 /\ awaited[p] = 0 /\ ~pending[p]

\* The places of a process in its loop, with what they say of the counter.
InLoop(p) ==
    /\ pc[p] \in {"loop", "kill", "await", "waiting", "exited"}
    /\ pc[p] \in {"kill", "await", "waiting"} => scnt[p] < numSigs
    /\ pc[p] = "exited" => scnt[p] = numSigs

\* What has been sent and accepted, from the two loop counters.
Counts ==
    /\ sent["parent"] = scnt["child"] + Bit(pc["child"] \in {"await", "waiting"})
    /\ awaited["parent"] = scnt["parent"] + Bit(pc["parent"] = "kill")
    /\ sent["child"] = scnt["parent"]
    /\ awaited["child"] = scnt["child"]

AfterFork ==
    /\ handler
    /\ blocked["parent"] /\ blocked["child"]
    /\ InLoop("parent") /\ InLoop("child")
    /\ Counts

IndInv ==
    /\ TypeOK
    /\ NoSignalLost
    /\ IF InSetUp THEN BeforeFork ELSE AfterFork

-----------------------------------------------------------------------------

LEMMA InitIndInv == Init => IndInv
<1> SUFFICES ASSUME Init PROVE IndInv
  OBVIOUS
<1>1. \A p \in Proc : ~pending[p]
  BY DEF Init
<1>2. TypeOK
  <2>1. blocked \in [Proc -> BOOLEAN] /\ pending \in [Proc -> BOOLEAN]
    BY Zenon DEF Init
  <2>2. scnt \in [Proc -> 0..numSigs] /\ sent \in [Proc -> Nat] /\ awaited \in [Proc -> Nat]
    BY MaxNumSigsAssumption DEF Init
  <2>3. mode \in {"sigsuspend", "sigwaitinfo"} /\ numSigs \in 1..MaxNumSigs /\ handler \in BOOLEAN
    BY Zenon DEF Init
  <2>4. pc \in [Proc -> PC]
    BY DEF Init, Proc, PC
  <2> QED
    BY <2>1, <2>2, <2>3, <2>4 DEF TypeOK
<1>3. NoSignalLost
  BY <1>1 DEF Init, NoSignalLost
<1>4. InSetUp /\ BeforeFork
  BY <1>1 DEF Init, InSetUp, BeforeFork, Proc
<1> QED
  BY <1>2, <1>3, <1>4 DEF IndInv

\* When a process is at its kill() the loops are level and its peer's bit is clear.
LEMMA KillLevel ==
  ASSUME IndInv, NEW p \in Proc, pc[p] = "kill"
  PROVE  /\ ~InSetUp
         /\ scnt["parent"] = scnt["child"]
         /\ ~pending[Peer(p)]
         /\ Alive(Peer(p))
         /\ p = "parent" => pc["child"] \in {"await", "waiting"}
         /\ p = "child" => pc["parent"] # "kill"
  BY DEF IndInv, TypeOK, NoSignalLost, InSetUp, BeforeFork, AfterFork, InLoop,
         Counts, Bit, Proc, Peer, Alive

LEMMA NextIndInv == IndInv /\ [Next]_vars => IndInv'
<1> SUFFICES ASSUME IndInv, [Next]_vars PROVE IndInv'
  OBVIOUS
<1> USE DEF IndInv, TypeOK, NoSignalLost, InSetUp, Proc, PC
<1>1. CASE Sigaction
  BY <1>1 DEF Sigaction, BeforeFork, AfterFork, InLoop
<1>2. CASE Sigprocmask
  BY <1>2 DEF Sigprocmask, BeforeFork, AfterFork, InLoop
<1>3. CASE Fork
  BY <1>3 DEF Fork, BeforeFork, AfterFork, InLoop, Counts, Bit
<1>4. CASE ForkFails
  BY <1>4 DEF ForkFails, BeforeFork, AfterFork, InLoop
<1>5. ASSUME NEW p \in Proc, LoopTest(p) PROVE IndInv'
  BY <1>5 DEF LoopTest, FirstStep, BeforeFork, AfterFork, InLoop, Counts, Bit
<1>6. ASSUME NEW p \in Proc, Kill(p) PROVE IndInv'
  BY <1>6, KillLevel
     DEF Kill, EndOfStep, FirstStep, Peer, Alive, BeforeFork, AfterFork, InLoop, Counts, Bit
<1>7. ASSUME NEW p \in Proc, EnterWait(p) PROVE IndInv'
  BY <1>7 DEF EnterWait, BeforeFork, AfterFork, InLoop, Counts, Bit
<1>8. ASSUME NEW p \in Proc, SigsuspendReturns(p) PROVE IndInv'
  BY <1>8 DEF SigsuspendReturns, TakeSignal, EndOfStep, FirstStep, BeforeFork,
     AfterFork, InLoop, Counts, Bit
<1>9. ASSUME NEW p \in Proc, SigwaitinfoReturns(p) PROVE IndInv'
  BY <1>9 DEF SigwaitinfoReturns, TakeSignal, EndOfStep, FirstStep, BeforeFork,
     AfterFork, InLoop, Counts, Bit
<1>10. CASE UNCHANGED vars
  BY <1>10 DEF vars, BeforeFork, AfterFork, InLoop, Counts, Bit
<1> QED
  BY <1>1, <1>2, <1>3, <1>4, <1>5, <1>6, <1>7, <1>8, <1>9, <1>10
  DEF Next, SetUp, ProcStep, Terminating

LEMMA IndInvInvariant == Spec => []IndInv
  BY InitIndInv, NextIndInv, PTL DEF Spec

\* The state of the two processes is well typed, the loop counters never
\* passing num-sigs.
THEOREM TypeCorrect == Spec => []TypeOK
  BY IndInvInvariant, PTL DEF IndInv

\* Whatever the scheduling, no signal of the exchange is merged or swallowed.
THEOREM SignalsNotLost == Spec => []NoSignalLost
  BY IndInvInvariant, PTL DEF IndInv

\* The loop counters stay within one round of each other.
THEOREM LoopsInLockStep == Spec => []LockStep
<1>1. IndInv => LockStep
  BY DEF IndInv, TypeOK, NoSignalLost, InSetUp, BeforeFork, AfterFork, InLoop,
         Counts, Bit, LockStep, Proc
<1> QED
  BY <1>1, IndInvInvariant, PTL

\* Every kill() of the exchange has a live target.
THEOREM KillsReachLivePeer == Spec => KillReachesLivePeer
<1> DEFINE Reaches == \A p \in Proc : sent'[Peer(p)] # sent[Peer(p)] => Alive(Peer(p))
<1>1. IndInv /\ [Next]_vars => [Reaches]_vars
  <2> SUFFICES ASSUME IndInv, Next, NEW p \in Proc, sent'[Peer(p)] # sent[Peer(p)]
               PROVE  Alive(Peer(p))
    OBVIOUS
  <2>1. PICK q \in Proc : Kill(q)
    BY DEF Next, SetUp, ProcStep, Terminating, vars, Sigaction, Sigprocmask, Fork,
           ForkFails, LoopTest, EnterWait, SigsuspendReturns, SigwaitinfoReturns, TakeSignal
  <2>2. Peer(q) = Peer(p)
    BY <2>1 DEF Kill, Proc, Peer, IndInv, TypeOK
  <2> QED
    BY <2>1, <2>2, KillLevel DEF Kill
<1> QED
  BY <1>1, IndInvInvariant, PTL DEF Spec, KillReachesLivePeer

=============================================================================
