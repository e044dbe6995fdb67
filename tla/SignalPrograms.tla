--------------------------- MODULE SignalPrograms ---------------------------
(***************************************************************************)
(* Programs about signals, timers, process groups and daemons: tlpi-book's *)
(* signals, timers, pgsjc and daemons, and of the course quiz/quiz1,       *)
(* quiz/quiz2 and homework/hw7/7-2.  The task "user" is whoever sends the  *)
(* signals: a person at the terminal, or a second program; it starts when  *)
(* the first program has said that it is ready, where it says so.          *)
(***************************************************************************)
EXTENDS Syscalls, FiniteSets, TLC

Forever == Loop(<< Pause >>)
Sent(who, sigs) == Each(Len(sigs), LAMBDA j : << Try(Kill(C(who), sigs[j])) >>) \o << Exit(0) >>

-----------------------------------------------------------------------------
(* The functions of signals/signal.c and signals/signal_functions.c. *)

Signal(sig, h) == << HandleRestart(sig, h) >>

PrintSigset ==
    Each(2, LAMBDA j : LET sig == <<"INT", "QUIT">>[j]
                       IN  If(Member(sig, V("sigset")), << Puts(C(sig)) >>, << >>))
    \o If(Eq(V("sigset"), C({})), << Puts(C("<empty>")) >>, << >>)
PrintSigMask == << MaskSave("block", {}, "sigset") >> \o PrintSigset
PrintPendingSigs == << Sigpending(V("sigset")) >> \o PrintSigset

-----------------------------------------------------------------------------
(* tlpi-book/signals. *)

SiginfoHandler(sig) ==
    IF sig \in {"INT", "TERM"} THEN << Set(V("allDone"), C(1)), Ret >>
    ELSE << Add(V("sigCnt"), 1), Puts(C("caught")), Nop, Ret >>
\* A signal that ends the loop is lost between the test and pause.
CatchRtsigs ==
    << HandleMasked("INT", "done"), HandleMasked("RT1", "count"),
       MaskSave("set", {"RT1", "USR1"}, "prevMask"), Puts(C("blocked")), Nop,
       Puts(C("sleep complete")), MaskRestore("prevMask") >>
    \o While(Eq(V("allDone"), C(0)), << Pause >>) \o << PutNum(V("sigCnt")), Exit(0) >>
TSigqueue == Each(2, LAMBDA j : << Kill(C("main"), "RT1") >>)

IgnorePendingHandler == << Puts(C("Caught")), Ret >>
IgnorePendingSig ==
    << Handle("INT", "handler"), Mask("set", {"INT"}), Puts(C("BLOCKING")), Nop >>
    \o PrintPendingSigs \o << Nop, Handle("INT", "ign"), Sigpending(V("sigset")) >>
    \o If(Member("INT", V("sigset")), << Puts(C("now pending")) >>, PrintSigset)
    \o << Nop, Handle("INT", "handler"), Nop, Mask("set", {}), Exit(0) >>

SigHandler(sig) ==
    IF sig = "INT" THEN << Add(V("count"), 1), PutNum(V("count")), Ret >>
    ELSE << Puts(C("that's all folks")), Exit(0) >>
IntQuit == Signal("INT", "int") \o Signal("QUIT", "quit") \o Forever

\* crypt() returns the same static buffer to main and to the handler.
NonreentrantHandler == << Set(V("crypt"), C("str2")), Ret >>
Nonreentrant ==
    << Set(V("crypt"), C("str1")), Set(V("cr1"), V("crypt")), Handle("INT", "handler") >>
    \o Loop(<< Set(V("crypt"), C("str1")) >>
            \o If(Eq(V("crypt"), V("cr1")), << >>, << Puts(C("Mismatch")) >>))

ReceiverHandler(sig) ==
    IF sig = "INT" THEN << Set(V("gotSigint"), C(1)), Ret >> ELSE << Add(V("sigCnt"), 1), Ret >>
SigReceiver ==
    Signal("INT", "int") \o Signal("USR1", "usr1")
    \o << Mask("set", {"INT", "USR1"}), Puts(C("sleeping")), Nop, Mask("set", {}) >>
    \o While(Eq(V("gotSigint"), C(0)), << Nop >>)
    \o If(Eq(V("sigCnt"), C(0)), << >>, << PutNum(V("sigCnt")) >>) \o << Exit(0) >>
SigSender(numSigs, sig, sig2) ==
    Each(numSigs, LAMBDA j : << Kill(C("main"), sig) >>) \o << Kill(C("main"), sig2), Exit(0) >>

SigSpeedSigsuspend ==
    [main |-> << Handle("USR1", "nothing"), Mask("set", {"USR1"}), Fork("c1") >>
              \o Each(2, LAMBDA j : << Sigsuspend({}), Kill(C("c1"), "USR1") >>) \o << Exit(0) >>,
     c1   |-> Each(2, LAMBDA j : << Getppid(V("ppid")), Kill(V("ppid"), "USR1"), Sigsuspend({}) >>)
              \o << Exit(0) >>]

\* With setjmp the signal stays blocked after the jump.
LongjmpHandler ==
    << Puts(C("Received")) >> \o If(Eq(V("canJump"), C(0)), << Ret >>, << Longjmp("env") >>)
SigmaskLongjmp(sigsetjmp) ==
    << Handle("INT", "handler") >>
    \o If(Setjmp("env", sigsetjmp), << Set(V("canJump"), C(1)) >>, PrintSigMask) \o Forever

SignalfdSigval ==
    << Mask("block", {"RT1", "RT2"}), Puts(C("ready")) >>
    \o Loop(<< Sigwait({"RT1", "RT2"}, V("fdsi")), Puts(V("fdsi")) >>)

TKill(sig) ==
    IF sig = "0" THEN If(Kill(C("c1"), sig), << Puts(C("exists")) >>, << Puts(C("does not exist")) >>)
                      \o << Exit(0) >>
    ELSE << Kill(C("c1"), sig), Exit(0) >>

\* The handler of a stack overflow runs on its own stack.
SigsegvHandler == << Puts(C("Caught")), Exit(1) >>
OverflowStack == While(Lt(V("callNum"), C(3)), << Add(V("callNum"), 1) >>) \o << Kill(C("main"), "SEGV") >>
TSigaltstack == << Handle("SEGV", "sigsegvHandler") >> \o OverflowStack

SuspendHandler(sig) ==
    << Puts(C("Caught " \o sig)) >>
    \o (IF sig = "QUIT" THEN << Set(V("gotSigquit"), C(1)) >> ELSE << >>) \o << Ret >>
TSigsuspend ==
    << MaskSave("block", {"INT", "QUIT"}, "origMask"), Handle("INT", "int"), Handle("QUIT", "quit") >>
    \o While(Eq(V("gotSigquit"), C(0)),
             << Puts(C("LOOP")) >> \o PrintPendingSigs \o << SigsuspendTo("origMask") >>)
    \o << MaskRestore("origMask") >> \o PrintSigMask \o << Exit(0) >>

TSigwaitinfo ==
    << Mask("set", {"RT1", "USR1", "INT"}), Puts(C("blocked")), Nop >>
    \o Loop(<< Sigwait({"RT1", "USR1", "INT"}, V("sig")) >>
            \o If(Eq(V("sig"), C("INT")), << Exit(0) >>, << Puts(V("sig")) >>))

-----------------------------------------------------------------------------
(* tlpi-book/timers.  A timer that is not the alarm clock of the process   *)
(* is a task of the kernel that begins when the timer is armed.            *)

Armed == Set(S("armed"), C(1))
WhenArmed == Until(Eq(S("armed"), C(1)))

DemoTimerfd(maxExp) ==
    << Armed >> \o While(Lt(V("totalExp"), C(maxExp)),
                         << Take("numExp", "timerfd"), AddOf(V("totalExp"), V("numExp")),
                            PutNum(V("numExp")), PutNum(V("totalExp")) >>) \o << Exit(0) >>
Expirations(n) == WhenArmed \o Each(n, LAMBDA j : << Add(S("timerfd"), 1) >>) \o << Exit(0) >>

TimerHandler == << Puts(C("Got signal")), Ret >>
PtmrNullEvp == << Handle("ALRM", "handler"), Alarm("once") >> \o Forever
PtmrSigevSignal == << Handle("RT1", "handler"), Armed >> \o Forever

\* The condition has no predicate: what is signalled before the wait is
\* not seen.
ThreadFunc ==
    << Nop, Lock("mtx"), Add(V("expireCnt"), 1), Unlock("mtx"), CondSignal("cond"), ThreadExit(C("NULL")) >>
PtmrSigevThread ==
    [main |-> << Thread("c1"), Thread("c2"), Lock("mtx") >>
              \o Loop(<< CondWait("cond", "mtx"), PutNum(V("expireCnt")) >>),
     c1   |-> ThreadFunc, c2 |-> ThreadFunc]

\* The timer without an interval; what the loop prints while it waits is
\* left out.
DisplayTimes(msg) == << Puts(C(msg)) >>
SigalrmHandler == << Set(V("gotAlarm"), C(1)), Ret >>
RealTimer ==
    << Handle("ALRM", "sigalrmHandler") >> \o DisplayTimes("START")
    \o << Alarm("once"), Set(V("sigCnt"), C(0)) >>
    \o Loop(If(Eq(V("gotAlarm"), C(1)),
               << Set(V("gotAlarm"), C(0)) >> \o DisplayTimes("ALARM") \o << Add(V("sigCnt"), 1) >>
               \o If(Lt(V("sigCnt"), C(1)), << >>,
                     << Puts(C("That's all folks")), Exit(0) >>), << Nop >>))

SigintHandler == << Ret >>
TNanosleep ==
    << Handle("INT", "sigintHandler") >>
    \o Loop(If(Nop, << Puts(C("Slept")), Break >>, << Puts(C("Slept")), Puts(C("Remaining")) >>))
    \o << Puts(C("Sleep complete")), Exit(0) >>
TClockNanosleep(abstime) ==
    << Handle("INT", "sigintHandler") >>
    \o Loop(If(Nop, << Puts(C("Slept")), Break >>,
               << Puts(C("Interrupted")), Puts(C("Slept")) >>
               \o (IF abstime THEN << >> ELSE << Puts(C("Remaining")) >>) \o << Puts(C("Restarting")) >>))
    \o << Puts(C("Sleep complete")), Exit(0) >>

\* An alarm that expires before the read begins does not interrupt it.
ReadHandler == << Puts(C("Caught signal")), Ret >>
TimedRead(restart) ==
    << Open("in", "keyboard", {"r", "w"}),
       IF restart THEN HandleRestart("ALRM", "handler") ELSE Handle("ALRM", "handler"), Alarm("once") >>
    \o If(Read("in", V("buf")), << Alarm("off"), Puts(C("Successful read")) >>,
                                << Alarm("off"), Puts(C("Read timed out")) >>) \o << Exit(0) >>
Typist == << Open("key", "keyboard", {"r", "w"}), Nop, Write("key", C("line")) >> \o Forever

-----------------------------------------------------------------------------
(* tlpi-book/pgsjc and daemons. *)

CatchSIGHUPLoop(who) ==
    << Puts(C(who)), Alarm("once") >> \o Loop(<< Pause, Puts(C(who \o " caught")) >>)
CatchSIGHUP(arg) ==
    [main |-> << Handle("HUP", "nothing"), Fork("c1") >> \o CatchSIGHUPLoop("parent"),
     c1   |-> (IF arg THEN << Setpgid("c1") >> ELSE << >>) \o CatchSIGHUPLoop("child"),
     user |-> << See("child"), Try(KillGroup("main", "HUP")), Exit(0) >>]

DiscHandler == << Puts(V("who")), Ret >>
\* One child stays in the group of the parent, one has its own.
DiscSIGHUP ==
    LET child(c, d) == (IF d THEN << Setpgid(c) >> ELSE << >>)
                       \o << Set(V("who"), C(c)), Handle("HUP", "handler"), Puts(C("ready " \o c)),
                             Alarm("once") >> \o Forever
    IN  [main |-> << Fork("c1"), Fork("c2"), Alarm("once") >> \o Forever,
         c1 |-> child("c1", FALSE), c2 |-> child("c2", TRUE),
         user |-> << See("ready c1"), See("ready c2"), Try(KillGroup("main", "HUP")), Exit(0) >>]

TstpHandler ==
    << Puts(C("Caught SIGTSTP")), HandleRestart("TSTP", "dfl"), Kill(C("main"), "TSTP"),
       MaskSave("unblock", {"TSTP"}, "prevMask"), MaskRestore("prevMask"),
       HandleRestart("TSTP", "tstpHandler"), Puts(C("Exiting handler")), Ret >>
HandlingSIGTSTP ==
    If(Handler("TSTP", "ign"), << >>, << HandleRestart("TSTP", "tstpHandler") >>)
    \o Loop(<< Pause, Puts(C("Main")) >>)
StopAndContinue(who) == Until(Stopped(who)) \o << Kill(C(who), "CONT") >>

JobMonHandler(sig) ==
    << PutNum(V("cmdNum")), Puts(C(sig)) >>
    \o (IF sig = "TSTP" THEN << Kill(V("self"), "STOP") >> ELSE << >>) \o << Ret >>
\* A command of a pipeline: the first one numbers itself 1 and tells the next.
JobMon(who, first) ==
    << Set(V("self"), C(who)), Setpgid("main"), HandleRestart("TSTP", "tstp"), HandleRestart("CONT", "cont") >>
    \o (IF first THEN << Open("p1", "pipe", {"r", "w"}), Set(V("cmdNum"), C(0)) >>
        ELSE << Open("p0", "pipe", {"r", "w"}), Read("p0", V("cmdNum")) >>)
    \o << Add(V("cmdNum"), 1) >>
    \o (IF first THEN << Try(Write("p1", V("cmdNum"))) >> ELSE << Puts(C("started")) >>) \o Forever

\* A child that stops after the parent has gone is never continued.
OrphanHandler(sig) == << Puts(C(sig)), Ret >>
OrphanedPgrpSIGHUP ==
    [main |-> << Handle("HUP", "hup"), Handle("CONT", "cont"), Fork("c1"), Fork("c2"), Nop, Exit(0) >>,
     c1   |-> << Puts(C("stopping")), Kill(C("c1"), "STOP"), Exit(0) >>,
     c2   |-> << Alarm("once"), Nop, Pause, Exit(0) >>]

\* The new session has no controlling terminal.
TSetsid ==
    [main |-> << Try(Fork("c1")), Exit(0) >>,
     c1   |-> << Setsid, Puts(C("setsid")), Open("tty", "/dev/tty", {"r", "w"}), Exit(0) >>]

BecomeDaemon(rest) ==
    [main |-> << Fork("c1"), Exit(0) >>,
     c1   |-> << Setsid, Fork("c2"), Exit(0) >>,
     c2   |-> << Try(Close("stdin")), Try(Close("stdout")), Open("stdin", "null", {"r", "w"}),
                 Dup2("stdin", "stdout") >> \o rest]
TestBecomeDaemon == BecomeDaemon(<< Write("stdout", C("not seen")), Nop, Exit(0) >>)

LogMessage(m) == << Puts(C(m)) >>
LogOpen == LogMessage("Opened log file")
LogClose == LogMessage("Closing log file")
ReadConfigFile == LogMessage("Read config file")
SighupHandler == << Set(V("hupReceived"), C(1)), Ret >>

\* The messages at the end of every interval are left out.
DaemonSIGHUP ==
    LET d == BecomeDaemon(LogOpen \o ReadConfigFile
                          \o Loop(<< Nop >>
                                  \o If(Eq(V("hupReceived"), C(1)),
                                        << Set(V("hupReceived"), C(0)) >>
                                        \o LogClose \o LogOpen \o ReadConfigFile, << >>)))
    IN  [d EXCEPT !.main = << HandleRestart("HUP", "sighupHandler") >> \o @]

-----------------------------------------------------------------------------
(* quiz/quiz1: parent and child on a shared mapping.  In modify.c the      *)
(* child answers with SIGUSR2, for which the parent has no handler, and    *)
(* its count never changes; data_num is at most k, the size of data.       *)

Quiz1Generator == << Push(V("data"), C(3)) >>
Quiz1Handler == << Set(V("received"), C(1)), Ret >>
Quiz1AwaitSignal == While(Eq(V("received"), C(0)), << Pause >>)
Quiz1Modify ==
    [main |-> Quiz1Generator
              \o << HandleRestart("USR1", "sig_handler"), Fork("c1"), Set(S("shared"), V("data")),
                    Set(V("count"), C(1)), Kill(C("c1"), "USR1") >>
              \o Quiz1AwaitSignal \o << Set(V("received"), C(0)), Puts(C("parent sum")), Exit(0) >>,
     c1   |-> While(Lt(V("count"), C(1)),
                    Quiz1AwaitSignal
                    \o << Apply(S("shared"), << >>), Puts(C("Child sum")), Set(V("received"), C(0)),
                          Getppid(V("ppid")), Try(Kill(V("ppid"), "USR2")) >>) \o << Exit(0) >>]
\* The parent waits for each child before it creates the next.
Quiz1Main ==
    LET child == << PutNum(S("shared")), Exit(0) >>
    IN  [main |-> << Set(S("shared"), C(5)), Fork("c1"), Try(Wait), Fork("c2"), Try(Wait),
                     Puts(C("parent sum")), Exit(0) >>,
         c1 |-> child, c2 |-> child]

\* quiz/quiz2: P1 sends the errors that rand() chooses (the input), P2 mails
\* them.  A signal that comes before its handler is installed kills P2.
ErrorHandler(n) == << Puts(C(n)), Ret >>
ErrorDetect ==
    [main |-> << Fork("c1") >>
              \o While(Read("stdin", V("errType")),
                       << Puts(V("errType")) >>
                       \o If(Eq(V("errType"), C("1")), << Try(Kill(C("c1"), "USR1")) >>,
                             << Try(Kill(C("c1"), "RT1")) >>)
                       \o << Nop >>) \o Forever,
     c1   |-> << HandleRestart("USR1", "signalHandler_1"), HandleRestart("RT1", "signalHandler_3") >> \o Forever]

\* homework/hw7/7-2: the System V interface on top of the POSIX one.
Sigset(sig, h) ==
    IF h = "hold" THEN << Mask("block", {sig}) >> ELSE << Handle(sig, h), Mask("unblock", {sig}) >>
Sighold(sig) == << Mask("block", {sig}) >>
Sigrelse(sig) == << Mask("unblock", {sig}) >>
Sigignore(sig) == << Handle(sig, "ign") >>
\* The signal is unblocked before the wait begins, and may come in between.
Sigpause(sig) == << Mask("unblock", {sig}), Sigsuspend({}) >>

\* A caller that holds a signal, and waits for it.
SysvCaller ==
    Sigset("USR1", "handler") \o Sighold("USR1") \o Sigignore("USR2") \o << Puts(C("held")) >>
    \o Sigpause("USR1") \o << Puts(C("woken")) >> \o Sigrelse("USR1") \o << Exit(0) >>
SysvHandler == << Puts(C("handled")), Ret >>

-----------------------------------------------------------------------------

OneTask(script, user) == [main |-> script, user |-> user]
On1(code, hand, vals) == Program(code, hand, vals, None, NoInput)
Nothing == [nothing |-> << Ret >>]
Errors == Lines({"1", "3"})

SignalTable ==
    [catch_rtsigs |-> On1(OneTask(CatchRtsigs, << See("blocked") >> \o TSigqueue
                                               \o << See("sleep complete") >> \o Sent("main", <<"INT">>)),
                          [done |-> SiginfoHandler("INT"), count |-> SiginfoHandler("RT1")],
                          [allDone |-> 0, sigCnt |-> 0]),
     ignore_pending_sig |-> On1(OneTask(IgnorePendingSig, << See("BLOCKING") >> \o Sent("main", <<"INT">>)),
                                [handler |-> IgnorePendingHandler], None),
     intquit |-> On1(OneTask(IntQuit, Sent("main", <<"INT", "INT", "QUIT">>)),
                     [int |-> SigHandler("INT"), quit |-> SigHandler("QUIT")], [count |-> 0]),
     nonreentrant |-> On1(OneTask(Nonreentrant, Sent("main", <<"INT">>)),
                          [handler |-> NonreentrantHandler], None),
     sig_receiver |-> On1(OneTask(SigReceiver, << See("sleeping") >> \o SigSender(2, "USR1", "INT")),
                          [int |-> ReceiverHandler("INT"), usr1 |-> ReceiverHandler("USR1")],
                          [gotSigint |-> 0, sigCnt |-> 0]),
     sig_speed_sigsuspend |-> On1(SigSpeedSigsuspend, Nothing, None),
     sigsetjmp |-> On1(OneTask(SigmaskLongjmp(TRUE), << Kill(C("main"), "INT"), See("Received") >>
                                                     \o Sent("main", <<"INT">>)),
                       [handler |-> LongjmpHandler], [canJump |-> 0]),
     setjmp |-> On1(OneTask(SigmaskLongjmp(FALSE), << Kill(C("main"), "INT"), See("Received") >>
                                                   \o Sent("main", <<"INT">>)),
                    [handler |-> LongjmpHandler], [canJump |-> 0]),
     signalfd_sigval |-> On1(OneTask(SignalfdSigval, << See("ready") >> \o Sent("main", <<"RT1", "RT2">>)),
                             None, None),
     t_kill |-> On1([main |-> TKill("0"), c1 |-> << Nop, Exit(0) >>], None, None),
     t_sigaltstack |-> On1([main |-> TSigaltstack], [sigsegvHandler |-> SigsegvHandler], [callNum |-> 1]),
     t_sigsuspend |-> On1(OneTask(TSigsuspend, << See("LOOP"), Kill(C("main"), "INT"), See("Caught INT") >>
                                               \o Sent("main", <<"QUIT">>)),
                          [int |-> SuspendHandler("INT"), quit |-> SuspendHandler("QUIT")],
                          [gotSigquit |-> 0]),
     t_sigwaitinfo |-> On1(OneTask(TSigwaitinfo, << See("blocked") >> \o Sent("main", <<"RT1", "USR1", "INT">>)),
                           None, None),
     demo_timerfd |-> Program(OneTask(DemoTimerfd(2), Expirations(3)), None, [totalExp |-> 0],
                              [timerfd |-> 0, armed |-> 0], NoInput),
     ptmr_null_evp |-> On1([main |-> PtmrNullEvp], [handler |-> TimerHandler], None),
     ptmr_sigev_signal |-> Program(OneTask(PtmrSigevSignal, WhenArmed \o Sent("main", <<"RT1", "RT1">>)),
                                   [handler |-> TimerHandler], None, [armed |-> 0], NoInput),
     ptmr_sigev_thread |-> On1(PtmrSigevThread, None, [expireCnt |-> 0]),
     real_timer |-> On1([main |-> RealTimer], [sigalrmHandler |-> SigalrmHandler], [gotAlarm |-> 0]),
     t_nanosleep |-> On1(OneTask(TNanosleep, Sent("main", <<"INT", "INT">>)),
                         [sigintHandler |-> SigintHandler], None),
     t_clock_nanosleep |-> On1(OneTask(TClockNanosleep(TRUE), Sent("main", <<"INT">>)),
                               [sigintHandler |-> SigintHandler], None),
     timed_read |-> Program(OneTask(TimedRead(FALSE), Typist), [handler |-> ReadHandler], None,
                            [keyboard |-> << >>], NoInput),
     timed_read_restart |-> Program(OneTask(TimedRead(TRUE), Typist), [handler |-> ReadHandler], None,
                                    [keyboard |-> << >>], NoInput),
     catch_SIGHUP |-> On1(CatchSIGHUP(FALSE), Nothing, None),
     catch_SIGHUP_x |-> On1(CatchSIGHUP(TRUE), Nothing, None),
     disc_SIGHUP |-> On1(DiscSIGHUP, [handler |-> DiscHandler], None),
     handling_SIGTSTP |-> On1(OneTask(HandlingSIGTSTP, << Kill(C("main"), "TSTP") >> \o StopAndContinue("main")
                                                       \o << Exit(0) >>),
                              [tstpHandler |-> TstpHandler], None),
     job_mon |-> Program([main |-> JobMon("main", TRUE), c1 |-> JobMon("c1", FALSE),
                          user |-> << See("started"), KillGroup("main", "TSTP") >> \o StopAndContinue("main")
                                   \o StopAndContinue("c1") \o << Exit(0) >>],
                         [tstp |-> JobMonHandler("TSTP"), cont |-> JobMonHandler("CONT")], None,
                         [pipe |-> << >>], NoInput),
     orphaned_pgrp_SIGHUP |-> On1(OrphanedPgrpSIGHUP,
                                  [hup |-> OrphanHandler("HUP"), cont |-> OrphanHandler("CONT")], None),
     t_setsid |-> On1(TSetsid, None, None),
     test_become_daemon |-> Program(TestBecomeDaemon, None, None, [null |-> << >>], NoInput),
     daemon_SIGHUP |-> Program([user |-> << See("Opened log file"), Kill(C("c2"), "HUP"),
                                            See("Closing log file"), Kill(C("c2"), "HUP"), Exit(0) >>]
                               @@ DaemonSIGHUP,
                               [sighupHandler |-> SighupHandler], [hupReceived |-> 0],
                               [null |-> << >>], NoInput),
     quiz1_modify |-> Program(Quiz1Modify, [sig_handler |-> Quiz1Handler],
                              [data |-> << >>, received |-> 0, count |-> 0], [shared |-> << >>], NoInput),
     quiz1_main |-> Program(Quiz1Main, None, None, [shared |-> 0], NoInput),
     error_detect |-> Program(ErrorDetect, [signalHandler_1 |-> ErrorHandler("P2 1"),
                                            signalHandler_3 |-> ErrorHandler("P2 3")], None, None, Errors),
     systemV_signals |-> On1(OneTask(SysvCaller, << See("held") >> \o Sent("main", <<"USR1">>)),
                             [handler |-> SysvHandler], None)]

SignalEndless ==
    {"catch_rtsigs", "nonreentrant", "sigsetjmp", "setjmp", "signalfd_sigval", "ptmr_null_evp",
     "ptmr_sigev_signal", "ptmr_sigev_thread", "timed_read", "timed_read_restart", "handling_SIGTSTP",
     "job_mon", "orphaned_pgrp_SIGHUP", "daemon_SIGHUP", "quiz1_modify", "error_detect", "systemV_signals"}
\* An alarm or the hangup of the terminal is to end these.
SignalKilling ==
    [catch_SIGHUP |-> {"ALRM"}, catch_SIGHUP_x |-> {"ALRM"}, disc_SIGHUP |-> {"ALRM", "HUP"},
     orphaned_pgrp_SIGHUP |-> {"ALRM"}]
\* In these the user may send the signal before its handler is installed.
SignalTooEarly ==
    [intquit |-> {"INT", "QUIT"}, nonreentrant |-> {"INT"}, sigsetjmp |-> {"INT"}, setjmp |-> {"INT"},
     t_nanosleep |-> {"INT"}, t_clock_nanosleep |-> {"INT"}]
\* modify.c:113 "You need to handle SIGUSR2 in parent": it does not, and dies
\* of it.  error_detect.c:86: P1 may send before P2 has installed handlers.
SignalDeviating == {"quiz1_modify", "error_detect"}

Repeat(n, s) == FlattenSeq([k \in 1 .. n |-> s])
Interrupted(abstime) ==
    <<"Interrupted", "Slept">> \o (IF abstime THEN << >> ELSE <<"Remaining">>) \o <<"Restarting">>
\* Who catches SIGHUP does so after it said that it is ready.
Hangups(a, caughtA, b, caughtB) ==
    UNION {Merges(<<a>> \o x, <<b>> \o y) : x \in Perhaps(caughtA), y \in Perhaps(caughtB)}
\* What P2 reports, P1 has sent.
Reports(i) ==
    LET answer(e) == "P2 " \o e
        handled == {<< >>} \cup {<<answer(e)>> : e \in {i[k] : k \in DOMAIN i}}
                   \cup (IF Len(i) = 2 THEN {<<answer(i[1]), answer(i[2])>>, <<answer(i[2]), answer(i[1])>>} ELSE {})
    IN  {m \in UNION {Merges(i, h) : h \in handled} :
           \A k \in DOMAIN m : \A e \in {"1", "3"} :
             m[k] = answer(e) => \E j \in 1 .. k - 1 : m[j] = e}

SignalPromise ==
    [catch_rtsigs |-> Always({<<"blocked", "sleep complete", "caught", "caught">> \o n : n \in Perhaps(<<"2">>)}),
     ignore_pending_sig |->
        Always({<<"BLOCKING", "INT", "<empty>">>, <<"BLOCKING", "<empty>", "<empty>">>,
                <<"BLOCKING", "<empty>", "now pending", "Caught">>,
                <<"BLOCKING", "<empty>", "<empty>", "Caught">>}),
     intquit |-> Always(UNION {{[k \in 1 .. n |-> <<"1", "2">>[k]],
                                [k \in 1 .. n |-> <<"1", "2">>[k]] \o <<"that's all folks">>} : n \in 0 .. 2}),
     nonreentrant |-> Always(Perhaps(<<"Mismatch">>)),
     sig_receiver |-> Always({<<"sleeping", "1">>, <<"sleeping", "2">>}),
     sig_speed_sigsuspend |-> Always({<< >>}),
     sigsetjmp |-> Always({<< >>, <<"Received", "<empty>", "Received", "<empty>">>,
                           <<"Received", "Received", "<empty>">>, <<"Received", "Received">>}),
     setjmp |-> Always({<< >>, <<"Received", "INT">>, <<"Received", "Received", "INT">>,
                        <<"Received", "Received">>}),
     signalfd_sigval |-> Always({<<"ready", "RT1", "RT2">>, <<"ready", "RT2", "RT1">>}),
     t_kill |-> Always({<<"exists">>, <<"does not exist">>}),
     t_sigaltstack |-> Always({<<"Caught">>}),
     t_sigsuspend |-> Always({<<"LOOP", p, "Caught INT">> \o q \o <<"Caught QUIT", "<empty>">> :
                                p \in {"<empty>", "INT"},
                                q \in {<< >>, <<"LOOP", "<empty>">>, <<"LOOP", "QUIT">>}}),
     t_sigwaitinfo |-> Always({<<"blocked">> \o s :
                                s \in {<< >>, <<"RT1">>, <<"USR1">>, <<"RT1", "USR1">>, <<"USR1", "RT1">>}}),
     demo_timerfd |-> Always({<<"1", "1", "1", "2">>, <<"1", "1", "2", "3">>, <<"2", "2">>, <<"3", "3">>}),
     ptmr_null_evp |-> Always({<<"Got signal">>}),
     ptmr_sigev_signal |-> Always({<<"Got signal", "Got signal">>}),
     ptmr_sigev_thread |-> Always({<< >>, <<"1">>, <<"2">>, <<"1", "2">>, <<"2", "2">>}),
     real_timer |-> Always({<<"START", "ALARM", "That's all folks">>}),
     t_nanosleep |-> Always({<< >>} \cup {Repeat(n, <<"Slept", "Remaining">>) \o <<"Slept", "Sleep complete">> : n \in 0 .. 2}),
     t_clock_nanosleep |-> Always({<< >>} \cup {Repeat(n, Interrupted(TRUE)) \o <<"Slept", "Sleep complete">> : n \in 0 .. 1}),
     timed_read |-> Always({<<"Successful read">>, <<"Caught signal", "Successful read">>,
                            <<"Caught signal", "Read timed out">>}),
     timed_read_restart |-> Always({<<"Successful read">>, <<"Caught signal", "Successful read">>}),
     catch_SIGHUP |-> Always(Hangups("parent", <<"parent caught">>, "child", <<"child caught">>)
                             \cup {<< >>, <<"parent">>, <<"child">>}),
     catch_SIGHUP_x |-> Always(Hangups("parent", <<"parent caught">>, "child", << >>)
                               \cup {<<"child">>}),
     disc_SIGHUP |-> Always(Hangups("ready c1", <<"c1">>, "ready c2", << >>)
                            \cup {<< >>, <<"ready c1">>, <<"ready c2">>}),
     handling_SIGTSTP |-> Always({<< >>} \cup {<<"Caught SIGTSTP", "Exiting handler">> \o m : m \in Perhaps(<<"Main">>)}),
     job_mon |-> Always({<<"started">> \o m : m \in Merges(<<"1", "TSTP", "1", "CONT">>, <<"2", "TSTP", "2", "CONT">>)}),
     orphaned_pgrp_SIGHUP |-> Always({<<"stopping">>} \cup UNION {Merges(<<"stopping">> \o a, b) :
                                a \in {<< >>, <<"HUP", "CONT">>, <<"CONT", "HUP">>},
                                b \in {<< >>, <<"HUP">>, <<"CONT">>, <<"HUP", "CONT">>, <<"CONT", "HUP">>}}),
     t_setsid |-> Always({<<"setsid">>}),
     test_become_daemon |-> Always({<< >>}),
     daemon_SIGHUP |-> Always({<<"Opened log file", "Read config file">>
                               \o Repeat(2, <<"Closing log file", "Opened log file", "Read config file">>)}),
     quiz1_modify |-> Always({<<"Child sum", "parent sum">>}),
     quiz1_main |-> Always({<<"5", "5", "parent sum">>}),
     error_detect |-> [i \in Errors |-> Reports(i)],
     systemV_signals |-> Always({<<"held", "handled">> \o w : w \in Perhaps(<<"woken">>)})]

=============================================================================
