--------------------------- MODULE ProcessPrograms ---------------------------
(***************************************************************************)
(* Programs that create, execute and wait for processes:                   *)
(* tlpi-book/procexec.  A sleep is a point where the others may run,       *)
(* however long it lasts; of what is written, the parts are kept that tell *)
(* one outcome from another.                                               *)
(***************************************************************************)
EXTENDS Syscalls

\* The user stops, continues and terminates the child.
ChildStatus ==
    [main |-> << Fork("c1") >>
              \o Loop(<< Waitpid({}, V("status"), {"untraced", "continued"}), PutStatus(V("status")) >>
                      \o If(Is(V("status"), {"exited", "killed"}), << Exit(0) >>, << >>)),
     c1   |-> Loop(<< Pause >>),
     user |-> Until(Kill(C("c1"), "STOP")) \o << Kill(C("c1"), "CONT"), Kill(C("c1"), "TERM"), Exit(0) >>]

Ls == << Try(Write("stdout", C("ls"))), Exit(0) >>
CloseOnExec(arg) == [main |-> << IF arg THEN ExecClosing({"stdout"}) ELSE Exec >> \o Ls]

\* umask is shared with CLONE_FS; the disposition of SIGTERM with
\* CLONE_SIGHAND, which clone() refuses without CLONE_VM.
DemoClone(flags) ==
    LET umask == IF "fs" \in flags THEN S("umask") ELSE V("umask")
    IN  [main |-> << Set(umask, C("WOTH")), Open("fd", "null", {"r", "w"}), Handle("TERM", "ign"),
                     HandleRestart("USR1", "grimReaper"), Clone("c1", flags, "USR1"),
                     Wait, PutStatus(V("status")) >>
                  \o If(Eq(umask, C("WOTH")), << >>, << Puts(C("umask has changed")) >>)
                  \o If(Write("fd", C("Hello")), << >>, << Puts(C("fd has been closed")) >>)
                  \o If(Handler("TERM", "ign"), << >>, << Puts(C("disposition has changed")) >>)
                  \o << Exit(0) >>,
         c1   |-> << Set(IF "fs" \in flags THEN S("umask") ELSE V("childumask"), C("WGRP")),
                     Close("fd"), Handle("TERM", "dfl"), Exit(22) >>]
GrimReaper == << Puts(C("caught")), Ret >>

TClone(flags) ==
    [main |-> << Open("fd", "null", {"r", "w"}), Handle("USR1", "ign"), Clone("c1", flags, "USR1"),
                 Wait, Puts(C("child has terminated")) >>
              \o If(Write("fd", C("x")), << Puts(C("write succeeded")) >>, << Puts(C("closed")) >>)
              \o << Exit(0) >>,
     c1   |-> << Close("fd"), Exit(0) >>]

\* exit() keeps the last eight bits of what func() returned.
Footprint(arg) ==
    [main |-> << Fork("c1"), Wait, PutStatus(V("status")), Exit(0) >>,
     c1   |-> << Exit(arg) >>]

\* Parent and child share the open file: its offset and its flags.
ForkFileSharing ==
    [main |-> << PutNum(S("offset")), Puts(S("append")), Fork("c1"), Wait,
                 PutNum(S("offset")), Puts(S("append")), Exit(0) >>,
     c1   |-> << Set(S("offset"), C(1000)), Set(S("append"), C("on")), Exit(0) >>]

ForkSigSync ==
    [main |-> << MaskSave("block", {"USR1"}, "origMask"), HandleRestart("USR1", "nothing"),
                 Fork("c1"), Try(Sigsuspend({})), Puts(C("Parent got signal")),
                 MaskRestore("origMask"), Exit(0) >>,
     c1   |-> << Nop, Puts(C("Child about to signal")), Getppid(V("ppid")),
                 Kill(V("ppid"), "USR1"), Exit(0) >>]

\* With standard output a file, printf only fills a buffer, which both
\* processes have and both write out when they exit.
ForkStdioBuf(tty) ==
    LET flush == IF tty THEN << Exit(0) >> ELSE << Puts(C("Hello world")), Exit(0) >>
    IN  [main |-> (IF tty THEN << Puts(C("Hello world")) >> ELSE << Nop >>)
                  \o << Write("stdout", C("Ciao")), Fork("c1") >> \o flush,
         c1   |-> flush]

ForkWhosOnFirst ==
    LET child == [c1 |-> "0 child", c2 |-> "1 child"]
        parent == <<"0 parent", "1 parent">>
    IN  [main |-> Each(2, LAMBDA j : << Fork(<<"c1", "c2">>[j]), Puts(C(parent[j])), Try(Wait) >>)
                  \o << Exit(0) >>,
         c1   |-> << Puts(C(child.c1)), Exit(0) >>,
         c2   |-> << Puts(C(child.c2)), Exit(0) >>]

MakeZombie ==
    [main |-> << Fork("c1"), Nop, Ps("c1"), Try(Kill(C("c1"), "KILL")), Nop, Ps("c1"), Exit(0) >>,
     c1   |-> << Exit(0) >>]

SigchldHandler ==
    While(Waitpid({}, V("status"), {"nohang"}),
          << PutStatus(V("status")), Add(V("numLiveChildren"), -1) >>)
    \o << Nop, Ret >>

\* Mistake: numLiveChildren is one less than the number of arguments.
MultiSIGCHLDOneLess ==
    LET child == << Nop, Exit(0) >>
    IN  [main |-> << Set(V("numLiveChildren"), C(2)), Handle("CHLD", "sigchldHandler"),
                     Mask("set", {"CHLD"}), Fork("c1"), Fork("c2"), Fork("c3") >>
                  \o While(Lt(C(0), V("numLiveChildren")), << Try(Sigsuspend({})) >>)
                  \o << Puts(C("All children have terminated")), Exit(0) >>,
         c1 |-> child, c2 |-> child, c3 |-> child]

MultiSIGCHLD ==
    LET child == << Nop, Exit(0) >>
    IN  [main |-> << Set(V("numLiveChildren"), C(3)), Handle("CHLD", "sigchldHandler"),
                     Mask("set", {"CHLD"}), Fork("c1"), Fork("c2"), Fork("c3") >>
                  \o While(Lt(C(0), V("numLiveChildren")), << Try(Sigsuspend({})) >>)
                  \o << Puts(C("All children have terminated")), Exit(0) >>,
         c1 |-> child, c2 |-> child, c3 |-> child]

MultiWait ==
    LET child == << Nop, Exit(0) >>
    IN  [main |-> << Fork("c1"), Fork("c2"), Set(V("numDead"), C(0)) >>
                  \o Loop(If(Wait, << Add(V("numDead"), 1), PutNum(V("numDead")) >>,
                             << Puts(C("No more children")), Exit(0) >>)),
         c1 |-> child, c2 |-> child]

\* The child writes in every turn of its loop; only the last is kept.
Orphan ==
    [main |-> << Set(V("ppidOrig"), C("main")), Fork("c1"), Nop, Puts(C("Parent exiting")), Exit(0) >>,
     c1   |-> Loop(<< Getppid(V("ppid")) >>
                   \o If(Eq(V("ppid"), V("ppidOrig")), << Nop >>, << Break >>))
              \o << Puts(C("Child is orphaned")), Exit(0) >>]

-----------------------------------------------------------------------------
(* system(3): the simple version and the one that handles signals.  The    *)
(* command may send SIGINT to the process group, as the terminal does.     *)

ShellCommand ==
    If(Eq(V("str"), C("noshell")), << Exit(127) >>, << Exec >>)
    \o If(Eq(V("str"), C("interrupt")), << Try(Kill(C("main"), "INT")), Kill(C("c1"), "INT") >>, << >>)
    \o << Exit(0) >>

SimpleSystem(else) ==
    Unless(Fork("c1"), else) \o Unless(Waitpid({"c1"}, V("status"), {}), else)
SimpleSystemChild == ShellCommand

\* Mistake: a failure of fork returns at once.
SystemReturnsEarly(else) ==
    << MaskSave("block", {"CHLD"}, "origMask"), GetHandler("INT", "saOrigInt"),
       Handle("INT", "ign"), GetHandler("QUIT", "saOrigQuit"), Handle("QUIT", "ign") >>
    \o If(Fork("c1"),
          Unless(Waitpid({"c1"}, V("status"), {}), << Set(V("status"), C(<<"error", "">>)) >>),
          else)
    \o << MaskRestore("origMask"), Rehandle("INT", "saOrigInt"), Rehandle("QUIT", "saOrigQuit") >>
    \o If(Is(V("status"), {"error"}), else, << >>)

\* No handler is installed in t_system.c, so waitpid is never interrupted and
\* the loop on EINTR is left out; so is system(NULL), which nobody calls.
System(else) ==
    << MaskSave("block", {"CHLD"}, "origMask"), GetHandler("INT", "saOrigInt"),
       Handle("INT", "ign"), GetHandler("QUIT", "saOrigQuit"), Handle("QUIT", "ign") >>
    \o If(Fork("c1"),
          Unless(Waitpid({"c1"}, V("status"), {}), << Set(V("status"), C(<<"error", "">>)) >>),
          << Set(V("status"), C(<<"error", "">>)) >>)
    \o << MaskRestore("origMask"), Rehandle("INT", "saOrigInt"), Rehandle("QUIT", "saOrigQuit") >>
    \o If(Is(V("status"), {"error"}), else, << >>)
Ignores == [h |-> "ign", flag |-> ""]
SystemChild ==
    Unless(Eq(V("saOrigInt"), C(Ignores)), << Handle("INT", "dfl") >>)
    \o Unless(Eq(V("saOrigQuit"), C(Ignores)), << Handle("QUIT", "dfl") >>)
    \o << MaskRestore("origMask") >> \o ShellCommand

TSystem(system, child) ==
    [main |-> Loop(Unless(Read("stdin", V("str")), << Break >>)
                   \o system
                   \o If(Eq(V("status"), C(<<"exited", 127>>)), << Puts(C("no shell")) >>,
                         << PutStatus(V("status")) >>))
              \o << Exit(0) >>,
     c1   |-> child]

\* The same, started by a shell without job control in the background: it
\* begins with SIGINT ignored.
TSystemBackground ==
    LET code == TSystem(System(<< Exit(1) >>), SystemChild)
    IN  [code EXCEPT !["main"] = << Handle("INT", "ign") >> \o @]

TFork ==
    [main |-> << Set(V("idata"), C(111)), Fork("c1"), Nop, PutNum(V("idata")), Exit(0) >>,
     c1   |-> << Set(V("idata"), C(333)), PutNum(V("idata")), Exit(0) >>]

TVfork ==
    [main |-> << Set(V("istack"), C(222)) >> \o Vfork("c1")
              \o << Write("stdout", C("Parent executing")), PutNum(V("istack")), Exit(0) >>,
     c1   |-> << Nop, Write("stdout", C("Child executing")), Set(V("istack"), C(666)), Exit(0) >>]

VforkFdTest ==
    [main |-> Vfork("c1")
              \o Unless(Close("stdout"), << Puts(C("close 1")) >>)
              \o Unless(Close("stdout"), << Puts(C("close 2")) >>) \o << Exit(0) >>,
     c1   |-> Unless(Close("stdout"), << Puts(C("close - child")) >>) \o << Exit(0) >>]

-----------------------------------------------------------------------------
(* pdeath_signal: ancestors with one thread or with two, one of which      *)
(* creates the next process; the last one creates the child, c3.  The      *)
(* processes end in any order, as the sleeping times say.                  *)

PdeathHandler == << Getppid(V("ppid")), Puts(V("ppid")), Ret >>

CreateChild == << Fork("c3") >>
FinalChild ==
    << Handle("USR1", "handler"), Nop, Pdeathsig("USR1"), Nop, Nop,
       Puts(C("exit")), Exit(0) >>

PerformPerThreadSteps(create) == << Nop >> \o create \o << Nop >>
ThreadStartFunc(create) == PerformPerThreadSteps(create) \o << ThreadExit(C("NULL")) >>
\* threads: what is created by the initial thread and, if there is one, by c2.
CreateThreads(threads) ==
    (IF Len(threads) = 2 THEN << Thread("c2") >> ELSE << >>)
    \o PerformPerThreadSteps(threads[1]) \o << ThreadExit(C("NULL")) >>

CreateAncestor(a) == << Nop, Fork(a) >>
AncestorStart(at, threads) == (IF at THEN << Subreaper >> ELSE << >>) \o CreateThreads(threads)
PdeathMain == CreateAncestor("c1") \o << Try(Wait), Exit(0) >>

\* The ancestor has two threads; the one that plus names creates the child.
PdeathThreads(plus) ==
    LET creates(j) == IF j = plus THEN CreateChild ELSE << >>
    IN  [main |-> PdeathMain, c1 |-> AncestorStart(FALSE, <<creates(1), creates(2)>>),
         c2 |-> ThreadStartFunc(creates(2)), c3 |-> FinalChild]

\* Two ancestors, the more distant one a subreaper.
PdeathSubreaper ==
    [main |-> PdeathMain, c1 |-> AncestorStart(TRUE, << CreateAncestor("c2") >>),
     c2 |-> AncestorStart(FALSE, << CreateChild >>), c3 |-> FinalChild]

-----------------------------------------------------------------------------

Run0(code) == Program(code, None, None, [null |-> << >>], NoInput)
Commands == Lines({"ok", "interrupt", "noshell"})

ProcessTable ==
    [child_status |-> Run0(ChildStatus),
     closeonexec |-> Run0(CloseOnExec(FALSE)), closeonexec_arg |-> Run0(CloseOnExec(TRUE)),
     demo_clone |-> Program(DemoClone({}), [grimReaper |-> GrimReaper], None, [null |-> << >>], NoInput),
     demo_clone_df |-> Program(DemoClone({"files", "fs"}), [grimReaper |-> GrimReaper], None,
                               [null |-> << >>], NoInput),
     demo_clone_sv |-> Program(DemoClone({"vm", "sighand"}), [grimReaper |-> GrimReaper], None,
                               [null |-> << >>], NoInput),
     demo_clone_s |-> Program(DemoClone({"sighand"}), [grimReaper |-> GrimReaper], None,
                              [null |-> << >>], NoInput),
     t_clone |-> Run0(TClone({})), t_clone_files |-> Run0(TClone({"files"})),
     footprint |-> Run0(Footprint(255)), footprint_256 |-> Run0(Footprint(256)),
     fork_file_sharing |-> Program(ForkFileSharing, None, None, [offset |-> 0, append |-> "off"], NoInput),
     fork_sig_sync |-> Program(ForkSigSync, [nothing |-> << Ret >>], None, None, NoInput),
     fork_stdio_tty |-> Run0(ForkStdioBuf(TRUE)), fork_stdio_file |-> Run0(ForkStdioBuf(FALSE)),
     fork_whos_on_first |-> Run0(ForkWhosOnFirst), make_zombie |-> Run0(MakeZombie),
     multi_SIGCHLD |-> Program(MultiSIGCHLD, [sigchldHandler |-> SigchldHandler], None, None, NoInput),
     multi_wait |-> Run0(MultiWait), orphan |-> Run0(Orphan),
     simple_system |-> Program(TSystem(SimpleSystem(<< Exit(1) >>), SimpleSystemChild), None,
                               [status |-> << >>], None, Commands),
     t_system |-> Program(TSystem(System(<< Exit(1) >>), SystemChild), None,
                          [status |-> << >>], None, Commands),
     t_system_bg |-> Program(TSystemBackground, None, [status |-> << >>], None, Commands),
     t_fork |-> Run0(TFork), t_vfork |-> Run0(TVfork), vfork_fd_test |-> Run0(VforkFdTest),
     pdeath_first |-> Program(PdeathThreads(1), [handler |-> PdeathHandler], None, None, NoInput),
     pdeath_second |-> Program(PdeathThreads(2), [handler |-> PdeathHandler], None, None, NoInput),
     pdeath_subreaper |-> Program(PdeathSubreaper, [handler |-> PdeathHandler], None, None, NoInput)]

CommandOutput(cmd) ==
    CASE cmd = "ok" -> << "exited 0" >>
      [] cmd = "noshell" -> << "no shell" >>
      [] OTHER -> << "killed INT" >>
\* A command that began with SIGINT ignored goes on ignoring it.
BackgroundOutput(cmd) == IF cmd = "interrupt" THEN << "exited 0" >> ELSE CommandOutput(cmd)
\* The simple version dies of the signal that is meant for the command.
SimpleOutput(i) ==
    LET n == {k \in DOMAIN i : i[k] = "interrupt"}
        upto == IF n = {} THEN Len(i) ELSE (CHOOSE k \in n : \A j \in n : k <= j) - 1
    IN  FlattenSeq([k \in 1 .. upto |-> CommandOutput(i[k])])

Stops == {<< >>, <<"stopped ">>, <<"continued ">>, <<"stopped ", "continued ">>}
\* The parent of the child moves up the chain; each move may be told.
Deaths(chain) ==
    LET upward == {<< >>} \cup UNION {{d \in [1 .. n -> DOMAIN chain] :
                                        \A i \in 2 .. n : d[i - 1] <= d[i]} : n \in 1 .. 3}
    IN  UNION {Merges([i \in DOMAIN d |-> chain[d[i]]], <<"exit">>) : d \in upward}

ProcessPromise ==
    [child_status |-> Always({s \o <<"killed TERM">> : s \in Stops}),
     closeonexec |-> Always({<<"ls">>}), closeonexec_arg |-> Always({<< >>}),
     demo_clone |-> Always({<<"caught", "exited 22">>}),
     demo_clone_df |-> Always({<<"caught", "exited 22", "umask has changed", "fd has been closed">>}),
     demo_clone_sv |-> Always({<<"caught", "exited 22", "disposition has changed">>}),
     demo_clone_s |-> Always({<< >>}),
     t_clone |-> Always({<<"child has terminated", "write succeeded">>}),
     t_clone_files |-> Always({<<"child has terminated", "closed">>}),
     footprint |-> Always({<<"exited 255">>}), footprint_256 |-> Always({<<"exited 0">>}),
     fork_file_sharing |-> Always({<<"0", "off", "1000", "on">>}),
     fork_sig_sync |-> Always({<<"Child about to signal", "Parent got signal">>}),
     fork_stdio_tty |-> Always({<<"Hello world", "Ciao">>}),
     fork_stdio_file |-> Always({<<"Ciao", "Hello world", "Hello world">>}),
     fork_whos_on_first |-> Always({a \o b : a \in Merges(<<"0 parent">>, <<"0 child">>),
                                             b \in Merges(<<"1 parent">>, <<"1 child">>)}),
     make_zombie |-> Always({<<"live", "live">>, <<"live", "zombie">>, <<"zombie", "zombie">>}),
     multi_SIGCHLD |-> Always({<<"exited 0", "exited 0", "exited 0", "All children have terminated">>}),
     multi_wait |-> Always({<<"1", "2", "No more children">>}),
     orphan |-> Always({<<"Parent exiting", "Child is orphaned">>}),
     simple_system |-> [i \in Commands |-> {SimpleOutput(i)}],
     t_system |-> [i \in Commands |-> {FlattenSeq([k \in DOMAIN i |-> CommandOutput(i[k])])}],
     t_system_bg |-> [i \in Commands |-> {FlattenSeq([k \in DOMAIN i |-> BackgroundOutput(i[k])])}],
     t_fork |-> Always(Merges(<<"111">>, <<"333">>)),
     t_vfork |-> Always({<<"Child executing", "Parent executing", "666">>}),
     vfork_fd_test |-> Always({<<"close 2">>}),
     pdeath_first |-> Always(Deaths(<<"c1", "init">>)),
     pdeath_second |-> Always(Deaths(<<"c1", "init">>)),
     pdeath_subreaper |-> Always(Deaths(<<"c2", "c1", "init">>))]

\* In these a signal is sent to kill: by the user, by make_zombie itself, by
\* the command of system() to its group.
ProcessKilling ==
    [child_status |-> {"TERM"}, make_zombie |-> {"KILL"}, simple_system |-> {"INT"}, t_system |-> {"INT"}]
\* In these the parents wait for all their children.
ProcessReaping ==
    {"child_status", "demo_clone", "demo_clone_df", "demo_clone_sv", "t_clone", "t_clone_files",
     "footprint", "footprint_256", "fork_file_sharing", "multi_SIGCHLD", "multi_wait", "t_system",
     "t_system_bg"}
ProcessRestoring ==
    [t_system |-> [INT |-> "dfl", QUIT |-> "dfl"], t_system_bg |-> [INT |-> "ign", QUIT |-> "dfl"]]

=============================================================================
