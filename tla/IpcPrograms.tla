---------------------------- MODULE IpcPrograms ----------------------------
(***************************************************************************)
(* Programs about System V and POSIX message queues, semaphores and shared *)
(* memory: tlpi-book's svsem, svmsg, svshm, svipc, pmsg and pshm.  Most    *)
(* are commands; a program below is a session in which a shell (main)      *)
(* starts some of them, one after the other or at the same time.           *)
(***************************************************************************)
EXTENDS Syscalls, FiniteSets, TLC

\* A session: first one command, then two at the same time, then one more.
Session(first, a, b, last) ==
    [main |-> << Fork("c1"), Wait, Fork("c2"), Fork("c3"), Wait, Wait >> \o last,
     c1   |-> first, c2 |-> a, c3 |-> b]
\* An object is looked up, or created as the options say; one with the key
\* IPC_PRIVATE ("p") is always new.  Exactly one option gives the key.
Get(o, opts, keys, value) ==
    IF keys # 1 THEN << Exit(1) >>
    ELSE << IF "p" \in opts THEN CreateWith(o, TRUE, value)
            ELSE IF "c" \in opts THEN CreateWith(o, "x" \in opts, value) ELSE Exists(o) >>

-----------------------------------------------------------------------------
(* tlpi-book/svsem. *)

InitSemAvailable(s) == << Exists(s), Set(S(s), C(1)) >>
InitSemInUse(s) == << Exists(s), Set(S(s), C(0)) >>
\* The operation is tried again when a handler interrupts it, and fails when
\* the semaphore is removed.
ReserveSem(s) == Loop(If(SemOp(s, -1), << Break >>, << Exists(s) >>))
ReleaseSem(s) == << SemOp(s, 1) >>

WaitForEventFlag(s) == Loop(If(SemOp(s, 0), << Break >>, << Exists(s) >>))
ClearEventFlag(s) == << Set(S(s), C(1)) >>
SetEventFlag(s) == << Set(S(s), C(0)) >>
GetFlagState(s) == If(Eq(S(s), C(0)), << Puts(C("set")) >>, << Puts(C("clear")) >>)

\* The value is set after the semaphore can be seen.
SvsemBadInit ==
    If(CreateWith("sem", TRUE, 0), << Set(S("sem"), C(0)) >>, << Exists("sem") >>) \o << SemOp("sem", 1), Exit(0) >>
\* sem_otime is 0 until the first semop.
MaxTries == 2   \* bounds the attempts
SvsemGoodInit(n) ==
    If(CreateWith("sem", TRUE, 0), << Set(S("sem"), C(0)), SemOp("sem", 0), Set(S("otime"), C(1)) >>,
       << Exists("sem") >>
       \o Each(MaxTries, LAMBDA j : If(Eq(S("otime"), C(1)), << >>, << Nop >>))
       \o Unless(Eq(S("otime"), C(1)), << Puts(C("not initialized")), Exit(1) >>))
    \o << SemOp("sem", n), Exit(0) >>

SvsemCreate(opts, keys) == Get("sem", opts, keys, 0) \o << Exit(0) >>
SvsemDemo(init, op) ==
    IF init THEN << CreateWith("sem", TRUE, 0), Set(S("sem"), C(op)), Exit(0) >>
    ELSE << Puts(C("about to semop")), SemOp("sem", op), Puts(C("completed")), Exit(0) >>
SvsemMon == << Exists("sem"), PutNum(S("sem")), Exit(0) >>
SvsemOp(args, flag) ==
    Each(Len(args), LAMBDA k : << Puts(C("about to semop")), SemOps(args[k], flag), Puts(C("completed")) >>)
    \o << Exit(0) >>
SvsemRm == << Unlink("sem"), Exit(0) >>
SvsemSetall(vals, nsems) ==
    << Exists("sem") >> \o (IF Len(vals) # nsems THEN << Exit(1) >> ELSE << >>)
    \o << Set(S("sem"), C(vals[1])), Puts(C("changed")), Exit(0) >>

-----------------------------------------------------------------------------
(* tlpi-book/svmsg and svipc.  A message is its type and its text. *)

SvmsgCreate(opts, keys) == Get("msq", opts, keys, << >>) \o << Exit(0) >>
SvmsgSend(flag, m) == << IF flag = "n" THEN SendNonblock(C("msq"), C(m)) ELSE Send(C("msq"), C(m)), Exit(0) >>
\* types: the one of -t, all, or with -x all but that one.
SvmsgReceive(flag, types) ==
    << IF flag = "n" THEN RecvNonblock(C("msq"), "msg")
       ELSE IF types = {} THEN Recv(C("msq"), "msg") ELSE RecvType(C("msq"), "msg", types),
       PutNum(V("msg")), Exit(0) >>
SvmsgRm == << Unlink("msq"), Exit(0) >>

\* The client removes its queue at exit, also when the server reports a
\* failure; the server's child stops at a message it cannot send.
RemoveQueue == << Unlink("client") >>
SvmsgFileClient ==
    << Exists("server"), CreateWith("client", TRUE, << >>), Send(C("server"), C("client")), Recv(C("client"), "resp") >>
    \o If(Eq(V("resp"), C("FAILURE")), << Puts(C("Couldn't open")) >> \o RemoveQueue \o << Exit(1) >>, << >>)
    \o While(Eq(V("resp"), C("DATA")), << Puts(V("resp")), Recv(C("client"), "resp") >>)
    \o << Puts(V("resp")) >> \o RemoveQueue \o << Exit(0) >>
ServeRequest ==
    Unless(Open("fd", "file", {"r"}), << Try(Send(V("req"), C("FAILURE"))), Exit(1) >>)
    \o While(Read("fd", V("data")), If(Send(V("req"), C("DATA")), << >>, << Break >>))
    \o << Try(Send(V("req"), C("END"))), Exit(0) >>
SvmsgGrimReaper == While(Waitpid({}, V("status"), {"nohang"}), << >>) \o << Ret >>
SvmsgFileServer ==
    [main |-> << CreateWith("server", TRUE, << >>), HandleRestart("CHLD", "grimReaper"), Puts(C("ready")) >>
              \o Loop(If(Recv(C("server"), "req"), If(Fork("c1"), << >>, << Break >>),
                         If(Exists("server"), << Continue >>, << Break >>)))
              \o << Unlink("server"), Exit(0) >>,
     c1   |-> ServeRequest]

\* Several of them started at once remove each other's queue, and one that
\* finds the old queue gone gives up.
SvmsgDemoServer ==
    Loop(If(Create("msq", TRUE), << Break >>, << Exists("msq"), Unlink("msq"), Puts(C("Removed")) >>))
    \o << Exit(0) >>

-----------------------------------------------------------------------------
(* tlpi-book/svshm. *)

SvshmCreate(opts, keys) == Get("shm", opts, keys, 0) \o << Exit(0) >>
\* A segment that is marked for removal goes with its last user.
Shmdt == << Add(S("nattch"), -1) >>
         \o If(Eq(S("dest"), C(1)), If(Eq(S("nattch"), C(0)), << Try(Unlink("shm")) >>, << >>), << >>)
ShmRmid == << Exists("shm"), Set(S("dest"), C(1)) >> \o If(Eq(S("nattch"), C(0)), << Try(Unlink("shm")) >>, << >>)
SvshmAttach == << Exists("shm"), Add(S("nattch"), 1), Puts(C("attached")), Nop >> \o Shmdt \o << Exit(0) >>
SvshmRm == ShmRmid \o << Exit(0) >>
PrintShmDS == << PutNum(S("nattch")) >> \o If(Eq(S("dest"), C(1)), << Puts(C("[DEST]")) >>, << >>)
SvshmMon == << Exists("shm") >> \o PrintShmDS \o << Exit(0) >>

SvshmXfrReader ==
    << Exists("read_sem"), Exists("shm") >>
    \o Loop(ReserveSem("read_sem") \o If(Eq(S("shm"), C("eof")), << Break >>, << >>)
            \o << Puts(S("shm")) >> \o ReleaseSem("write_sem"))
    \o ReleaseSem("write_sem") \o << Exit(0) >>
SvshmXfrWriter ==
    << CreateWith("write_sem", FALSE, 0), CreateWith("read_sem", FALSE, 0) >>
    \o InitSemAvailable("write_sem") \o InitSemInUse("read_sem") \o << CreateWith("shm", FALSE, "") >>
    \o Loop(ReserveSem("write_sem") \o If(Read("stdin", S("shm")), << >>, << Set(S("shm"), C("eof")) >>)
            \o ReleaseSem("read_sem") \o If(Eq(S("shm"), C("eof")), << Break >>, << >>))
    \o ReserveSem("write_sem") \o << Unlink("read_sem"), Unlink("write_sem"), Unlink("shm"), Exit(0) >>

-----------------------------------------------------------------------------
(* tlpi-book/pmsg.  A message is its priority and its text. *)

PmsgCreate(opts) ==
    << IF "c" \in opts THEN CreateWith("mq", "x" \in opts, << >>) ELSE Exists("mq"), Exit(0) >>
PmsgSend(m) == << Exists("mq"), SendPrio(C("mq"), C(m)), Exit(0) >>
PmsgReceive(flag) ==
    << Exists("mq"), IF flag = "n" THEN RecvNonblock(C("mq"), "buffer") ELSE Recv(C("mq"), "buffer"),
       PutNum(V("buffer")), Exit(0) >>
PmsgGetattr == << Exists("mq") >> \o If(Eq(S("mq"), C(<< >>)), << Puts(C("empty")) >>, << Puts(C("messages")) >>)
               \o << Exit(0) >>
PmsgUnlink == << Unlink("mq"), Exit(0) >>

\* Who is notified registers again, and then reads until the queue is empty.
Drain(buffer) == While(RecvNonblock(C("mq"), buffer), << Puts(V(buffer)) >>)
NotifyBySignal == << Notify("mq", "main", "USR1") >>
\* What is in the queue before the first registration is not announced.
MqNotifySig ==
    << Exists("mq"), Mask("block", {"USR1"}), Handle("USR1", "handler") >> \o NotifyBySignal
    \o Loop(<< Sigsuspend({}) >> \o NotifyBySignal \o Drain("msg"))
MqHandler == << Ret >>
MqNotifySigwaitinfo ==
    << Exists("mq"), Mask("block", {"RT1"}), Notify("mq", "main", "RT1") >>
    \o Loop(<< Sigwait({"RT1"}, V("si")), Notify("mq", "main", "RT1") >> \o Drain("msg"))
GotSigHandler == << Set(V("gotSig"), C(1)), Ret >>
MqNotifyViaSignal ==
    << Exists("mq"), Handle("USR1", "handler") >>
    \o Loop(If(Eq(V("gotSig"), C(1)), << Set(V("gotSig"), C(0)) >> \o NotifyBySignal \o Drain("msg"), << >>)
            \o << Nop >>)
SiginfoGotSig == << Set(V("gotSig"), C(1)), Puts(C("Signaled")), Ret >>
MqNotifySiginfo ==
    << Exists("mq"), Handle("USR1", "handler") >>
    \o Loop(If(Eq(V("gotSig"), C(1)), << Set(V("gotSig"), C(0)) >> \o NotifyBySignal \o Drain("msg"), << >>)
            \o << Nop >>)

\* The C library's helper (c3) starts a thread for every notification.
NotifySetup == << Notify("mq", "c3", "RT2") >>
StartHelper == << Mask("block", {"RT2"}), Thread("c3") >>
NotifyHelper(first, then) ==
    << Sigwait({"RT2"}, V("si")), Thread(first), Sigwait({"RT2"}, V("si")), Thread(then) >>
    \o Loop(<< Pause >>)
NotifyThreadFunc(buffer) == NotifySetup \o Drain(buffer) \o << ThreadExit(C("NULL")) >>
MqNotifyThread ==
    [main |-> << Exists("mq") >> \o StartHelper \o NotifySetup \o Loop(<< Pause >>),
     c1   |-> NotifyThreadFunc("buf1"), c2 |-> NotifyThreadFunc("buf2"), c3 |-> NotifyHelper("c1", "c2")]
ViaNotifySetup == << Notify("mq", "c3", "RT2") >>
DrainQueue(buffer) == Drain(buffer)
ViaThreadFunc(buffer) == ViaNotifySetup \o DrainQueue(buffer) \o << ThreadExit(C("NULL")) >>
MqNotifyViaThread ==
    [main |-> << Exists("mq") >> \o StartHelper \o ViaNotifySetup \o DrainQueue("buf0") \o Loop(<< Pause >>),
     c1   |-> ViaThreadFunc("buf1"), c2 |-> ViaThreadFunc("buf2"), c3 |-> NotifyHelper("c1", "c2")]

-----------------------------------------------------------------------------
(* tlpi-book/pshm: an object of two parts, which a copy changes one after  *)
(* the other.                                                              *)

PshmCreate(opts) ==
    << IF "c" \in opts THEN CreateWith("shm", "x" \in opts, 0) ELSE Exists("shm"),
       Set(S("part1"), C("0")), Set(S("part2"), C("0")), Exit(0) >>
PshmWrite == << Exists("shm"), Set(S("part1"), C("a")), Set(S("part2"), C("b")), Exit(0) >>
PshmRead == << Exists("shm"), Set(V("copy"), S("part1")), Puts(V("copy")), Puts(S("part2")), Exit(0) >>
PshmUnlink == << Unlink("shm"), Exit(0) >>

-----------------------------------------------------------------------------

Ipc(code, objs) == Program(code, None, None, objs, NoInput)
\* Two messages come while the program runs.
Sender(a, b) == << Send(C("mq"), C(a)), Send(C("mq"), C(b)), Exit(0) >>
Notified2(code, hand, vals) ==
    Program([user |-> Sender("x", "y")] @@ code, hand, vals, [mq |-> << >>], NoInput)
Blocks == {<< >>, <<"x">>, <<"x", "y">>}
FileClient == << See("ready") >> \o SvmsgFileClient
EventSetter == GetFlagState("flag") \o << Kill(C("main"), "USR1") >> \o SetEventFlag("flag") \o << Exit(0) >>
EventWaiter == << HandleRestart("USR1", "handler") >> \o ClearEventFlag("flag") \o << Fork("c1") >>
               \o WaitForEventFlag("flag") \o GetFlagState("flag") \o << Exit(0) >>

IpcTable ==
    [svsem_bad_init |-> Ipc(Session(<< Exit(0) >>, SvsemBadInit, SvsemBadInit, SvsemMon), [none |-> 0]),
     svsem_good_init |-> Ipc(Session(<< Exit(0) >>, SvsemGoodInit(1), SvsemGoodInit(1), SvsemMon), [otime |-> 0]),
     svsem_demo |-> Ipc(Session(SvsemDemo(TRUE, 0), SvsemDemo(FALSE, -1), SvsemDemo(FALSE, 1), SvsemRm), None),
     svsem_op |-> Ipc(Session(SvsemCreate({"c", "x"}, 1), SvsemOp(<< <<<<"sem", -1>>, <<"sem2", -1>>>> >>, ""),
                              SvsemOp(<< <<<<"sem", 1>>>>, <<<<"sem2", 1>>>> >>, ""), SvsemMon), [sem2 |-> 0]),
     svsem_op_nowait |-> Ipc(Session(SvsemCreate({"c", "x"}, 1), SvsemOp(<< <<<<"sem", -1>>>> >>, "nonblock"),
                                     SvsemOp(<< <<<<"sem", 1>>>> >>, ""), SvsemMon), None),
     svsem_setall |-> Ipc(Session(SvsemCreate({"p"}, 1), SvsemSetall(<<1>>, 1), SvsemDemo(FALSE, -1), SvsemMon), None),
     event_flags |-> Program([main |-> EventWaiter, c1 |-> EventSetter], [handler |-> << Ret >>], None,
                             [flag |-> 0], NoInput),
     svmsg |-> Ipc(Session(SvmsgCreate({"c"}, 1), SvmsgSend("", <<"1", "x">>), SvmsgSend("", <<"2", "y">>),
                           SubSeq(SvmsgReceive("", {"2"}), 1, 2) \o SubSeq(SvmsgReceive("", {}), 1, 2) \o SvmsgRm), None),
     svmsg_receive |-> Ipc(Session(SvmsgCreate({"p"}, 1), SvmsgSend("n", <<"1", "x">>), SvmsgReceive("n", {}), SvmsgRm), None),
     svmsg_full |-> Ipc(Session(SubSeq(SvmsgCreate({"p"}, 1), 1, Len(SvmsgCreate({"p"}, 1)) - 1)
                                \o SubSeq(SvmsgSend("", <<"1", "x">>), 1, 1) \o SvmsgSend("", <<"1", "y">>),
                                SvmsgSend("n", <<"2", "z">>), SvmsgReceive("", {}), SvmsgReceive("n", {})), None),
     svmsg_file |-> Program([user |-> FileClient] @@ SvmsgFileServer, [grimReaper |-> SvmsgGrimReaper], None,
                            [file |-> <<"a", "b", "c">>], NoInput),
     svmsg_file_missing |-> Program([user |-> FileClient] @@ SvmsgFileServer, [grimReaper |-> SvmsgGrimReaper],
                                    None, [other |-> << >>], NoInput),
     svmsg_demo_server |-> Ipc([main |-> SvmsgDemoServer, user |-> SvmsgDemoServer], [msq |-> << >>]),
     svshm |-> Ipc(Session(SvshmCreate({"c"}, 1), SvshmAttach, SvshmRm, SvshmMon), [nattch |-> 0, dest |-> 0]),
     svshm_mon |-> Ipc(Session(SvshmCreate({"p"}, 1), SvshmAttach, SvshmMon, SvshmRm), [nattch |-> 0, dest |-> 0]),
     svshm_xfr |-> Program([main |-> SvshmXfrWriter, user |-> Until(Exists("shm")) \o SvshmXfrReader],
                           None, None, None, Blocks),
     pmsg |-> Ipc(Session(PmsgCreate({"c"}), PmsgSend(<<0, "x">>), PmsgSend(<<1, "y">>),
                          SubSeq(PmsgReceive(""), 2, 3) \o SubSeq(PmsgReceive("n"), 2, 3) \o PmsgUnlink), None),
     pmsg_receive |-> Ipc(Session(PmsgCreate({"c", "x"}), PmsgSend(<<0, "x">>), PmsgReceive(""), PmsgGetattr), None),
     mq_notify_sig |-> Notified2([main |-> MqNotifySig], [handler |-> MqHandler], None),
     mq_notify_sigwaitinfo |-> Notified2([main |-> MqNotifySigwaitinfo], None, None),
     mq_notify_via_signal |-> Notified2([main |-> MqNotifyViaSignal], [handler |-> GotSigHandler], [gotSig |-> 1]),
     mq_notify_siginfo |-> Notified2([main |-> MqNotifySiginfo], [handler |-> SiginfoGotSig], [gotSig |-> 1]),
     mq_notify_thread |-> Notified2(MqNotifyThread, None, None),
     mq_notify_via_thread |-> Notified2(MqNotifyViaThread, None, None),
     pshm |-> Ipc(Session(PshmCreate({"c"}), PshmWrite, PshmRead, PshmUnlink), [part1 |-> "", part2 |-> ""])]

IpcEndless ==
    {"svmsg_file", "svmsg_file_missing", "mq_notify_sig", "mq_notify_sigwaitinfo", "mq_notify_via_signal",
     "mq_notify_siginfo", "mq_notify_thread", "mq_notify_via_thread"}
IpcReaping == {"svsem_bad_init", "svsem_demo", "svsem_op", "svmsg", "svshm", "pmsg", "pshm"}

About == <<"about to semop", "completed">>
Both == {<<"x", "y">>}
\* The messages of the handler come anywhere among those read.
Signaled == UNION {Merges(<<"x", "y">>, [k \in 1 .. n |-> "Signaled"]) : n \in 0 .. 2}

IpcPromise ==
    [svsem_bad_init |-> Always({<<"1">>, <<"2">>}),
     svsem_good_init |-> Always({<<"2">>, <<"not initialized", "1">>}),
     svsem_demo |-> Always(Merges(About, About)),
     svsem_op |-> Always({m \o <<"0">> : m \in Merges(About, About \o About)}),
     svsem_op_nowait |-> Always(Merges(<<"about to semop">>, About \o <<"1">>)
                                \cup {m \o <<"0">> : m \in Merges(About, About)}),
     svsem_setall |-> Always({m \o <<"0">> : m \in Merges(<<"changed">>, About)}),
     event_flags |-> Always({<<"clear", "set">>}),
     svmsg |-> Always({<<ToString(<<"2", "y">>), ToString(<<"1", "x">>)>>}),
     svmsg_receive |-> Always({<< >>, <<ToString(<<"1", "x">>)>>}),
     svmsg_full |-> Always({<<ToString(<<"1", "x">>), ToString(<<"1", "y">>)>>}),
     svmsg_file |-> Always({<<"ready", "DATA", "DATA", "DATA", "END">>}),
     svmsg_file_missing |-> Always({<<"ready", "Couldn't open">>}),
     svmsg_demo_server |-> Always({<<"Removed">>, <<"Removed", "Removed">>}),
     svshm |-> Always({<< >>, <<"attached">>, <<"attached", "0", "[DEST]">>}),
     svshm_mon |-> Always(Merges(<<"attached">>, <<"0">>) \cup Merges(<<"attached">>, <<"1">>)),
     svshm_xfr |-> [i \in Blocks |-> {i}],
     pmsg |-> Always({<<ToString(<<1, "y">>), ToString(<<0, "x">>)>>}),
     pmsg_receive |-> Always({<<ToString(<<0, "x">>), "empty">>}),
     mq_notify_sig |-> Always({<< >>} \cup Both),
     mq_notify_sigwaitinfo |-> Always({<< >>} \cup Both),
     mq_notify_via_signal |-> Always(Both),
     mq_notify_siginfo |-> Always(Signaled),
     mq_notify_thread |-> Always({<< >>, <<"y", "x">>} \cup Both),
     mq_notify_via_thread |-> Always({<<"y", "x">>} \cup Both),
     pshm |-> Always({<<a, b>> : a \in {"0", "a"}, b \in {"0", "b"}})]

=============================================================================
