--------------------------- MODULE SocketPrograms ---------------------------
(***************************************************************************)
(* Programs about sockets and about waiting for several descriptors:       *)
(* tlpi-book's sockets and altio, hw11/practice, hw8/44-7 and the lecture  *)
(* notes on sockets.  Servers (main) wait on the name "sv"; the user       *)
(* starts a client when the server listens.  One message of a stream       *)
(* stands for the bytes that one read returns.                             *)
(***************************************************************************)
EXTENDS Syscalls, TLC

WhenUp(client) == Until(Exists("sv")) \o client
\* Whatever comes from d is written to e.
Copy(d, e) == While(Read(d, V("buf")), << Write(e, V("buf")) >>)

-----------------------------------------------------------------------------
(* The library: unix_sockets.c, inet_sockets.c, rdwrn.c, read_line.c and   *)
(* read_line_buf.c.                                                        *)

UnixConnect(d, conn) == << Connect(d, "sv", conn) >>
\* Fails if the pathname exists.
UnixBind == << Create("addr", TRUE) >>
\* The addresses are tried in turn.
InetConnect(d, addrs, conn) ==
    Loop(Each(Len(addrs), LAMBDA j : If(Connect(d, addrs[j], conn), << Break >>, << >>)) \o << Exit(1) >>)
InetPassiveSocket(addrs) ==
    Loop(Each(Len(addrs), LAMBDA j : If(Create(addrs[j], TRUE), << Break >>, << >>)) \o << Exit(1) >>)
InetListen == InetPassiveSocket(<<"addr6", "addr4">>) \o << Listen("sv") >>
InetBind == InetPassiveSocket(<<"addr6", "addr4">>) \o << CreateWith("sv", TRUE, << >>) >>

\* A line of at most n - 1 bytes, the rest of it dropped; atEof is done when
\* there is no line.
ReadLine(d, n, atEof) ==
    << Set(V("line"), C(<< >>)), Set(V("tot"), C(0)) >>
    \o Loop(If(Read(d, V("ch")),
               If(Lt(V("tot"), C(n - 1)), << Push(V("line"), V("ch")), Add(V("tot"), 1) >>, << >>)
               \o If(Eq(V("ch"), C("nl")), << Break >>, << >>),
               If(Eq(V("tot"), C(0)), atEof, << >>) \o << Break >>))
\* Bytes come from a buffer (rlbuf), which is filled when it is empty.
ReadLineBufInit == << Set(S("rlbuf"), C(<< >>)) >>
ReadLineBuf(d, n) ==
    << Set(V("line"), C(<< >>)), Set(V("tot"), C(0)) >>
    \o Loop(Unless(RecvNonblock(C("rlbuf"), "ch"),
                   If(Read(d, V("block")), << Set(S("rlbuf"), V("block")), Recv(C("rlbuf"), "ch") >>, << Break >>))
            \o If(Lt(V("tot"), C(n)), << Push(V("line"), V("ch")), Add(V("tot"), 1) >>, << >>)
            \o If(Eq(V("ch"), C("nl")), << Break >>, << >>))
Readn(d, n) ==
    << Set(V("line"), C(<< >>)), Set(V("tot"), C(0)) >>
    \o While(Lt(V("tot"), C(n)), If(Read(d, V("ch")), << Push(V("line"), V("ch")), Add(V("tot"), 1) >>, << Break >>))
Writen(d, bytes) == Each(Len(bytes), LAMBDA k : << Write(d, C(bytes[k])) >>)

-----------------------------------------------------------------------------
(* Clients and iterative servers. *)

UsXfrSv ==
    << Try(Unlink("addr")), Create("addr", TRUE), Listen("sv") >>
    \o Loop(<< Accept("cfd", "sv") >> \o Copy("cfd", "stdout") \o << Try(Close("cfd")) >>)
UsXfrCl(conn) == << Connect("sfd", "sv", conn) >> \o Copy("stdin", "sfd") \o << Exit(0) >>
UsXfrV2Sv ==
    UnixBind \o << Listen("sv") >>
    \o Loop(<< Accept("cfd", "sv") >> \o Copy("cfd", "stdout") \o << Try(Close("cfd")) >>)
UsXfrV2Cl(conn) == UnixConnect("sfd", conn) \o Copy("stdin", "sfd") \o << Exit(0) >>

\* Datagrams: a client's message is its own address; the answer is the
\* message in capitals.
Toupper == "user" :> "USER" @@ "c3" :> "C3"
UdUcaseSv ==
    << Try(Unlink("sv")), CreateWith("sv", TRUE, << >>) >>
    \o Loop(<< Recv(C("sv"), "buf"), Set(V("claddr"), V("buf")), Apply(V("buf"), Toupper), Send(V("claddr"), V("buf")) >>)
UdUcaseCl(me, n) ==
    << CreateWith(me, TRUE, << >>) >>
    \o Each(n, LAMBDA j : << Send(C("sv"), C(me)), Recv(C(me), "resp"), Puts(V("resp")) >>)
    \o << Try(Unlink(me)), Exit(0) >>
I6dUcaseSv ==
    << CreateWith("sv", TRUE, << >>) >>
    \o Loop(<< Recv(C("sv"), "buf"), Set(V("claddr"), V("buf")), Apply(V("buf"), Toupper), Send(V("claddr"), V("buf")) >>)
\* The client's socket gets its address with its first message.
I6dUcaseCl(me, n) ==
    << CreateWith(me, TRUE, << >>) >>
    \o Each(n, LAMBDA j : << Send(C("sv"), C(me)), Recv(C(me), "resp"), Puts(V("resp")) >>) \o << Exit(0) >>
IdEchoSv == InetBind \o Loop(<< Recv(C("sv"), "buf"), Try(Send(V("buf"), V("buf"))) >>)
IdEchoCl(me, n) ==
    << Exists("sv"), CreateWith(me, TRUE, << >>) >>
    \o Each(n, LAMBDA j : << Send(C("sv"), C(me)), Recv(C(me), "buf"), Puts(V("buf")) >>) \o << Exit(0) >>

\* A request is a number; a request that cannot be read, or is not positive,
\* is skipped.  A client may be gone before the answer comes.
SeqnumRequest ==
    If(Read("cfd", V("reqLen")),
       If(Lt(C(0), V("reqLen")), << Try(Write("cfd", V("seqNum"))), AddOf(V("seqNum"), V("reqLen")) >>, << >>), << >>)
    \o << Try(Close("cfd")) >>
\* Mistake: SIGPIPE kills the server.
IsSeqnumSvDies ==
    Loop(Each(2, LAMBDA j : If(Create(<<"addr6", "addr4">>[j], TRUE), << Break >>, << >>)) \o << Exit(1) >>)
    \o << Listen("sv") >> \o Loop(<< Accept("cfd", "sv") >> \o SeqnumRequest)
IsSeqnumSv ==
    << Handle("PIPE", "ign") >>
    \o Loop(Each(2, LAMBDA j : If(Create(<<"addr6", "addr4">>[j], TRUE), << Break >>, << >>)) \o << Exit(1) >>)
    \o << Listen("sv") >> \o Loop(<< Accept("cfd", "sv") >> \o SeqnumRequest)
IsSeqnumCl(conn, n) ==
    Loop(Each(2, LAMBDA j : If(Connect("cfd", <<"sv6", "sv">>[j], conn), << Break >>, << >>)) \o << Exit(1) >>)
    \o << Write("cfd", C(n)), Read("cfd", V("seqNumStr")), PutNum(V("seqNumStr")), Exit(0) >>
SeqnumQuitter(conn) == << Connect("cfd", "sv", conn), Write("cfd", C(3)), Exit(0) >>
IsSeqnumV2Sv ==
    << Handle("PIPE", "ign") >> \o InetListen \o Loop(<< Accept("cfd", "sv") >> \o SeqnumRequest)
IsSeqnumV2Cl(conn, n) ==
    InetConnect("cfd", <<"sv6", "sv">>, conn)
    \o << Write("cfd", C(n)), Read("cfd", V("seqNumStr")), PutNum(V("seqNumStr")), Exit(0) >>

Socknames == InetListen \o InetConnect("connFd", <<"sv">>, "k1")
             \o << Accept("acceptFd", "sv"), Puts(C("names")), Nop, Exit(0) >>
UsAbstractBind == << Create("abstract", TRUE), Nop, Exit(0) >>

-----------------------------------------------------------------------------
(* Concurrent servers: a child for every client. *)

EchoGrimReaper == While(Waitpid({}, V("status"), {"nohang"}), << >>) \o << Ret >>
HandleRequest(d) == Copy(d, d)
Clients == 1   \* bounds the connections
EchoChild == HandleRequest("cfd") \o << Exit(0) >>
IsEchoSv ==
    << HandleRestart("CHLD", "grimReaper") >> \o InetListen
    \o Each(Clients, LAMBDA j : << Accept("cfd", "sv") >> \o Unless(Fork(<<"c1", "c2">>[j]), << >>) \o << Close("cfd") >>)
    \o << Accept("cfd", "sv") >>
EchoGrimReaperV2 == While(Waitpid({}, V("status"), {"nohang"}), << >>) \o << Ret >>
HandleRequestV2(d) == Copy(d, d)
IsEchoV2Sv(inetd) ==
    IF inetd THEN HandleRequestV2("stdin") \o << Exit(0) >>
    ELSE << HandleRestart("CHLD", "grimReaper") >> \o InetListen
         \o Each(Clients, LAMBDA j : Until(Accept("cfd", "sv"))
                                     \o Unless(Fork(<<"c1", "c2">>[j]), << >>) \o << Close("cfd") >>)
         \o << Accept("cfd", "sv") >>
EchoChildV2 == HandleRequestV2("cfd") \o << Exit(0) >>
\* The child (c3) shows what comes back while the parent sends.
IsEchoCl(conn) ==
    InetConnect("sfd", <<"sv">>, conn) \o << Fork("c3") >> \o Copy("stdin", "sfd") \o << Shutdown("sfd"), Exit(0) >>
IsEchoClChild == Copy("sfd", "stdout") \o << Exit(0) >>
\* inetd makes the connection the standard input and output of the server.
IsEchoInetdSv == Copy("stdin", "stdout") \o << Exit(0) >>
Inetd(server) ==
    [main |-> << Listen("sv"), Accept("cfd", "sv"), Fork("c1"), Close("cfd") >> \o << Wait, Accept("cfd", "sv") >>,
     c1   |-> << Dup2("cfd", "stdin"), Dup2("cfd", "stdout"), Close("cfd"), Exec >> \o server]

-----------------------------------------------------------------------------
(* Descriptors and credentials in messages.  A datagram socket is open     *)
(* (inode) before its name can be seen.                                    *)

ScmAccept(dgram) ==
    << Try(Unlink("addr")) >>
    \o (IF dgram THEN << Open("sfd", "inode", {"r", "w"}), Create("sv", TRUE) >>
        ELSE UnixBind \o << Listen("sv"), Accept("sfd", "sv") >>)
ScmConnect(dgram) == IF dgram THEN << Open("sfd", "inode", {"w"}) >> ELSE UnixConnect("sfd", "k1")
Sendfd(d, e) == << SendFds(d, <<e>>, C("12345")) >>
Recvfd(d, e) == << RecvFds(d, <<e>>, "data") >>
ScmRightsSend(dgram) ==
    << Open("fd", "file", {"r"}) >> \o ScmConnect(dgram) \o Sendfd("sfd", "fd") \o << Close("fd"), Exit(0) >>
ScmRightsRecv(dgram) == ScmAccept(dgram) \o Recvfd("sfd", "fd") \o Copy("fd", "stdout") \o << Exit(0) >>
\* Without data a stream carries no message, and so no descriptors.
ScmMultiSend(dgram, sendData, pid) ==
    << Open("fd1", "file", {"r"}), Open("fd2", "file2", {"r"}) >> \o ScmConnect(dgram)
    \o (IF sendData \/ dgram THEN << SendFds("sfd", <<"fd1", "fd2">>, C(pid)) >> ELSE << >>) \o << Exit(0) >>
\* room: descriptors that fit into the buffer for ancillary data; those that
\* do not are closed.
ScmMultiRecv(dgram, room) ==
    LET list == SubSeq(<<"fd1", "fd2">>, 1, room)
    IN  ScmAccept(dgram)
        \o If(RecvFds("sfd", list, "creds"),
              (IF room < 2 THEN << Puts(C("truncated")) >> ELSE << >>)
              \o Each(room, LAMBDA j : Copy(list[j], "stdout") \o << Close(list[j]) >>) \o << Puts(V("creds")) >>, << >>)
        \o << Exit(0) >>

\* The kernel adds the sender's credentials to a message without any only if
\* the receiver has asked for them (passcred), or has not accepted yet.
ScmCredSend(explicit, pid) ==
    UnixConnect("sfd", "k1")
    \o (IF explicit THEN << Write("sfd", C(pid)) >>
        ELSE If(Eq(S("passcred"), C(1)), << Write("sfd", C("user")) >>, << Write("sfd", C("nobody")) >>))
    \o << Exit(0) >>
ScmCredRecv ==
    ScmAccept(FALSE) \o << Set(S("passcred"), C(0)), Set(S("passcred"), C(1)),
                           Read("sfd", V("rcred")), Puts(V("rcred")), Puts(C("peer user")), Exit(0) >>

-----------------------------------------------------------------------------
(* tlpi-book/altio. *)

SigioHandler == << Set(V("gotSigio"), C(1)), Ret >>
SigioInput == Loop(Unless(ReadNonblock("stdin", V("ch")), << Break >>) \o If(Eq(V("ch"), C("EAGAIN")), << Break >>, << >>)
                   \o If(Eq(V("done"), C(1)), << Break >>, << >>) \o << Puts(V("ch")) >>
                   \o If(Eq(V("ch"), C("#")), << Set(V("done"), C(1)) >>, << >>))
\* Mistake: the flag is cleared after the input has been read.
DemoSigioLate ==
    << HandleRestart("IO", "sigioHandler"), Puts(C("ready")) >>
    \o While(Eq(V("done"), C(0)), If(Eq(V("gotSigio"), C(1)), SigioInput \o << Set(V("gotSigio"), C(0)) >>, << >>))
    \o << Exit(0) >>
DemoSigio ==
    << HandleRestart("IO", "sigioHandler"), Puts(C("ready")) >>
    \o While(Eq(V("done"), C(0)), If(Eq(V("gotSigio"), C(1)), << Set(V("gotSigio"), C(0)) >> \o SigioInput, << >>))
    \o << Exit(0) >>
\* The terminal sends SIGIO when there is input, and stays open.
SigioTerminal ==
    << Open("kbd", "stdin", {"r", "w"}), See("ready") >>
    \o Each(2, LAMBDA k : << Write("kbd", C(<<"x", "#">>[k])), Try(Kill(C("main"), "IO")) >>) \o << See("#"), Exit(0) >>

\* Every child that waits with its own epoll instance is woken; those that
\* share one with EPOLLET are woken once for an event ("edge").
EpollChild(opts, name) ==
    (IF "p" \in opts THEN << Open("fd", "fifo", {"r"}) >> ELSE << >>)
    \o << IF {"e", "s"} \subseteq opts THEN Take("ready", "edge") ELSE Poll({"fd"}, V("ready")), Puts(C(name)) >>
    \o (IF "r" \in opts
        THEN If(ReadNonblock("fd", V("buf")),
                If(Eq(V("buf"), C("EAGAIN")), << Puts(C("read failed")) >>, << Puts(V("buf")) >>), << Puts(C("EOF")) >>)
        ELSE << >>)
    \o << Exit(0) >>
EpollFlagsFork(opts) ==
    [main |-> Until(Exists("typing")) \o (IF "p" \in opts THEN << >> ELSE << Open("fd", "fifo", {"r"}) >>)
              \o << Fork("c1"), Fork("c2"), Create("waiting", FALSE), Wait, Wait, Exit(0) >>,
     c1   |-> EpollChild(opts, "c1"), c2 |-> EpollChild(opts, "c2"),
     user |-> << Open("w", "fifo", {"r", "w"}), Create("typing", FALSE) >> \o Until(Exists("waiting"))
              \o << Write("w", C("x")), Set(S("edge"), C(1)), Pause >>]

\* Input is read first; a descriptor is closed when there is none left.
EpollClose(d) == << Close(d), Add(V("numOpenFds"), -1) >>
EpollInput ==
    << Open("f1", "fifo1", {"r"}), Open("f2", "fifo2", {"r"}), Puts(C("Opened")) >>
    \o While(Lt(C(0), V("numOpenFds")),
             << Poll({"f1", "f2"}, V("ready")) >>
             \o If(Eq(V("ready"), C("f1")), If(Read("f1", V("buf")), << Puts(V("buf")) >>, EpollClose("f1")),
                                            If(Read("f2", V("buf")), << Puts(V("buf")) >>, EpollClose("f2"))))
    \o << Puts(C("bye")), Exit(0) >>

EpollThread(edge, name) ==
    << IF edge THEN Take("ready", "edge") ELSE Poll({"r"}, V("ready")), Puts(C(name)), ThreadExit(C("NULL")) >>
MultithreadEpollWait(edge) ==
    [main |-> << Pipe("r", "w", "p"), Thread("c1"), Thread("c2"), Nop, Write("w", C("x")), Set(S("edge"), C(1)), Nop,
                 Puts(C("terminate")), Exit(0) >>,
     c1   |-> EpollThread(edge, "c1"), c2 |-> EpollThread(edge, "c2")]

\* The input is what random() returns.
PollPipes ==
    << Pipe("r1", "w1", "p1"), Pipe("r2", "w2", "p2") >>
    \o While(Read("stdin", V("randPipe")), If(Eq(V("randPipe"), C("w1")), << Write("w1", C("a")) >>, << Write("w2", C("a")) >>))
    \o If(PollNow({"r1"}, V("ready")), << Puts(C("r1")) >>, << >>)
    \o If(PollNow({"r2"}, V("ready")), << Puts(C("r2")) >>, << >>) \o << Exit(0) >>

ChildMon(msqid) == Loop(<< Recv(C(msqid), "pmsg"), Write("pw", V("pmsg")) >>)
SelectMq ==
    Loop(<< Poll({"stdin", "pr"}, V("ready")) >>
         \o If(Eq(V("ready"), C("stdin")), << Read("stdin", V("buf")), Puts(V("buf")) >>,
                                           << Read("pr", V("pmsg")), Puts(V("pmsg")) >>))
SelectMqStart == << Pipe("pr", "pw", "pfd") >> \o Each(2, LAMBDA j : Unless(Fork(<<"c1", "c2">>[j]), << KillGroup("main", "TERM"), Exit(1) >>))

SelfPipeHandler == << Write("pw", C("x")), Ret >>
\* timeout: 0, or none.  Whether the signal comes before or in the call, the
\* pipe tells of it.
SelfPipe(timeout) ==
    << Pipe("pr", "pw", "pfd"), HandleRestart("INT", "handler"), Puts(C("armed")) >>
    \o (IF timeout THEN If(PollNow({"pr"}, V("ready")), << >>, << Set(V("ready"), C("")) >>)
        ELSE Until(Poll({"pr"}, V("ready"))))
    \o If(Eq(V("ready"), C("pr")),
          << Puts(C("A signal was caught")) >>
          \o Loop(<< ReadNonblock("pr", V("ch")) >> \o If(Eq(V("ch"), C("EAGAIN")), << Break >>, << >>)), << >>)
    \o << Puts(C("ready")), Exit(0) >>
TSelect == If(PollNow({"stdin"}, V("ready")), << Puts(C("0: r")) >>, << Puts(C("0: ")) >>) \o << Exit(0) >>

-----------------------------------------------------------------------------
(* hw11/practice, hw8/44-7 and the notes. *)

\* The connection is closed only if the client has gone: what the others use
\* stays open until the server ends.
PracticeServer ==
    << Try(Unlink("addr")), Create("addr", TRUE), Listen("sv"), Puts(C("listening")) >>
    \o Loop(<< Accept("comm", "sv") >>
            \o If(Eq(V("first"), C(1)), << Puts(C("Client connected.")), Set(V("first"), C(0)) >>, << >>)
            \o If(Read("comm", V("buffer")),
                  << Puts(V("buffer")), Write("comm", C("Message received.")) >>
                  \o If(Eq(V("buffer"), C("exit")), << Break >>, << >>),
                  << Puts(C("Client disconnected.")), Close("comm") >>))
    \o << Unlink("addr"), Close("comm"), Unlisten("sv"), Exit(0) >>
\* A recv that fails leaves the client's own message in the buffer.
PracticeClient(conn, text) ==
    << Connect("sd", "sv", conn), Set(V("buffer"), C(text)), Try(Write("sd", C(text))),
       Try(Read("sd", V("buffer"))), Puts(V("buffer")), Exit(0) >>
PracticeQuitter(conn) == << Connect("sd", "sv", conn), Exit(0) >>

NonblockingServer ==
    << Try(Create("server_fifo", TRUE)), Open("serverFd", "server_fifo", {"r"}), Open("dummyFd", "server_fifo", {"w"}), Listen("sv") >>
    \o Loop(If(ReadNonblock("serverFd", V("buffer")),
               If(Eq(V("buffer"), C("EAGAIN")), << Continue >>, << Puts(V("buffer")), Add(V("req_num"), 1) >>),
               << Puts(C("End of file reached.")) >>))
FifoClient == << Open("clientFd", "server_fifo", {"w"}), Write("clientFd", C("opened")), Puts(C("Client has opened")), Close("clientFd"), Exit(0) >>

\* Both sockets are looked at after every poll.
NotePoll ==
    Loop(<< Poll({"udpsd1", "udpsd2"}, V("numfds")) >>
         \o If(PollNow({"udpsd1"}, V("revents")), << Read("udpsd1", V("buffer")), Puts(V("buffer")) >>, << >>)
         \o If(PollNow({"udpsd2"}, V("revents")), << Read("udpsd2", V("buffer")), Puts(V("buffer")) >>, << >>))
NotePollBind == << Open("udpsd1", "port1", {"r", "w"}), Open("udpsd2", "port2", {"r", "w"}), Create("sv", TRUE) >>
NoteConnect(conn) == << Connect("sd", "sv", conn) >>
NoteRecv == << Read("sd", V("message")), Puts(V("message")), Exit(0) >>
NoteBind == << Try(Unlink("addr")), Create("addr", TRUE) >>
NoteBinding == << Create("addr", TRUE), Listen("sv") >>
\* Children are not waited for.
NoteAccept ==
    [main |-> NoteBinding \o << Accept("comm", "sv"), Fork("c1"), Close("comm"), Accept("comm", "sv") >>,
     c1   |-> << Write("comm", C("service")), Close("comm"), Exit(0) >>]

-----------------------------------------------------------------------------

Serve(server, a, b, vals, objs) ==
    Program([main |-> server, user |-> WhenUp(a), c3 |-> WhenUp(b)], None, vals, objs, NoInput)
Transfer(server, a, b, objs) ==
    Program([main |-> server, user |-> WhenUp(a), c3 |-> WhenUp(b)], None, None, objs, {<<"x", "y">>})
Echo(server, child, reaper, objs) ==
    Program([main |-> server, c1 |-> child, c2 |-> child, user |-> WhenUp(IsEchoCl("k1")), c3 |-> IsEchoClChild],
            [grimReaper |-> reaper], None, objs, {<<"x", "y", "z">>})
InetdEcho(server) ==
    Program([user |-> WhenUp(IsEchoCl("k1")), c3 |-> IsEchoClChild] @@ Inetd(server), None, None, None, {<<"x", "y">>})
Scm(send, recv) ==
    Program([main |-> recv, user |-> WhenUp(send)], None, None,
            [file |-> <<"x", "y">>, file2 |-> <<"z">>, inode |-> << >>, addr |-> 0], NoInput)
Bytes(reader, input) ==
    Program([main |-> << Pipe("r", "w", "p"), Fork("c1"), Close("w") >> \o reader,
             c1   |-> << Close("r") >> \o Copy("stdin", "w") \o << Exit(0) >>], None, None, [rlbuf |-> << >>], input)
ReadnTest == << Pipe("r", "w", "p"), Fork("c1"), Close("w") >> \o Readn("r", 2) \o << PutNum(V("line")) >>
             \o Readn("r", 2) \o << PutNum(V("line")), Exit(0) >>
LineInputs == {<< >>, <<"a", "nl">>, <<"a", "b", "nl", "c">>}
SockEpoll(opts) == Program(EpollFlagsFork(opts), None, None, [fifo |-> << >>, edge |-> 0], NoInput)
NoteSender == << Open("s1", "port1", {"w"}), Open("s2", "port2", {"w"}), Write("s1", C("x")), Write("s2", C("y")), Exit(0) >>
Practice(client, objs) ==
    Program([main |-> PracticeServer, user |-> << See("listening") >> \o PracticeClient("k1", "exit"),
             c3 |-> << See("listening") >> \o client], None, [first |-> 1, buffer |-> ""], objs, NoInput)
EpollWriter == << Open("w1", "fifo1", {"w"}), Open("w2", "fifo2", {"w"}), Create("sv", FALSE), See("Opened"),
                  Write("w1", C("x")), Write("w2", C("z")), Write("w1", C("y")), Close("w1"), Exit(0) >>
MqUser == << Open("kbd", "stdin", {"r", "w"}), Create("sv", FALSE), Write("kbd", C("k")),
             Send(C("q1"), C("m1")), Send(C("q2"), C("m2")), Pause >>

SocketTable ==
    [us_xfr |-> Transfer(UsXfrSv, UsXfrCl("k1"), UsXfrCl("k2"), [addr |-> 0]),
     us_xfr_v2 |-> Transfer(UsXfrV2Sv, UsXfrV2Cl("k1"), UsXfrV2Cl("k2"), None),
     us_xfr_v2_stale |-> Program([main |-> UsXfrV2Sv], None, None, [addr |-> 0], {<<"x", "y">>}),
     ud_ucase |-> Serve(UdUcaseSv, UdUcaseCl("user", 2), UdUcaseCl("c3", 1), None, None),
     i6d_ucase |-> Serve(I6dUcaseSv, I6dUcaseCl("user", 2), I6dUcaseCl("c3", 1), None, None),
     id_echo |-> Serve(IdEchoSv, IdEchoCl("user", 1), IdEchoCl("c3", 2), None, [addr6 |-> 0]),
     is_seqnum |-> Serve(IsSeqnumSv, IsSeqnumCl("k1", 2), SeqnumQuitter("k2"), [seqNum |-> 0], None),
     is_seqnum_v2 |-> Serve(IsSeqnumV2Sv, IsSeqnumV2Cl("k1", 2), IsSeqnumV2Cl("k2", 0), [seqNum |-> 5], [addr6 |-> 0]),
     socknames |-> Program([main |-> Socknames], None, None, None, NoInput),
     us_abstract_bind |-> Program([main |-> UsAbstractBind, user |-> UsAbstractBind], None, None, None, NoInput),
     is_echo |-> Echo(IsEchoSv, EchoChild, EchoGrimReaper, None),
     is_echo_v2 |-> Echo(IsEchoV2Sv(FALSE), EchoChildV2, EchoGrimReaperV2, [addr6 |-> 0]),
     is_echo_inetd |-> InetdEcho(IsEchoInetdSv),
     scm_rights |-> Scm(ScmRightsSend(FALSE), ScmRightsRecv(FALSE)),
     scm_rights_dgram |-> Scm(ScmRightsSend(TRUE), ScmRightsRecv(TRUE)),
     scm_multi |-> Scm(ScmMultiSend(FALSE, TRUE, "user"), ScmMultiRecv(FALSE, 1)),
     scm_multi_empty |-> Scm(ScmMultiSend(FALSE, FALSE, "user"), ScmMultiRecv(FALSE, 2)),
     scm_multi_dgram |-> Scm(ScmMultiSend(TRUE, FALSE, "user"), ScmMultiRecv(TRUE, 2)),
     scm_cred |-> Program([main |-> ScmCredRecv, user |-> WhenUp(ScmCredSend(FALSE, ""))], None, None, [passcred |-> 1], NoInput),
     scm_cred_explicit |-> Program([main |-> ScmCredRecv, user |-> WhenUp(ScmCredSend(TRUE, "pid"))], None, None, [passcred |-> 1], NoInput),
     read_line |-> Bytes(Loop(ReadLine("r", 3, << Exit(0) >>) \o << PutNum(V("line")) >>), LineInputs),
     read_line_buf |-> Bytes(ReadLineBufInit \o Each(2, LAMBDA j : ReadLineBuf("r", 2) \o << PutNum(V("line")) >>) \o << Exit(0) >>,
                             {<< <<"a", "nl", "b">>, <<"c", "d", "nl">> >>}),
     rdwrn |-> Program([main |-> ReadnTest, c1 |-> << Close("r") >> \o Writen("w", <<"a", "b", "c">>) \o << Exit(0) >>],
                       None, None, None, NoInput),
     demo_sigio |-> Program([main |-> DemoSigio, user |-> SigioTerminal], [sigioHandler |-> SigioHandler],
                            [gotSigio |-> 0, done |-> 0], [stdin |-> << >>], NoInput),
     epoll_level |-> SockEpoll({}), epoll_read |-> SockEpoll({"r", "p"}), epoll_edge |-> SockEpoll({"e", "s"}),
     epoll_input |-> Program([main |-> Until(Exists("sv")) \o EpollInput, user |-> EpollWriter], None, [numOpenFds |-> 2],
                             [fifo1 |-> << >>, fifo2 |-> << >>], NoInput),
     epoll_threads |-> Program(MultithreadEpollWait(FALSE), None, None, [edge |-> 0], NoInput),
     epoll_threads_et |-> Program(MultithreadEpollWait(TRUE), None, None, [edge |-> 0], NoInput),
     poll_pipes |-> Program([main |-> PollPipes], None, None, None, Lines({"w1", "w2"})),
     select_mq |-> Program([main |-> Until(Exists("sv")) \o SelectMqStart \o SelectMq, c1 |-> ChildMon("q1"), c2 |-> ChildMon("q2"),
                            user |-> MqUser], None, None, [stdin |-> << >>, q1 |-> << >>, q2 |-> << >>], NoInput),
     self_pipe |-> Program([main |-> SelfPipe(FALSE), user |-> << See("armed"), Kill(C("main"), "INT"), Exit(0) >>],
                           [handler |-> SelfPipeHandler], None, None, NoInput),
     self_pipe_timeout |-> Program([main |-> SelfPipe(TRUE), user |-> << See("armed"), Try(Kill(C("main"), "INT")), Exit(0) >>],
                                   [handler |-> SelfPipeHandler], None, None, NoInput),
     t_select |-> Program([main |-> TSelect], None, None, None, Perhaps(<<"x">>)),
     practice |-> Practice(PracticeClient("k2", "hello"), [addr |-> 0]),
     practice_quit |-> Practice(PracticeQuitter("k2"), None),
     nonblocking_server |-> Serve(NonblockingServer, FifoClient, FifoClient, [req_num |-> 1], None),
     note_poll |-> Program([main |-> NotePollBind \o NotePoll, user |-> WhenUp(NoteSender)], None, None, [port1 |-> << >>, port2 |-> << >>], NoInput),
     note_accept |-> Program([user |-> WhenUp(NoteConnect("k1") \o NoteRecv)] @@ NoteAccept, None, None, None, NoInput),
     note_bind |-> Program([main |-> NoteBind \o << Exit(0) >>], None, None, [addr |-> 0], NoInput)]

SocketEndless ==
    {"us_xfr", "us_xfr_v2", "ud_ucase", "i6d_ucase", "id_echo", "is_seqnum", "is_seqnum_v2", "is_echo", "is_echo_v2",
     "is_echo_inetd", "epoll_level", "epoll_read", "epoll_edge", "select_mq", "nonblocking_server", "note_poll", "note_accept"}
\* client.c:38 "receive data from server": a client whose server has ended
\* shows its own message as the response, or dies of SIGPIPE.
SocketDeviating == {"practice"}

Orders(a, b) == {<<a, b>>, <<b, a>>}
Some(a, b) == Orders(a, b) \cup {<< >>, <<a>>, <<b>>}
OnInput(input, outputs) == input :> outputs
\* The server's output, and that of the two clients.
PracticeOutputs ==
    LET ok == "Message received."
        end == Merges(<<"Client connected.", "exit">>, <<ok>>)
    IN  end
        \cup UNION {Merges(m, <<ok>>) : m \in Merges(<<"Client connected.", "hello", "exit">>, <<ok>>)}

SocketPromise ==
    [us_xfr |-> OnInput(<<"x", "y">>, Orders("x", "y")),
     us_xfr_v2 |-> OnInput(<<"x", "y">>, Orders("x", "y")),
     us_xfr_v2_stale |-> OnInput(<<"x", "y">>, {<< >>}),
     ud_ucase |-> Always(Merges(<<"USER", "USER">>, <<"C3">>)),
     i6d_ucase |-> Always(Merges(<<"USER", "USER">>, <<"C3">>)),
     id_echo |-> Always(Merges(<<"user">>, <<"c3", "c3">>)),
     is_seqnum |-> Always({<<"0">>, <<"3">>}),
     is_seqnum_v2 |-> Always({<<"5">>}),
     is_echo |-> OnInput(<<"x", "y", "z">>, {<<"x", "y", "z">>}),
     is_echo_v2 |-> OnInput(<<"x", "y", "z">>, {<<"x", "y", "z">>}),
     is_echo_inetd |-> OnInput(<<"x", "y">>, {<<"x", "y">>}),
     scm_rights |-> Always({<<"x", "y">>}),
     scm_rights_dgram |-> Always({<<"x", "y">>}),
     scm_multi |-> Always({<<"truncated", "x", "y", "user">>}),
     scm_multi_empty |-> Always({<< >>}),
     scm_multi_dgram |-> Always({<<"x", "y", "z", "user">>}),
     scm_cred |-> Always({<<who, "peer user">> : who \in {"user", "nobody"}}),
     scm_cred_explicit |-> Always({<<"pid", "peer user">>}),
     read_line |-> << >> :> {<< >>} @@ <<"a", "nl">> :> {<<ToString(<<"a", "nl">>)>>}
                   @@ <<"a", "b", "nl", "c">> :> {<<ToString(<<"a", "b">>), ToString(<<"c">>)>>},
     read_line_buf |-> OnInput(<< <<"a", "nl", "b">>, <<"c", "d", "nl">> >>, {<<ToString(<<"a", "nl">>), ToString(<<"b", "c">>)>>}),
     rdwrn |-> Always({<<ToString(<<"a", "b">>), ToString(<<"c">>)>>}),
     demo_sigio |-> Always({<<"ready", "x", "#">>}),
     epoll_level |-> Always(Orders("c1", "c2")),
     epoll_read |-> Always({<<"c1", "x">>, <<"c2", "x">>} \cup Merges(<<"c1", "x">>, <<"c2", "read failed">>)
                           \cup Merges(<<"c2", "x">>, <<"c1", "read failed">>)),
     epoll_edge |-> Always({<<"c1">>, <<"c2">>}),
     epoll_input |-> Always({<<"Opened">> \o m \o <<"bye">> : m \in Merges(<<"x", "y">>, <<"z">>)}),
     epoll_threads |-> Always(UNION {Merges(s, <<"terminate">>) : s \in Some("c1", "c2")}),
     epoll_threads_et |-> Always(UNION {Merges(s, <<"terminate">>) : s \in {<< >>, <<"c1">>, <<"c2">>}}),
     poll_pipes |-> [i \in Lines({"w1", "w2"}) |->
                        {SelectSeq(<<"r1", "r2">>, LAMBDA r : \E k \in DOMAIN i : <<r, i[k]>> \in {<<"r1", "w1">>, <<"r2", "w2">>})}],
     select_mq |-> Always(UNION {Merges(s, <<"k">>) : s \in Orders("m1", "m2")}),
     self_pipe |-> Always({<<"armed", "A signal was caught", "ready">>}),
     self_pipe_timeout |-> Always({<<"armed", "ready">>, <<"armed", "A signal was caught", "ready">>}),
     t_select |-> [i \in Perhaps(<<"x">>) |-> {<<"0: r">>}],
     practice |-> Always({<<"listening">> \o m : m \in PracticeOutputs}),
     practice_quit |-> Always(UNION {{<<"listening">> \o m : m \in Merges(s, <<"Message received.">>)} :
                                       s \in {<<"Client connected.", "exit">>, <<"Client connected.", "Client disconnected.", "exit">>}}),
     nonblocking_server |-> Always({m : m \in Merges(<<"opened", "opened">>, <<"Client has opened", "Client has opened">>)}),
     note_poll |-> Always(Orders("x", "y")),
     note_accept |-> Always({<<"service">>}),
     note_bind |-> Always({<< >>}), us_abstract_bind |-> Always({<< >>}), socknames |-> Always({<<"names">>})]

=============================================================================
