------------------------------ MODULE Syscalls ------------------------------
(***************************************************************************)
(* The vocabulary in which the programs of the repository are written      *)
(* down.  A program is a table of scripts, one for each process, thread    *)
(* and signal handler; a script is the sequence of the system calls and    *)
(* of the accesses to memory that the C function makes, with the           *)
(* structure of its loops and tests.  Module Kernel carries scripts out.   *)
(*                                                                         *)
(* Every instruction has an alternative, alt: where the script goes on,    *)
(* relative to the instruction, when the call fails, finds an end of file  *)
(* or a test is false.  Without one (alt = 0) the code calls errExit() or  *)
(* fatal(): the process exits with EXIT_FAILURE.                           *)
(***************************************************************************)
EXTENDS Integers, Sequences, SequencesExt, TLC

Instr(op, a, b, c) == [op |-> op, a |-> a, b |-> b, c |-> c, alt |-> 0]

(* Operands: a constant, a variable in the memory of the process, or an    *)
(* object that processes share (a segment, a file, a semaphore).           *)
C(v) == <<"const", v>>
V(x) == <<"var", x>>
S(x) == <<"obj", x>>

-----------------------------------------------------------------------------
(* Control. *)

Jump(n) == Instr("jump", n, "", "")
Break == Instr("break", 0, "", "")
Continue == Instr("continue", 0, "", "")
Ret == Instr("ret", 0, "", "")                \* from a signal handler
Nop == Instr("nop", 0, "", "")                \* sleep(): a point where others run

\* i, whose failure the code reports or ignores and then goes on.
Try(i) == [i EXCEPT !.alt = 1]

If(i, then, else) ==
    << [i EXCEPT !.alt = Len(then) + 2] >> \o then \o << Jump(Len(else) + 1) >> \o else

\* i succeeds, or the branch is taken.
Unless(i, else) == If(i, << >>, else)

\* Breaks and continues of a loop whose last instruction has number n.
Resolve(body, n) ==
    [k \in DOMAIN body |->
        CASE body[k].op = "break" -> Jump(n + 1 - k)
          [] body[k].op = "continue" -> Jump(n - k)
          [] OTHER -> body[k]]

Loop(body) == Resolve(body, Len(body) + 1) \o << Jump(- Len(body)) >>

While(i, body) ==
    LET n == Len(body) + 2
    IN  Resolve(<< [i EXCEPT !.alt = n] >> \o body, n) \o << Jump(1 - n) >>

\* Tries i again until it succeeds.
Until(i) == Loop(If(i, << Break >>, << >>))

\* A loop over 1 .. n, whose body depends on the index.
Each(n, Body(_)) == FlattenSeq([j \in 1 .. n |-> Body(j)])

\* setjmp, whose alternative is the return from a longjmp; with mask,
\* sigsetjmp(env, 1): the signal mask is restored as well.
Setjmp(env, mask) == Instr("setjmp", env, mask, "")
Longjmp(env) == Instr("longjmp", env, "", "")

Eq(a, b) == Instr("eq", a, b, "")
Lt(a, b) == Instr("lt", a, b, "")
Member(v, x) == Instr("member", v, x, "")
Set(x, a) == Instr("set", x, a, "")
Add(x, n) == Instr("add", x, n, "")           \* one access: x += n
AddOf(x, a) == Instr("addof", x, a, "")
Push(x, a) == Instr("push", x, a, "")         \* append to a sequence
Is(a, kinds) == Instr("is", a, kinds, "")     \* WIFEXITED and the like
Choose(x, set) == Instr("choose", x, set, "") \* some member: what C leaves undefined
Apply(x, f) == Instr("apply", x, f, x)        \* x := f(x), where f is defined
Map(x, a, f) == Instr("apply", x, f, a)       \* x := f(a)
See(x) == Instr("see", x, "", "")             \* waits until x has been written
Puts(a) == Instr("puts", a, "", "")
PutNum(a) == Instr("putnum", a, "", "")
PutStatus(a) == Instr("putstatus", a, "", "") \* printWaitStatus()

-----------------------------------------------------------------------------
(* Processes and threads.  A child is named by the parent's fork: names    *)
(* of tasks are names of scripts.                                          *)

Fork(child) == Instr("fork", child, {}, "")
Vfork(child) == << Instr("fork", child, {"vm"}, ""), Instr("vwait", child, "", "") >>
Clone(child, shared, sig) == Instr("fork", child, shared, sig)   \* sig: sent at its end
Exec == Instr("exec", {}, "", "")             \* the command's own script follows
ExecClosing(ds) == Instr("exec", ds, "", "")  \* descriptors marked FD_CLOEXEC
Exit(n) == Instr("exit", n, "", "")
\* wait for one of the children, or for any if there are none given; its
\* status goes to x.  flags: "nohang", "untraced", "continued".
Waitpid(who, x, flags) == Instr("wait", who, x, flags)
Wait == Waitpid({}, V("status"), {})
Getppid(x) == Instr("getppid", x, "", "")
Ps(child) == Instr("ps", child, "", "")       \* shows the state of the child
Setpgid(g) == Instr("setpgid", g, "", "")
Setsid == Instr("setsid", "", "", "")
Pdeathsig(sig) == Instr("prctl", "pdeath", sig, "")
Subreaper == Instr("prctl", "subreaper", TRUE, "")

Thread(t) == Instr("fork", t, {"vm", "files", "sighand", "thread"}, "")
ThreadExit(a) == Instr("texit", a, "", "")
Join(t, x) == Instr("join", t, x, "")
Cancel(t) == Instr("cancel", t, "", "")
CleanupPush(h) == Instr("cleanup", h, "push", "")
CleanupPop(run) == Instr("cleanup", "", "pop", run)

-----------------------------------------------------------------------------
(* Signals. *)

Kill(who, sig) == Instr("kill", who, sig, "")
KillGroup(g, sig) == Instr("killpg", g, sig, "")
Sigpending(x) == Instr("sigpending", x, "", "")
Stopped(t) == Instr("stopped", t, "", "")
Handle(sig, h) == Instr("handle", sig, h, "")                 \* without SA_RESTART
HandleMasked(sig, h) == Instr("handle", sig, h, "maskall")    \* sigfillset(&sa.sa_mask)
HandleRestart(sig, h) == Instr("handle", sig, h, "restart")
GetHandler(sig, x) == Instr("gethandler", sig, x, "")         \* sigaction(sig, NULL, &x)
Rehandle(sig, x) == Instr("rehandle", sig, x, "")             \* sigaction(sig, &x, NULL)
Handler(sig, h) == Instr("handler", sig, h, "")               \* is this its disposition?
Mask(how, sigs) == Instr("mask", how, C(sigs), "")
MaskSave(how, sigs, x) == Instr("mask", how, C(sigs), x)
MaskRestore(x) == Instr("mask", "set", V(x), "")
Pause == Instr("pause", "", "", "")
Sigsuspend(sigs) == Instr("sigsuspend", C(sigs), "", "")
SigsuspendTo(x) == Instr("sigsuspend", V(x), "", "")
Sigwait(sigs, x) == Instr("sigwait", sigs, x, "")
Alarm(mode) == Instr("alarm", mode, "", "")                   \* "off" or "once"

-----------------------------------------------------------------------------
(* Descriptors: a name stands for the number.  A descriptor has a reading  *)
(* end, a writing end, or one of each of two queues (a stream socket).     *)

Pipe(r, w, p) == Instr("pipe", r, w, p)
Socketpair(d, e, p) == Instr("socketpair", d, e, p)
Open(d, file, mode) == Instr("open", d, file, mode)
Close(d) == Instr("close", d, "", "")
Shutdown(d) == Instr("shutdown", d, "", "")
Dup2(d, e) == Instr("dup2", d, e, "")
Read(d, x) == Instr("read", d, x, "")
ReadNonblock(d, x) == Instr("read", d, x, "nonblock")
Write(d, a) == Instr("write", d, a, "")
Poll(ds, x) == Instr("poll", ds, x, "")
PollNow(ds, x) == Instr("poll", ds, x, "nonblock")
Listen(s) == Instr("listen", s, "", "")
Unlisten(s) == Instr("unlisten", s, "", "")   \* who waits to be accepted is reset
Connect(d, s, conn) == Instr("connect", d, s, conn)
Accept(d, s) == Instr("accept", d, s, "")
\* sendmsg and recvmsg with SCM_RIGHTS: descriptors es go with a message; of
\* those that come, as many as there is room for are received.
SendFds(d, es, a) == Instr("sendfds", d, es, a)
RecvFds(d, es, x) == Instr("recvfds", d, es, x)

-----------------------------------------------------------------------------
(* Queues of messages (datagram sockets, message queues), semaphores,      *)
(* locks and names of objects.                                             *)

Create(o, excl) == Instr("create", o, excl, << >>)    \* O_CREAT, O_EXCL if excl
CreateWith(o, excl, v) == Instr("create", o, excl, <<v>>)   \* with a value, if it is new
Exists(o) == Instr("exists", o, "", "")
Unlink(o) == Instr("unlink", o, "", "")
Send(q, a) == Instr("send", q, a, "")
SendNonblock(q, a) == Instr("send", q, a, "nonblock")
SendPrio(q, a) == Instr("send", q, a, "prio")         \* a is <<priority, text>>
RecvType(q, x, types) == Instr("recvtype", q, x, types)   \* a message <<type, text>>
Notify(q, who, sig) == Instr("notify", q, who, sig)   \* mq_notify
Recv(q, x) == Instr("recv", q, x, "")
RecvNonblock(q, x) == Instr("recv", q, x, "nonblock")
Take(x, o) == Instr("take", x, o, "")                 \* reads a timer or event descriptor
SemOp(s, n) == Instr("semop", s, n, "")
SemTry(s, n) == Instr("semop", s, n, "nonblock")
SemOps(ops, flag) == Instr("semops", ops, "", flag)   \* several <<s, n>>, all or none
FileLock(m) == Instr("lock", m, "w", "file")          \* released at exit
FileReadLock(m) == Instr("lock", m, "r", "file")
TryFileLock(m) == Instr("lock", m, "w", "tryfile")
TryFileReadLock(m) == Instr("lock", m, "r", "tryfile")
Lock(m) == Instr("lock", m, "w", "")
TryLock(m) == Instr("lock", m, "w", "nonblock")
Unlock(m) == Instr("unlock", m, "", "")
CondWait(c, m) == Instr("cwait", c, m, "")
CondSignal(c) == Instr("csignal", c, "", "")
Barrier(b, n, x) == Instr("barrier", b, n, x)         \* x: the serial thread?

-----------------------------------------------------------------------------

\* A program: the scripts of its tasks and of its handlers, the memory that
\* its processes start with, the objects that exist when it starts, and what
\* may come on standard input.
Program(code, hand, vals, objs, input) ==
    [code |-> code, hand |-> hand, mem |-> vals, objs |-> objs, input |-> input]

None == [x \in {} |-> 0]
NoInput == { << >> }
Perhaps(s) == {<< >>, s}
Always(outputs) == << >> :> outputs
\* All the ways to shuffle two outputs into one.
RECURSIVE Merges(_, _)
Merges(s, t) ==
    IF s = << >> THEN {t} ELSE IF t = << >> THEN {s}
    ELSE {<<Head(s)>> \o m : m \in Merges(Tail(s), t)} \cup {<<Head(t)>> \o m : m \in Merges(s, Tail(t))}
Lines(set) == {<< >>} \cup {<<x>> : x \in set} \cup {<<x, y>> : x \in set, y \in set}

=============================================================================
