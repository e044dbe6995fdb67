------------------------------- MODULE Kernel -------------------------------
(***************************************************************************)
(* What Linux does for the programs: processes and threads, memory,        *)
(* descriptors, signals, locks, semaphores and queues, as far as the       *)
(* programs use them.  A task (a process or a thread) carries out its      *)
(* script, one system call or one access to memory in a step.  A task      *)
(* shares its memory, descriptors and signal dispositions with others or   *)
(* has its own, as clone(2) was told.                                      *)
(***************************************************************************)
EXTENDS Syscalls, FiniteSets, TLC

CONSTANTS
    Programs,    \* the programs, by name
    Promised,    \* what each is said to have written when it ends, by its input
    QueueSize,   \* messages that fit into a pipe, a socket or a queue
    MaxFaults,   \* calls that fail and processes that are killed
    Faulty,      \* programs in which calls fail and processes are killed
    Endless,     \* programs that serve, or wait for signals, until they are killed
    Deviating,   \* programs known not to do what the repository says of them
    Killing,     \* the signals of which a process may die, by program
    Reaping,     \* programs whose processes wait for all their children
    Restoring    \* the dispositions that programs leave as they found them

ASSUME KernelAssumption ==
    /\ QueueSize \in Nat \ {0}
    /\ MaxFaults \in Nat
    /\ DOMAIN Promised = DOMAIN Programs
    /\ Faulty \cup Endless \cup Deviating \cup Reaping \subseteq DOMAIN Programs
    /\ DOMAIN Killing \cup DOMAIN Restoring \subseteq DOMAIN Programs

VARIABLES
    prog,    \* the program that is run: its name and its text
    task,    \* the tasks
    mem,     \* memories: variables
    fds,     \* descriptor tables: sets of <<descriptor, object, "r" or "w">>
    disp,    \* signal dispositions that are not the default
    obj,     \* contents of shared objects
    names,   \* the objects that exist
    locks,   \* <<lock, task, mode, kind>>; also who waits on a condition
    out,     \* what has been written to standard output
    faults   \* history: calls that failed, processes that were killed

vars == <<prog, task, mem, fds, disp, obj, names, locks, out, faults>>
kernel == <<fds, disp, names, locks>>

-----------------------------------------------------------------------------
(* Scripts. *)

P == prog.text
InitTask == "init"   \* the process that adopts orphans

Forked(p) == UNION {{p.code[t][k].a : k \in {k \in DOMAIN p.code[t] : p.code[t][k].op = "fork"}}
                     : t \in DOMAIN p.code}

\* pthread_exit and the failure of a checked call lie behind the end of a script.
Failure == Exit(1)

Script(t) ==
    IF task[t].code \in DOMAIN P.code THEN P.code[task[t].code] ELSE P.hand[task[t].code]
Here(t) == IF task[t].pc > Len(Script(t)) THEN Failure ELSE Script(t)[task[t].pc]

RECURSIVE Land(_, _)
Land(script, k) ==
    IF k <= Len(script) /\ script[k].op = "jump" THEN Land(script, k + script[k].a) ELSE k

Alt(t) == IF Here(t).alt = 0 THEN Len(Script(t)) + 1 - task[t].pc ELSE Here(t).alt

Moved(tasks, t, n) ==
    [tasks EXCEPT ![t].pc = Land(Script(t), @ + n), ![t].asleep = FALSE]
On(t) == task' = Moved(task, t, 1)
Off(t) == task' = Moved(task, t, Alt(t))

NewTask(t, st) ==
    [st |-> st, code |-> t, pc |-> 1, parent |-> InitTask, group |-> t, mm |-> t,
     files |-> t, sighand |-> t, mask |-> {}, saved |-> {}, pend |-> << >>,
     asleep |-> FALSE, stack |-> << >>, how |-> "", note |-> "", alarm |-> "off",
     cancel |-> "on", cleanup |-> << >>, esig |-> "CHLD", maker |-> InitTask,
     pdeath |-> "", subreaper |-> FALSE, pgrp |-> t]

-----------------------------------------------------------------------------
(* Memory, objects and descriptors. *)

Val(t, e) ==
    CASE e[1] = "const" -> e[2]
      [] e[1] = "var" -> mem[task[t].mm][e[2]]
      [] OTHER -> obj[e[2]]

SetMem(t, x, v) == mem' = [mem EXCEPT ![task[t].mm] = (x :> v) @@ @]
SetObj(o, v) == obj' = (o :> v) @@ obj
Store(t, e, v) ==
    IF e[1] = "var" THEN SetMem(t, e[2], v) /\ UNCHANGED obj
                    ELSE SetObj(e[2], v) /\ UNCHANGED mem

Queue(o) == IF o \in DOMAIN obj THEN obj[o] ELSE << >>
Files(t) == fds[task[t].files]
End(t, d, m) == CHOOSE e \in Files(t) : e[1] = d /\ e[3] = m
HasEnd(t, d, m) == \E e \in Files(t) : e[1] = d /\ e[3] = m
Held(o, m) == \E f \in DOMAIN fds : \E e \in fds[f] : e[2] = o /\ e[3] = m

\* Something can be read: data, or the end of file.
Readable(t, d) ==
    /\ HasEnd(t, d, "r")
    /\ LET o == End(t, d, "r")[2] IN Queue(o) # << >> \/ ~ Held(o, "w")

-----------------------------------------------------------------------------
(* Signals. *)

Realtime == {"RT1", "RT2"}
AllSignals == {"HUP", "INT", "QUIT", "USR1", "USR2", "ALRM", "TERM", "CHLD", "CONT", "TSTP"} \cup Realtime
DefaultIgnored == {"CHLD", "CONT", "WINCH"}
DefaultStops == {"STOP", "TSTP", "TTIN"}

Disposition(t, s) ==
    LET d == disp[task[t].sighand]
    IN  IF s \in DOMAIN d /\ s \notin {"KILL", "STOP"} THEN d[s] ELSE [h |-> "dfl", flag |-> ""]
Ignored(t, s) ==
    LET h == Disposition(t, s).h IN h = "ign" \/ (h = "dfl" /\ s \in DefaultIgnored)

\* Signal s is sent to u: one that is pending already is merged with it,
\* unless it is a realtime signal; an ignored one is dropped unless blocked;
\* SIGCONT and the signals that stop cancel each other.
Post(tasks, u, s) ==
    LET opposed == CASE s = "CONT" -> DefaultStops [] s \in DefaultStops -> {"CONT"} [] OTHER -> {}
        cleared == [tasks EXCEPT ![u].pend = SelectSeq(@, LAMBDA e : e \notin opposed)]
        resumed == IF s \in {"CONT", "KILL"} /\ tasks[u].st = "stopped"
                   THEN [cleared EXCEPT ![u].st = "live", ![u].note = "continued"] ELSE cleared
    IN  IF \/ tasks[u].st \notin {"live", "stopped"}
           \/ Ignored(u, s) /\ s \notin tasks[u].mask
           \/ s \notin Realtime /\ \E i \in DOMAIN tasks[u].pend : tasks[u].pend[i] = s
        THEN resumed
        ELSE [resumed EXCEPT ![u].pend = Append(@, s)]

Deliverable(t) ==
    {i \in DOMAIN task[t].pend :
        /\ task[t].pend[i] \notin task[t].mask \ {"KILL", "STOP"}
        /\ \A j \in 1 .. i - 1 : task[t].pend[j] # task[t].pend[i]}

Live(t) == task[t].st = "live"
\* A signal is delivered before the task goes on.
Ready(t) == Live(t) /\ Deliverable(t) = {}

-----------------------------------------------------------------------------
(* The end of a process: its threads end, its descriptors are closed, its  *)
(* file locks released, its children adopted, its parent told.             *)

\* Orphans go to the closest ancestor that is a subreaper, or to init.
RECURSIVE Adopter(_)
Adopter(p) ==
    IF p = InitTask THEN InitTask
    ELSE IF task[p].subreaper THEN p
    ELSE Adopter(task[p].parent)

\* The threads in dead end: what they have made is told (PR_SET_PDEATHSIG)
\* and given to another thread of the process or to the adopter.
Bereave(tasks, dead, heir) ==
    LET orphans == {u \in DOMAIN task : task[u].maker \in dead}
        moved == [u \in DOMAIN task |->
                    IF u \in orphans THEN [tasks[u] EXCEPT !.maker = heir] ELSE tasks[u]]
        told == {u \in orphans : task[u].pdeath # ""}
    IN  IF orphans = {} THEN tasks
        ELSE FoldSet(LAMBDA u, ts : Post(ts, u, task[u].pdeath), moved, told)

\* A process group is orphaned when nobody outside it, but in its session,
\* waits for a member; the parent of the first processes is the shell.
\* A group that becomes orphaned and has a stopped member gets SIGHUP and
\* SIGCONT.
Alive(tasks, u) == tasks[u].st \in {"live", "stopped"}
OrphanedGroup(tasks, g) ==
    \A u \in DOMAIN tasks : tasks[u].pgrp = g /\ Alive(tasks, u) =>
        IF tasks[u].parent = InitTask THEN u \in Forked(P) ELSE tasks[tasks[u].parent].pgrp = g
HangUp(tasks) ==
    LET groups == {task[u].pgrp : u \in {u \in DOMAIN task : task[u].st = "stopped"}}
        new == {g \in groups : ~ OrphanedGroup(task, g) /\ OrphanedGroup(tasks, g)}
        told == {u \in DOMAIN tasks : Alive(tasks, u) /\ tasks[u].pgrp \in new}
    IN  IF groups = {} THEN tasks
        ELSE FoldSet(LAMBDA u, ts : Post(Post(ts, u, "HUP"), u, "CONT"), tasks, told)

Ended(t, how) ==
    LET leader == task[t].group
        par == task[leader].parent
        heir == Adopter(par)
        members == {u \in DOMAIN task : task[u].group = leader}
        unwatched == par = InitTask \/ Disposition(par, "CHLD").h = "ign"
        after == [u \in DOMAIN task |->
                    CASE u = leader ->
                           [task[u] EXCEPT !.st = IF unwatched THEN "gone" ELSE "zombie",
                                           !.how = how, !.asleep = FALSE, !.pend = << >>,
                                           !.stack = << >>, !.alarm = "off"]
                      [] u \in members /\ u # leader /\ task[u].st # "unborn" ->
                           [task[u] EXCEPT !.st = "gone", !.pend = << >>, !.asleep = FALSE]
                      [] u \notin members /\ task[u].parent = leader /\ task[u].st # "gone" ->
                           [task[u] EXCEPT !.parent = heir,
                                           !.st = IF @ = "zombie" /\ heir = InitTask THEN "gone" ELSE @]
                      [] OTHER -> task[u]]
        bereft == Bereave(after, members, heir)
    IN  /\ task' = HangUp(IF par = InitTask THEN bereft ELSE Post(bereft, par, task[leader].esig))
        /\ fds' = [f \in DOMAIN fds |->
                     IF f # InitTask /\ \A u \in DOMAIN task :
                            task[u].files = f => u \in members \/ task[u].st \notin {"live", "stopped"}
                     THEN {} ELSE fds[f]]
        /\ locks' = {l \in locks : ~ (l[2] \in members /\ l[4] \in {"file", "notify"})}
        /\ UNCHANGED <<prog, mem, disp, obj, names>>

-----------------------------------------------------------------------------

Init ==
    /\ \E p \in DOMAIN Programs : prog = [name |-> p, text |-> Programs[p]]
    /\ task = [t \in DOMAIN P.code |->
                 NewTask(t, IF t \in Forked(P) THEN "unborn" ELSE "live")]
    /\ mem = [t \in DOMAIN P.code |-> P.mem]
    /\ \E input \in P.input : obj = ("stdin" :> input) @@ ("input" :> input) @@ P.objs
    /\ fds = [t \in DOMAIN P.code |-> {<<"stdin", "stdin", "r">>, <<"stdout", "tty", "w">>}]
             @@ (InitTask :> {<<"tty", "tty", "r">>})
    /\ disp = [t \in DOMAIN P.code |-> None]
    /\ names = DOMAIN P.objs
    /\ locks = {}
    /\ out = << >>
    /\ faults = 0

-----------------------------------------------------------------------------
(* Accesses to memory, and output. *)

DoNop(t, i) == i.op = "nop" /\ On(t) /\ UNCHANGED <<prog, mem, obj, kernel, out, faults>>

DoSet(t, i) ==
    /\ i.op = "set"
    /\ Store(t, i.a, Val(t, i.b))
    /\ On(t)
    /\ UNCHANGED <<prog, kernel, out, faults>>

DoAdd(t, i) ==
    /\ i.op = "add"
    /\ Store(t, i.a, Val(t, i.a) + i.b)
    /\ On(t)
    /\ UNCHANGED <<prog, kernel, out, faults>>

DoAddOf(t, i) ==
    /\ i.op = "addof"
    /\ Store(t, i.a, Val(t, i.a) + Val(t, i.b))
    /\ On(t)
    /\ UNCHANGED <<prog, kernel, out, faults>>

DoPush(t, i) ==
    /\ i.op = "push"
    /\ Store(t, i.a, Append(Val(t, i.a), Val(t, i.b)))
    /\ On(t)
    /\ UNCHANGED <<prog, kernel, out, faults>>

DoApply(t, i) ==
    /\ i.op = "apply"
    /\ LET v == Val(t, i.c) IN
       Store(t, i.a, IF v \in DOMAIN i.b THEN i.b[v] ELSE v)
    /\ On(t)
    /\ UNCHANGED <<prog, kernel, out, faults>>

DoChoose(t, i) ==
    /\ i.op = "choose"
    /\ \E v \in i.b : Store(t, i.a, v)
    /\ On(t)
    /\ UNCHANGED <<prog, kernel, out, faults>>

DoTest(t, i) ==
    /\ i.op \in {"eq", "lt", "is", "member", "handler", "stopped"}
    /\ IF CASE i.op = "eq" -> Val(t, i.a) = Val(t, i.b)
            [] i.op = "lt" -> Val(t, i.a) < Val(t, i.b)
            [] i.op = "is" -> Val(t, i.a)[1] \in i.b
            [] i.op = "member" -> i.a \in Val(t, i.b)
            [] i.op = "stopped" -> task[i.a].st = "stopped"
            [] OTHER -> Disposition(t, i.a).h = i.b
       THEN On(t) ELSE Off(t)
    /\ UNCHANGED <<prog, mem, obj, kernel, out, faults>>

DoSee(t, i) ==
    /\ i.op = "see"
    /\ \E k \in DOMAIN out : out[k] = i.a
    /\ On(t)
    /\ UNCHANGED <<prog, mem, obj, kernel, out, faults>>

\* What is written is text.
Text(t) ==
    LET i == Here(t) IN
    CASE i.op = "puts" -> Val(t, i.a)
      [] i.op = "putnum" -> ToString(Val(t, i.a))
      [] i.op = "ps" -> task[i.a].st
      [] OTHER -> LET w == Val(t, i.a)
                  IN  w[1] \o " " \o IF w[1] = "exited" THEN ToString(w[2]) ELSE w[2]

DoPuts(t, i) ==
    /\ i.op = "puts" \/ i.op = "putnum" \/ i.op = "putstatus" \/ i.op = "ps"
    /\ out' = Append(out, Text(t))
    /\ On(t)
    /\ UNCHANGED <<prog, mem, obj, kernel, faults>>

-----------------------------------------------------------------------------
(* Processes and threads. *)

\* fork, vfork, clone and pthread_create: the new task has its own copy of
\* what it does not share.
DoFork(t, i) ==
    LET u == i.a
        shared == i.b
        owner(what, field) == IF what \in shared THEN task[t][field] ELSE u
        child == [NewTask(u, "live") EXCEPT
                    !.parent = IF "thread" \in shared THEN task[t].parent ELSE task[t].group,
                    !.group = owner("thread", "group"), !.mm = owner("vm", "mm"),
                    !.files = owner("files", "files"), !.sighand = owner("sighand", "sighand"),
                    !.mask = task[t].mask, !.maker = t, !.pgrp = task[t].pgrp,
                    !.esig = IF i.c = "" THEN "CHLD" ELSE i.c]
    IN  /\ i.op = "fork"
        /\ task[u].st \in {"unborn", "gone"}
        /\ IF "sighand" \in shared /\ "vm" \notin shared
           THEN Off(t) /\ UNCHANGED <<mem, fds, disp>>           \* EINVAL
           ELSE /\ task' = [Moved(task, t, 1) EXCEPT ![u] = child]
                /\ mem' = [mem EXCEPT ![u] = mem[task[t].mm]]
                /\ fds' = [fds EXCEPT ![u] = Files(t)]
                /\ disp' = [disp EXCEPT ![u] = disp[task[t].sighand]]
        /\ UNCHANGED <<prog, obj, names, locks, out, faults>>

\* The parent of a vfork waits until the child leaves its memory.
DoVwait(t, i) ==
    /\ i.op = "vwait"
    /\ task[i.a].mm # task[t].mm \/ task[i.a].st # "live"
    /\ On(t)
    /\ UNCHANGED <<prog, mem, obj, kernel, out, faults>>

\* A new program: caught signals get their default, memory is its own,
\* descriptors marked close-on-exec are closed.
DoExec(t, i) ==
    LET d == disp[task[t].sighand] IN
    /\ i.op = "exec"
    /\ task' = [Moved(task, t, 1) EXCEPT ![t].mm = t, ![t].sighand = t]
    /\ disp' = [disp EXCEPT ![t] = [s \in {s \in DOMAIN d : d[s].h = "ign"} |-> d[s]]]
    /\ fds' = [fds EXCEPT ![task[t].files] = {e \in @ : e[1] \notin i.a}]
    /\ UNCHANGED <<prog, mem, obj, names, locks, out, faults>>

DoGetppid(t, i) ==
    /\ i.op = "getppid"
    /\ Store(t, i.a, task[task[t].group].parent)
    /\ On(t)
    /\ UNCHANGED <<prog, kernel, out, faults>>

DoPrctl(t, i) ==
    /\ i.op = "prctl"
    /\ task' = IF i.a = "pdeath" THEN [Moved(task, t, 1) EXCEPT ![t].pdeath = i.b]
               ELSE [Moved(task, t, 1) EXCEPT ![task[t].group].subreaper = TRUE]
    /\ UNCHANGED <<prog, mem, obj, kernel, out, faults>>

\* setsid fails (EPERM) in the leader of a process group.
DoSetpgid(t, i) ==
    /\ i.op = "setpgid" \/ i.op = "setsid"
    /\ IF i.op = "setsid" /\ task[t].pgrp = t THEN Off(t)
       ELSE task' = [Moved(task, t, 1) EXCEPT ![t].pgrp = IF i.op = "setsid" THEN t ELSE i.a]
    /\ UNCHANGED <<prog, mem, obj, kernel, out, faults>>

DoExit(t, i) == i.op = "exit" /\ Ended(t, <<"exited", i.a % 256>>) /\ UNCHANGED <<out, faults>>

ChildrenOf(t) ==
    {u \in DOMAIN task : task[u].parent = task[t].group /\ task[u].group = u
                         /\ task[u].st \in {"live", "stopped", "left", "zombie"}}
Awaited(t) == IF Here(t).a = {} THEN ChildrenOf(t) ELSE ChildrenOf(t) \cap Here(t).a
Changed(t, u) ==
    \/ task[u].st = "zombie"
    \/ task[u].note = "stopped" /\ "untraced" \in Here(t).c
    \/ task[u].note = "continued" /\ "continued" \in Here(t).c

DoWait(t, i) ==
    /\ i.op = "wait"
    /\ \/ \E u \in Awaited(t) :
            /\ Changed(t, u)
            /\ task' = [Moved(task, t, 1) EXCEPT
                          ![u].st = IF @ = "zombie" THEN "gone" ELSE @, ![u].note = ""]
            /\ Store(t, i.b, IF task[u].st = "zombie" THEN task[u].how
                                                             ELSE <<task[u].note, "">>)
       \/ /\ Awaited(t) = {}                                      \* ECHILD
          /\ Off(t) /\ UNCHANGED <<mem, obj>>
       \/ /\ Awaited(t) # {} /\ "nohang" \in i.c
          /\ \A u \in Awaited(t) : ~ Changed(t, u)
          /\ Off(t) /\ UNCHANGED <<mem, obj>>
    /\ UNCHANGED <<prog, kernel, out, faults>>

Others(t) ==
    {u \in DOMAIN task \ {t} : task[u].group = task[t].group /\ task[u].st \in {"live", "stopped"}}

\* A thread ends: with the first of its cleanup handlers, if it has any left.
\* The first thread of a process stays until all the others have ended.
Finish(t, how) ==
    /\ task' = IF task[t].cleanup = << >>
               THEN Bereave([task EXCEPT ![t].st = IF t = task[t].group THEN "left" ELSE "zombie",
                                         ![t].how = how, ![t].asleep = FALSE],
                            {t}, CHOOSE u \in Others(t) : TRUE)
               ELSE [task EXCEPT ![t].code = Head(task[t].cleanup), ![t].pc = 1,
                                 ![t].cleanup = Tail(@), ![t].how = how, ![t].asleep = FALSE,
                                 ![t].cancel = "dying"]
    /\ UNCHANGED <<prog, mem, obj, fds, disp, names, out, faults>>

DoThreadExit(t, i) ==
    /\ i.op = "texit"
    /\ IF Others(t) = {} /\ task[t].cleanup = << >>
       THEN Ended(t, <<"exited", 0>>) /\ UNCHANGED <<out, faults>>
       ELSE Finish(t, Val(t, i.a)) /\ UNCHANGED locks

DoJoin(t, i) ==
    /\ i.op = "join"
    /\ task[i.a].st = "zombie"
    /\ task' = [Moved(task, t, 1) EXCEPT ![i.a].st = "gone"]
    /\ Store(t, i.b, task[i.a].how)
    /\ UNCHANGED <<prog, kernel, out, faults>>

DoCancel(t, i) ==
    LET u == i.a IN
    /\ i.op = "cancel"
    /\ task' = [Moved(task, t, 1) EXCEPT
                  ![u].cancel = IF @ = "on" THEN "asked" ELSE @]
    /\ UNCHANGED <<prog, mem, obj, kernel, out, faults>>

\* pthread_cleanup_push and pthread_cleanup_pop; a handler that is popped
\* with a nonzero argument is called, as a script that returns.
DoCleanup(t, i) ==
    LET h == task[t].cleanup
        next == Moved(task, t, 1)
    IN
    /\ i.op = "cleanup"
    /\ task' = CASE i.b = "push" -> [next EXCEPT ![t].cleanup = << i.a >> \o @]
                 [] i.b = "pop" /\ ~ i.c -> [next EXCEPT ![t].cleanup = Tail(@)]
                 [] OTHER -> [task EXCEPT
                                ![t].cleanup = Tail(@), ![t].code = Head(h), ![t].pc = 1,
                                ![t].stack = << [code |-> task[t].code, pc |-> next[t].pc,
                                                 mask |-> task[t].mask] >> \o @]
    /\ UNCHANGED <<prog, mem, obj, kernel, out, faults>>

\* Cancellation points of the programs: sleep, pthread_cond_wait, read, join.
\* pthread_cond_wait has the mutex again when the cleanup handler runs.
AtCancellationPoint(t) ==
    task[t].cancel = "asked" /\ Here(t).op \in {"nop", "cwait", "read", "join"}
BeCancelled(t) ==
    /\ Live(t) /\ AtCancellationPoint(t)
    /\ Here(t).op = "cwait" /\ task[t].asleep =>
           ~ \E l \in locks : l[1] = Here(t).b
    /\ Finish(t, "canceled")
    /\ locks' = {l \in locks : ~ (l[2] = t /\ l[4] = "cond")}
                \cup (IF Here(t).op = "cwait" /\ task[t].asleep
                      THEN {<<Here(t).b, t, "w", "mutex">>} ELSE {})

-----------------------------------------------------------------------------
(* Signals. *)

DoKill(t, i) ==
    LET u == Val(t, i.a) IN
    /\ i.op = "kill"
    /\ IF u \in DOMAIN task /\ task[u].st \in {"live", "stopped", "zombie"}
       THEN task' = IF i.b = "0" THEN Moved(task, t, 1) ELSE Post(Moved(task, t, 1), u, i.b)
       ELSE Off(t)
    /\ UNCHANGED <<prog, mem, obj, kernel, out, faults>>

DoKillGroup(t, i) ==
    LET members == {u \in DOMAIN task : task[u].pgrp = i.a /\ task[u].st \in {"live", "stopped"}} IN
    /\ i.op = "killpg"
    /\ task' = IF members = {} THEN Moved(task, t, Alt(t))
               ELSE FoldSet(LAMBDA u, ts : Post(ts, u, i.b), Moved(task, t, 1), members)
    /\ UNCHANGED <<prog, mem, obj, kernel, out, faults>>

\* A signal that is set to be ignored is no longer pending.
DoHandle(t, i) ==
    LET s == i.a
        d == IF i.op = "handle" THEN [h |-> i.b, flag |-> i.c]
             ELSE Val(t, V(i.b))
    IN
    /\ i.op = "handle" \/ i.op = "rehandle"
    /\ disp' = [disp EXCEPT ![task[t].sighand] = (s :> d) @@ @]
    /\ task' = IF d.h = "ign" \/ (d.h = "dfl" /\ s \in DefaultIgnored)
               THEN [Moved(task, t, 1) EXCEPT
                       ![t].pend = SelectSeq(@, LAMBDA e : e # s)]
               ELSE Moved(task, t, 1)
    /\ UNCHANGED <<prog, mem, obj, fds, names, locks, out, faults>>

DoGetHandler(t, i) ==
    /\ i.op = "gethandler"
    /\ SetMem(t, i.b, Disposition(t, i.a))
    /\ On(t)
    /\ UNCHANGED <<prog, obj, kernel, out, faults>>

DoSigpending(t, i) ==
    /\ i.op = "sigpending"
    /\ Store(t, i.a, {task[t].pend[k] : k \in DOMAIN task[t].pend})
    /\ On(t)
    /\ UNCHANGED <<prog, kernel, out, faults>>

DoMask(t, i) ==
    LET sigs == Val(t, i.b) IN
    /\ i.op = "mask"
    /\ task' = [Moved(task, t, 1) EXCEPT
                  ![t].mask = CASE i.a = "block" -> @ \cup sigs
                                [] i.a = "unblock" -> @ \ sigs
                                [] OTHER -> sigs]
    /\ IF i.c = "" THEN UNCHANGED mem ELSE SetMem(t, i.c, task[t].mask)
    /\ UNCHANGED <<prog, obj, kernel, out, faults>>

\* pause and sigsuspend wait until a handler has run.
DoPause(t, i) ==
    /\ i.op = "pause" \/ i.op = "sigsuspend"
    /\ ~ task[t].asleep
    /\ task' = [task EXCEPT ![t].asleep = TRUE, ![t].saved = task[t].mask,
                            ![t].mask = IF i.op = "pause" THEN @ ELSE Val(t, i.a)]
    /\ UNCHANGED <<prog, mem, obj, kernel, out, faults>>

DoSigwait(t, i) ==
    /\ i.op = "sigwait"
    /\ \E k \in DOMAIN task[t].pend :
         LET s == task[t].pend[k] IN
         /\ s \in i.a
         /\ \A j \in 1 .. k - 1 : task[t].pend[j] # s
         /\ task' = [Moved(task, t, 1) EXCEPT ![t].pend = RemoveAt(@, k)]
         /\ Store(t, i.b, s)
    /\ UNCHANGED <<prog, kernel, out, faults>>

DoAlarm(t, i) ==
    /\ i.op = "alarm"
    /\ task' = [Moved(task, t, 1) EXCEPT ![t].alarm = i.a]
    /\ UNCHANGED <<prog, mem, obj, kernel, out, faults>>

\* The timer of a process expires.
Expire(t) ==
    /\ task[t].alarm = "once" /\ Live(t)
    /\ task' = Post([task EXCEPT ![t].alarm = "off"], t, "ALRM")
    /\ UNCHANGED <<prog, mem, obj, kernel, out, faults>>

\* Calls that a handler interrupts while they wait.
Waits(t) ==
    CASE Here(t).op = "read" -> HasEnd(t, Here(t).a, "r") /\ ~ Readable(t, Here(t).a)
      [] Here(t).op = "wait" -> Awaited(t) # {} /\ ~ \E u \in Awaited(t) : Changed(t, u)
      [] Here(t).op = "poll" -> ~ \E d \in Here(t).a : Readable(t, d)
      [] Here(t).op = "recv" -> Queue(Val(t, Here(t).a)) = << >>
      [] Here(t).op = "semop" -> obj[Here(t).a] + Here(t).b < 0
      [] Here(t).op = "nop" -> TRUE
      [] OTHER -> FALSE
\* select, poll, semop and sleep are never restarted.
Restarts(t, flag) == flag = "restart" /\ Here(t).op \notin {"poll", "semop", "nop"}

\* The handler's frame returns to the call, behind it, or, with EINTR, to
\* its alternative; sleep() just returns.
Caught(t, i, n) ==
    LET s == task[t].pend[i]
        d == Disposition(t, s)
        frame == [code |-> task[t].code, pc |-> Moved(task, t, n)[t].pc,
                  mask |-> IF task[t].asleep THEN task[t].saved ELSE task[t].mask]
    IN  /\ task' = [task EXCEPT
                      ![t].pend = RemoveAt(@, i), ![t].asleep = FALSE,
                      ![t].mask = @ \cup (IF d.flag = "maskall" THEN AllSignals ELSE {s}),
                      ![t].code = d.h, ![t].pc = 1, ![t].stack = << frame >> \o @]
        /\ UNCHANGED <<prog, mem, obj, kernel>>

Deliver(t) ==
    /\ Live(t)
    /\ \E i \in Deliverable(t) :
         LET s == task[t].pend[i]
             d == Disposition(t, s)
         IN  CASE d.h \notin {"dfl", "ign"} ->
                    \E n \in (IF task[t].asleep THEN {1} ELSE {0})
                             \cup (IF ~ task[t].asleep /\ Waits(t) /\ ~ Restarts(t, d.flag)
                                   THEN {IF Here(t).op = "nop" /\ Here(t).alt = 0 THEN 1 ELSE Alt(t)}
                                   ELSE {}) :
                        Caught(t, i, n)
               [] Ignored(t, s) ->
                    /\ task' = [task EXCEPT ![t].pend = RemoveAt(@, i)]
                    /\ UNCHANGED <<prog, mem, obj, kernel>>
               [] d.h = "dfl" /\ s \in DefaultStops ->
                    /\ LET stopped == [task EXCEPT ![t].pend = RemoveAt(@, i),
                                                   ![t].st = "stopped", ![t].note = "stopped"]
                       IN  task' = IF task[t].parent = InitTask THEN stopped
                                   ELSE Post(stopped, task[t].parent, "CHLD")
                    /\ UNCHANGED <<prog, mem, obj, kernel>>
               [] OTHER -> Ended(t, <<"killed", s>>)
    /\ UNCHANGED <<out, faults>>

\* A handler returns, or a cleanup handler of a thread that ends.
DoRet(t, i) ==
    LET f == Head(task[t].stack) IN
    /\ i.op = "ret"
    /\ IF task[t].stack # << >>
       THEN /\ task' = [task EXCEPT ![t].code = f.code, ![t].pc = f.pc, ![t].mask = f.mask,
                                    ![t].stack = Tail(@)]
            /\ UNCHANGED <<prog, mem, obj, fds, disp, names, out, faults>>
       ELSE Finish(t, task[t].how)
    /\ UNCHANGED locks

DoSetjmp(t, i) ==
    /\ i.op = "setjmp"
    /\ SetMem(t, i.a, [code |-> task[t].code, pc |-> Moved(task, t, Alt(t))[t].pc,
                             depth |-> Len(task[t].stack), keep |-> ~ i.b,
                             mask |-> task[t].mask])
    /\ On(t)
    /\ UNCHANGED <<prog, obj, kernel, out, faults>>

DoLongjmp(t, i) ==
    LET env == Val(t, V(i.a)) IN
    /\ i.op = "longjmp"
    /\ task' = [task EXCEPT ![t].code = env.code, ![t].pc = env.pc,
                            ![t].mask = IF env.keep THEN @ ELSE env.mask,
                            ![t].stack = SubSeq(@, Len(@) - env.depth + 1, Len(@))]
    /\ UNCHANGED <<prog, mem, obj, kernel, out, faults>>

-----------------------------------------------------------------------------
(* Descriptors. *)

AddEnds(t, ends) == fds' = [fds EXCEPT ![task[t].files] = @ \cup ends]

DoOpenEnds(t, i) ==
    /\ \/ i.op = "pipe" /\ AddEnds(t, {<<i.a, i.c, "r">>, <<i.b, i.c, "w">>})
       \/ i.op = "socketpair" /\ AddEnds(t, {<<i.a, i.c \o "_up", "w">>, <<i.a, i.c \o "_dn", "r">>,
                                             <<i.b, i.c \o "_up", "r">>, <<i.b, i.c \o "_dn", "w">>})
       \/ i.op = "open" /\ i.b \in names /\ AddEnds(t, {<<i.a, i.b, m>> : m \in i.c})
       \/ /\ i.op = "dup2" /\ \E e \in Files(t) : e[1] = i.a
          /\ fds' = [fds EXCEPT ![task[t].files] =
                       {e \in @ : e[1] # i.b} \cup {<<i.b, e[2], e[3]>> : e \in {e \in @ : e[1] = i.a}}]
    /\ On(t)
    /\ UNCHANGED <<prog, mem, disp, obj, names, locks, out, faults>>

DoCloseEnds(t, i) ==
    /\ i.op = "close" \/ i.op = "shutdown"
    /\ \E e \in Files(t) : e[1] = i.a
    /\ fds' = [fds EXCEPT ![task[t].files] =
                 {e \in @ : ~ (e[1] = i.a /\ (i.op = "close" \/ e[3] = "w"))}]
    /\ On(t)
    /\ UNCHANGED <<prog, mem, disp, obj, names, locks, out, faults>>

\* EBADF and ENOENT.
BadDescriptor(t, i) ==
    /\ \/ (i.op = "close" \/ i.op = "shutdown" \/ i.op = "dup2") /\ ~ \E e \in Files(t) : e[1] = i.a
       \/ i.op = "open" /\ i.b \notin names
       \/ i.op = "read" /\ ~ HasEnd(t, i.a, "r")
       \/ i.op = "write" /\ ~ HasEnd(t, i.a, "w")
    /\ Off(t)
    /\ UNCHANGED <<prog, mem, obj, kernel, out, faults>>

\* A read waits while there is nothing to read and somebody, the reader
\* too, could write.
DoRead(t, i) ==
    LET o == End(t, i.a, "r")[2]
    IN  /\ i.op = "read" /\ HasEnd(t, i.a, "r")
        /\ \/ /\ Queue(o) # << >>
              /\ LET v == Head(Queue(o)) IN
                 IF i.b[1] = "var" THEN SetMem(t, i.b[2], v) /\ SetObj(o, Tail(Queue(o)))
                 ELSE obj' = (o :> Tail(Queue(o))) @@ (i.b[2] :> v) @@ obj /\ UNCHANGED mem
              /\ On(t)
           \/ /\ Queue(o) = << >> /\ ~ Held(o, "w")
              /\ Off(t) /\ UNCHANGED <<mem, obj>>
           \/ /\ Queue(o) = << >> /\ Held(o, "w") /\ i.c = "nonblock"
              /\ Store(t, i.b, "EAGAIN") /\ On(t)
        /\ UNCHANGED <<prog, kernel, out, faults>>

DoWrite(t, i) ==
    LET o == End(t, i.a, "w")[2]
    IN  /\ i.op = "write" /\ HasEnd(t, i.a, "w")
        /\ \/ /\ o = "tty"
              /\ out' = Append(out, Val(t, i.b)) /\ On(t) /\ UNCHANGED obj
           \/ /\ o # "tty" /\ Held(o, "r") /\ Len(Queue(o)) < QueueSize
              /\ SetObj(o, Append(Queue(o), Val(t, i.b)))
              /\ On(t) /\ UNCHANGED out
           \/ /\ o # "tty" /\ ~ Held(o, "r")                      \* EPIPE
              /\ task' = Post(Moved(task, t, Alt(t)), t, "PIPE")
              /\ UNCHANGED <<obj, out>>
        /\ UNCHANGED <<prog, mem, kernel, faults>>

DoPoll(t, i) ==
    /\ i.op = "poll"
    /\ \/ \E d \in i.a : Readable(t, d) /\ Store(t, i.b, d) /\ On(t)
       \/ /\ i.c = "nonblock" /\ \A d \in i.a : ~ Readable(t, d)
          /\ Off(t) /\ UNCHANGED <<mem, obj>>
    /\ UNCHANGED <<prog, kernel, out, faults>>

\* A connection is two queues; the server's ends wait in the kernel until
\* accept gives them to somebody.
DoListen(t, i) ==
    /\ \/ i.op = "listen" /\ names' = names \cup {i.a} /\ UNCHANGED <<fds, obj>>
       \/ /\ i.op = "unlisten"
          /\ names' = names \ {i.a}
          /\ fds' = [fds EXCEPT ![InitTask] = {e \in @ : \A k \in DOMAIN Queue(i.a) : e[1] # Queue(i.a)[k]}]
          /\ SetObj(i.a, << >>)
    /\ On(t)
    /\ UNCHANGED <<prog, mem, disp, locks, out, faults>>

DoConnect(t, i) ==
    /\ i.op = "connect"
    /\ IF i.b \in names
       THEN /\ SetObj(i.b, Append(Queue(i.b), i.c))
            /\ fds' = [fds EXCEPT ![task[t].files] = @ \cup {<<i.a, i.c \o "_up", "w">>,
                                                             <<i.a, i.c \o "_dn", "r">>},
                                  ![InitTask] = @ \cup {<<i.c, i.c \o "_up", "r">>,
                                                        <<i.c, i.c \o "_dn", "w">>}]
            /\ On(t)
       ELSE Off(t) /\ UNCHANGED <<obj, fds>>
    /\ UNCHANGED <<prog, mem, disp, names, locks, out, faults>>

DoAccept(t, i) ==
    LET conn == Head(Queue(i.b))
    IN  /\ i.op = "accept"
        /\ Queue(i.b) # << >>
        /\ SetObj(i.b, Tail(Queue(i.b)))
        /\ fds' = [fds EXCEPT ![InitTask] = {e \in @ : e[1] # conn},
                              ![task[t].files] = {e \in @ : e[1] # i.a}
                                  \cup {<<i.a, e[2], e[3]>> : e \in {e \in fds[InitTask] : e[1] = conn}}]
        /\ On(t)
        /\ UNCHANGED <<prog, mem, disp, names, locks, out, faults>>

\* Descriptors in a message are open in the kernel until it is received: the
\* k-th of the message in socket o is held under the name o \o k.
InFlight(o, k) == o \o ToString(k)
DoSendFds(t, i) ==
    LET o == End(t, i.a, "w")[2]
        sent == {<<InFlight(o, k), e[2], e[3]>> : k \in DOMAIN i.b, e \in Files(t)}
        mine == {s \in sent : \E k \in DOMAIN i.b : s[1] = InFlight(o, k) /\ <<i.b[k], s[2], s[3]>> \in Files(t)}
    IN  /\ i.op = "sendfds"
        /\ Held(o, "r")
        /\ fds' = [fds EXCEPT ![InitTask] = @ \cup mine]
        /\ SetObj(o, Append(Queue(o), Val(t, i.c)))
        /\ On(t)
        /\ UNCHANGED <<prog, mem, disp, names, locks, out, faults>>

DoRecvFds(t, i) ==
    LET o == End(t, i.a, "r")[2]
        came == {e \in fds[InitTask] : \E k \in 1 .. 2 : e[1] = InFlight(o, k)}
        mine == {<<i.b[k], e[2], e[3]>> : k \in DOMAIN i.b, e \in came}
        fit == {e \in mine : \E k \in DOMAIN i.b : e[1] = i.b[k] /\ <<InFlight(o, k), e[2], e[3]>> \in came}
    IN  /\ i.op = "recvfds"
        /\ \/ /\ Queue(o) # << >>
              /\ fds' = [fds EXCEPT ![InitTask] = @ \ came, ![task[t].files] = @ \cup fit]
              /\ SetObj(o, Tail(Queue(o)))
              /\ SetMem(t, i.c, Head(Queue(o)))
              /\ On(t)
           \/ /\ Queue(o) = << >> /\ ~ Held(o, "w")
              /\ Off(t) /\ UNCHANGED <<fds, obj, mem>>
        /\ UNCHANGED <<prog, disp, names, locks, out, faults>>

-----------------------------------------------------------------------------
(* Objects, queues, semaphores and locks. *)

DoName(t, i) ==
    LET o == i.a IN
    /\ \/ /\ i.op = "create"
          /\ IF o \in names /\ i.b THEN Off(t) /\ UNCHANGED names
             ELSE names' = names \cup {o} /\ On(t)
          /\ obj' = IF o \in names \/ i.c = << >> THEN obj ELSE (o :> i.c[1]) @@ obj
       \/ /\ i.op = "exists"
          /\ IF o \in names THEN On(t) ELSE Off(t)
          /\ UNCHANGED <<names, obj>>
       \/ /\ i.op = "unlink"
          /\ names' = names \ {o}
          /\ IF o \in names THEN On(t) ELSE Off(t)
          /\ UNCHANGED obj
    /\ UNCHANGED <<prog, mem, fds, disp, locks, out, faults>>

\* A message comes before those with a lower priority, where there are any.
Enqueue(q, m, prio) ==
    LET n == IF prio THEN Cardinality({k \in DOMAIN q : q[k][1] >= m[1]}) ELSE Len(q)
    IN  SubSeq(q, 1, n) \o <<m>> \o SubSeq(q, n + 1, Len(q))
\* Who asked to be notified is told of a message to the empty queue, once.
Notified(q) == {l \in locks : l[1] = q /\ l[4] = "notify" /\ Queue(q) = << >>}

DoSend(t, i) ==
    LET q == Val(t, i.a) IN
    /\ i.op = "send"
    /\ q \in names
    /\ \/ /\ Len(Queue(q)) < QueueSize
          /\ SetObj(q, Enqueue(Queue(q), Val(t, i.b), i.c = "prio"))
          /\ task' = FoldSet(LAMBDA l, ts : Post(ts, l[2], l[3]), Moved(task, t, 1), Notified(q))
          /\ locks' = locks \ Notified(q)
       \/ /\ Len(Queue(q)) >= QueueSize /\ i.c = "nonblock"
          /\ Off(t) /\ UNCHANGED <<obj, locks>>
    /\ UNCHANGED <<prog, mem, fds, disp, names, out, faults>>

DoNotify(t, i) ==
    /\ i.op = "notify"
    /\ ~ \E l \in locks : l[1] = i.a /\ l[4] = "notify"
    /\ locks' = locks \cup {<<i.a, i.b, i.c, "notify">>}
    /\ On(t)
    /\ UNCHANGED <<prog, mem, fds, disp, obj, names, out, faults>>

\* The first message of one of the types.
DoRecvType(t, i) ==
    LET q == Val(t, i.a)
        matching == {k \in DOMAIN Queue(q) : Queue(q)[k][1] \in i.c}
        first == CHOOSE k \in matching : \A j \in matching : k <= j
    IN  /\ i.op = "recvtype"
        /\ matching # {}
        /\ SetObj(q, RemoveAt(Queue(q), first))
        /\ SetMem(t, i.b, Queue(q)[first])
        /\ On(t)
        /\ UNCHANGED <<prog, kernel, out, faults>>

DoRecv(t, i) ==
    LET q == Val(t, i.a) IN
    /\ i.op = "recv"
    /\ \/ /\ q \in names /\ Queue(q) # << >>
          /\ SetObj(q, Tail(Queue(q)))
          /\ SetMem(t, i.b, Head(Queue(q)))
          /\ On(t)
       \/ /\ q \notin names \/ (Queue(q) = << >> /\ i.c = "nonblock")
          /\ Off(t) /\ UNCHANGED <<mem, obj>>
    /\ UNCHANGED <<prog, kernel, out, faults>>

\* Waits until the counter of a timer or event descriptor is not 0, and
\* resets it.
DoTake(t, i) ==
    /\ i.op = "take"
    /\ obj[i.b] # 0
    /\ SetMem(t, i.a, obj[i.b])
    /\ SetObj(i.b, 0)
    /\ On(t)
    /\ UNCHANGED <<prog, kernel, out, faults>>

\* sem_post and sem_wait, and semop: a negative n waits until the value is
\* large enough, 0 until it is 0.
DoSemOp(t, i) ==
    LET can == IF i.b = 0 THEN obj[i.a] = 0 ELSE obj[i.a] + i.b >= 0
    IN  /\ i.op = "semop"
        /\ \/ /\ i.a \in names /\ can
              /\ SetObj(i.a, obj[i.a] + i.b) /\ On(t)
           \/ /\ i.a \notin names \/ (~ can /\ i.c = "nonblock")
              /\ Off(t) /\ UNCHANGED obj
        /\ UNCHANGED <<prog, mem, kernel, out, faults>>

\* Operations on several semaphores are done in one step, or none of them is.
DoSemOps(t, i) ==
    LET op(sems, e) == [sems EXCEPT ![e[1]] = IF @ = -1 \/ @ + e[2] < 0 \/ (e[2] = 0 /\ @ # 0) THEN -1 ELSE @ + e[2]]
        after == FoldLeft(op, [s \in {i.a[k][1] : k \in DOMAIN i.a} |-> obj[s]], i.a)
        can == \A s \in DOMAIN after : after[s] >= 0
    IN  /\ i.op = "semops"
        /\ \/ can /\ obj' = after @@ obj /\ On(t)
           \/ ~ can /\ i.c = "nonblock" /\ Off(t) /\ UNCHANGED obj
        /\ UNCHANGED <<prog, mem, kernel, out, faults>>

\* Mutexes and read-write locks belong to a task, file locks to a process;
\* a process that has a file lock changes its mode.
Holder(t, kind) == IF kind = "file" THEN task[t].group ELSE t
Conflicts(t, m, mode, kind) ==
    \E l \in locks :
        l[1] = m /\ (l[2] # Holder(t, kind) \/ kind # "file") /\ "w" \in {mode, l[3]}

DoLock(t, i) ==
    LET kind == IF i.c \in {"file", "tryfile"} THEN "file" ELSE "mutex"
        busy == Conflicts(t, i.a, i.b, kind)
    IN  /\ i.op = "lock"
        /\ \/ /\ ~ busy
              /\ locks' = {l \in locks : ~ (kind = "file" /\ l[1] = i.a /\ l[2] = Holder(t, kind))}
                          \cup {<<i.a, Holder(t, kind), i.b, kind>>}
              /\ On(t)
           \/ /\ busy /\ i.c \in {"nonblock", "tryfile"}
              /\ Off(t) /\ UNCHANGED locks
        /\ UNCHANGED <<prog, mem, fds, disp, obj, names, out, faults>>

DoUnlock(t, i) ==
    /\ i.op = "unlock"
    /\ locks' = {l \in locks : ~ (l[1] = i.a /\ l[2] \in {t, task[t].group})}
    /\ On(t)
    /\ UNCHANGED <<prog, mem, fds, disp, obj, names, out, faults>>

\* pthread_cond_wait gives the mutex up and waits in one step, and takes the
\* mutex again when it has been woken.
DoCondWait(t, i) ==
    LET c == i.a
        m == i.b
    IN  /\ i.op = "cwait"
        /\ \/ /\ ~ task[t].asleep
              /\ locks' = (locks \ {<<m, t, "w", "mutex">>}) \cup {<<c, t, "wait", "cond">>}
              /\ task' = [task EXCEPT ![t].asleep = TRUE]
           \/ /\ task[t].asleep /\ <<c, t, "wait", "cond">> \notin locks
              /\ ~ Conflicts(t, m, "w", "mutex")
              /\ locks' = locks \cup {<<m, t, "w", "mutex">>}
              /\ On(t)
        /\ UNCHANGED <<prog, mem, fds, disp, obj, names, out, faults>>

Waiters(c) == {l \in locks : l[1] = c /\ l[4] = "cond"}
DoCondSignal(t, i) ==
    /\ i.op = "csignal"
    /\ IF Waiters(i.a) # {}
       THEN \E l \in Waiters(i.a) : locks' = locks \ {l}
       ELSE UNCHANGED locks
    /\ On(t)
    /\ UNCHANGED <<prog, mem, fds, disp, obj, names, out, faults>>

\* pthread_cond_wait may return though nobody signalled.
SpuriousWakeup(t) ==
    /\ Live(t) /\ Here(t).op = "cwait" /\ task[t].asleep
    /\ prog.name \in Faulty /\ faults < MaxFaults
    /\ locks' = locks \ {<<Here(t).a, t, "wait", "cond">>}
    /\ locks' # locks
    /\ faults' = faults + 1
    /\ UNCHANGED <<prog, task, mem, fds, disp, obj, names, out>>

\* The last of n threads lets the others go; it is the serial one.
DoBarrier(t, i) ==
    LET b == i.a IN
    /\ i.op = "barrier"
    /\ \/ /\ ~ task[t].asleep /\ Cardinality(Waiters(b)) < i.b - 1
          /\ locks' = locks \cup {<<b, t, "wait", "cond">>}
          /\ task' = [task EXCEPT ![t].asleep = TRUE]
          /\ UNCHANGED <<mem, obj>>
       \/ /\ ~ task[t].asleep /\ Cardinality(Waiters(b)) = i.b - 1
          /\ locks' = locks \ Waiters(b)
          /\ Store(t, i.c, TRUE) /\ On(t)
       \/ /\ task[t].asleep /\ <<b, t, "wait", "cond">> \notin locks
          /\ Store(t, i.c, FALSE) /\ On(t)
          /\ UNCHANGED locks
    /\ UNCHANGED <<prog, fds, disp, names, out, faults>>

-----------------------------------------------------------------------------
(* Faults, and the specification. *)

\* A call that the code checks fails, or somebody kills the process.
Fallible == {"fork", "pipe", "socketpair", "open", "connect", "send", "semop", "wait"}
Fail(t) ==
    /\ prog.name \in Faulty /\ faults < MaxFaults
    /\ Live(t) /\ Here(t).op \in Fallible
    /\ Off(t)
    /\ faults' = faults + 1
    /\ UNCHANGED <<prog, mem, obj, kernel, out>>

Crash(t) ==
    /\ prog.name \in Faulty /\ faults < MaxFaults
    /\ Live(t)
    /\ Ended(t, <<"killed", "KILL">>)
    /\ faults' = faults + 1
    /\ UNCHANGED out

\* The task carries out its instruction.
Step(t, i) ==
    \/ DoNop(t, i) \/ DoSet(t, i) \/ DoAdd(t, i) \/ DoAddOf(t, i) \/ DoPush(t, i) \/ DoApply(t, i) \/ DoChoose(t, i)
    \/ DoTest(t, i) \/ DoSee(t, i) \/ DoPuts(t, i)
    \/ DoFork(t, i) \/ DoVwait(t, i) \/ DoExec(t, i) \/ DoExit(t, i) \/ DoWait(t, i)
    \/ DoGetppid(t, i) \/ DoPrctl(t, i) \/ DoSetpgid(t, i)
    \/ DoThreadExit(t, i) \/ DoJoin(t, i) \/ DoCancel(t, i)
    \/ DoCleanup(t, i)
    \/ DoKill(t, i) \/ DoKillGroup(t, i) \/ DoHandle(t, i) \/ DoGetHandler(t, i) \/ DoMask(t, i) \/ DoSigpending(t, i)
    \/ DoPause(t, i) \/ DoSigwait(t, i) \/ DoAlarm(t, i) \/ DoRet(t, i)
    \/ DoSetjmp(t, i) \/ DoLongjmp(t, i)
    \/ DoOpenEnds(t, i) \/ DoCloseEnds(t, i) \/ BadDescriptor(t, i) \/ DoRead(t, i)
    \/ DoWrite(t, i) \/ DoPoll(t, i) \/ DoListen(t, i) \/ DoConnect(t, i) \/ DoAccept(t, i)
    \/ DoSendFds(t, i) \/ DoRecvFds(t, i)
    \/ DoName(t, i) \/ DoSend(t, i) \/ DoRecv(t, i) \/ DoRecvType(t, i) \/ DoNotify(t, i)
    \/ DoTake(t, i) \/ DoSemOp(t, i) \/ DoSemOps(t, i)
    \/ DoLock(t, i) \/ DoUnlock(t, i) \/ DoCondWait(t, i) \/ DoCondSignal(t, i)
    \/ DoBarrier(t, i)

Run(t) ==
    \/ Ready(t) /\ ~ AtCancellationPoint(t) /\ \E i \in {Here(t)} : Step(t, i)
    \/ Deliver(t) \/ BeCancelled(t)

AllEnded == \A t \in DOMAIN task : task[t].st \notin {"live", "stopped"}
Rest == (AllEnded \/ prog.name \in Endless) /\ UNCHANGED vars

Next ==
    \/ \E t \in DOMAIN task : Run(t) \/ Expire(t) \/ SpuriousWakeup(t) \/ Fail(t) \/ Crash(t)
    \/ Rest

\* Tasks of all the programs.
TaskNames == UNION {DOMAIN Programs[p].code : p \in DOMAIN Programs}

\* The kernel schedules every task, and timers expire.
Spec ==
    /\ Init
    /\ [][Next]_vars
    /\ \A t \in TaskNames : /\ WF_vars(t \in DOMAIN task /\ Run(t))
                            /\ WF_vars(t \in DOMAIN task /\ Expire(t))

-----------------------------------------------------------------------------
(* Properties. *)

\* When all tasks have ended and nothing failed, the output is one that the
\* repository promises for the program and its input, whatever the order in
\* which the tasks ran; what a program that does not end has written is at
\* any time the beginning of one.  The programs in Deviating are excepted.
OutputPromised ==
    prog.name \in Deviating \/ faults # 0 \/
        LET promised == Promised[prog.name][obj["input"]]
        IN  IF prog.name \in Endless THEN \E s \in promised : IsPrefix(out, s)
            ELSE AllEnded => out \in promised

\* A process dies of a signal only if that signal is listed for its program in
\* Killing: because it is sent to kill, or because the user may send it before
\* the program can have installed its handler.  No process dies of an invalid
\* address or of a signal that another process of the program sends too early,
\* and of SIGPIPE only the command whose terminal unbuffer has closed.  The
\* programs in Deviating are excepted: PromisesKept is about them.
NobodyKilled ==
    prog.name \in Deviating \/ faults # 0 \/
    \A t \in DOMAIN task : task[t].group = t /\ task[t].st \in {"zombie", "gone"} =>
        \/ task[t].how[1] # "killed"
        \/ prog.name \in DOMAIN Killing /\ task[t].how[2] \in Killing[prog.name]

\* What the comments, usage messages and names of the repository say: each
\* program writes what it should, and none of its processes is killed by
\* mistake.  With Deviating empty nothing is excepted.
PromisesKept == OutputPromised /\ NobodyKilled

\* No child is left to init, as a zombie or still at work.
ChildrenReaped ==
    AllEnded /\ faults = 0 /\ prog.name \in Reaping =>
        \A t \in Forked(P) : task[t].st = "unborn" \/ task[t].parent # InitTask

\* A program that changes its signal mask and dispositions for the time of a
\* call ends with the ones it began with, also when a call has failed.
SignalsRestored ==
    (/\ prog.name \in DOMAIN Restoring
     /\ task["main"].st \in {"zombie", "gone"} /\ task["main"].how[1] = "exited") =>
        /\ task["main"].mask = {}
        /\ \A s \in {"INT", "QUIT"} : Disposition("main", s).h = Restoring[prog.name][s]

\* Every program ends, also when a call fails or a process is killed in one
\* that handles it; a program that does not end does all that was asked of
\* it, if it is not one of those in Deviating.
EveryoneConcludes ==
    <>[](IF prog.name \in Endless
         THEN prog.name \in Deviating \/ faults # 0 \/ out \in Promised[prog.name][obj["input"]]
         ELSE AllEnded)

=============================================================================
