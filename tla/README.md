# Verification of the Linux-Programming exercises

The repository holds small Linux programs, one or a client/server pair per exercise, about
processes, signals, pipes, FIFOs, System V and POSIX IPC, shared memory, threads and sockets. Each
is a system of its own; there is no program above them. What they have in common is where they can
go wrong: two or more processes whose steps interleave in an order that no test tries, a peer that
dies between two calls, a descriptor or a signal that is in the wrong state when it is needed. This
directory models them in TLA+, checks them with TLC, and proves with TLAPS what matters most about
eight of them. Nine systems, those in which the most can go wrong, have a module of their own; the other
programs, of the course and of the textbook that is part of the repository, are scripts of system
calls that one model of the kernel runs.

## Inventory

The parts of the repository, with the state they keep, their operations, what is hard about them and
what makes them correct.

| part (under `src/`) | state | operations | interaction | hard behaviour | correct when |
|---|---|---|---|---|---|
| signal ping-pong, `homework/hw7/7-1` | signal mask, pending bit, loop counters | sigaction, sigprocmask, fork, kill, sigsuspend, sigwaitinfo | signals between parent and child | signals merge, arrive before the wait, or are sent to a process that is gone | no signal is lost, the loops stay in step, the exchange ends |
| sequence-number service, `homework/hw8/44-6` | seqNum, FIFO files, open ends, bytes in FIFOs | mkfifo, open, read, write, close, unlink | server and clients through FIFOs | order of opens, EOF, SIGPIPE, dying clients, restarted server | answers are disjoint intervals; every request is handled |
| shared stack, `quiz/quiz3` | buffer, index, mutex, condition variable in shared memory | push, pop, fork, wait | processes through shared memory | one condition variable for two conditions, spurious wakeups, everyone waiting | atomic LIFO; nobody sleeps who could go on |
| shared memory transfer, `quiz/quiz4/pre_code` | segment, two semaphores | initSem, reserveSem, releaseSem, shmget, IPC_RMID | writer and reader | reader starts at any moment, last turn, removal of objects in use | output equals input; objects outlive the reader |
| broadcast, `homework/hw10`, `test` | shared buffer, shared counters, pending signals | fill, kill, two handlers, waitpid | parent to children by buffer and SIGUSR1, SIGTERM | merged signals, refilled buffer, lost updates, nested handlers | the statistics are final and not above what was sent |
| shells, `homework/hw3/3-1`, `homework/hw5/5-2` | argument vector, descriptors, children | parse, is_background, redirect_in/out, pipe_and_exec, run_command, wait | fork, pipes, exit status | descriptors copied by every fork, children that end in any order, a stage that fails | stages wired in order, EOF and SIGPIPE arrive, the right child is waited for |
| dictionary, `homework/hw11/11-1..3` | connections, records in flight, the record in memory | connect, send, recv, accept, fork, lookup | stream sockets, datagrams | short reads, lost or duplicated datagrams, dying servers | answers are true and belong to the question |
| summing servers, `homework/hw8/46-2`, `homework/hw9/52-3` | queues, their names, last message | msgget/mq_open, send, receive, remove | message queues | full queue, removal under a user, a name that is bound again, killed server | nothing sent is lost before "end"; "end" stops a server; no client stays blocked |
| parent and child over pipes, `homework/hw6`, `homework/hw5/5-1/pipe_ls.c`, `quiz/quiz5` | open pipe ends, buffers | pipe, fork, close, dup2, fdopen, read, write, wait | two pipes | an end left open or closed too early, a dying peer | replies in order and complete, both processes end |
| directory-tree monitor, `tlpi-book/inotify/inotify_dtree.c` | cache of watches and paths, event buffer, walk of the tree | nftw, add and remove watch, rebuild, process an event, commands | inotify events of other processes' changes | events come late, in halves, or not at all; paths are resolved when the tree has changed again | watches and cache agree, events are all processed |
| programs of the course, `homework/*`, `quiz/*`, `note/` | descriptors, memory, signal masks, files | the system calls of each | parents, children, threads, clients, users | see the hazards in `PROJECT.json` | each writes what it should and ends |
| programs of the textbook, `tlpi-book/*` | the same, and locks, semaphores, queues, process groups, timers | the same | the same | the same | the same |

## Not modelled

* Programs of one library call and its result in words (`hw0`, `hostinfo`, `mydate`, and of the textbook
  the chapters on attributes, users, terminals, time, limits and accounting): nothing is shared,
  and there is no state to be wrong about.
* Programs whose subject is a policy of the kernel (`acl`, `cap`, `cgroups`, `namespaces`, `seccomp`,
  `xattr`) or the work of linker, allocator and page cache (`shlibs`, `memalloc`, `vmem`, `mmap`, `filebuff`):
  what could be checked is not in the repository.
* Programs that list what exists in the system (`*_info`, `*_ls`, process accounting).
* The incomplete templates in `HW*_instruct` and `quiz*_instruct`; the copies of functions in
  `tlpi-book/lib` and of the helpers in `hw8/44-6` and `quiz4/pre_code`, which are modelled where the
  original is.
* Of modelled programs: usage messages and error exits that cannot happen with these arguments; of
  `inotify_dtree.c` IN_UNMOUNT, options, logging and the abort of `-a`; lost datagrams in the textbook's
  datagram programs (`Dictionary` has them); the wakeups that EPOLLEXCLUSIVE suppresses.

## Modules

| module | models | instantiated by |
|---|---|---|
| `SigSpeed` | `sig_speed_sigsuspend.c`, `sig_speed_sigwaitinfo.c` | `MCTurns` with `MCTurns.cfg` |
| `SigSpeedProofs` | theorems about `SigSpeed` | |
| `SeqAllocator` | abstract: a counter that hands out disjoint intervals, once per request | used by `FifoSeqnum` |
| `FifoSeqnum` | `fifo_seqnum_server.c`, `fifo_seqnum_client.c` | `MCFifoSeqnum.cfg`, `MCFifoSeqnumRace.cfg` |
| `FifoSeqnumProofs` | theorems about `FifoSeqnum` | |
| `BoundedStack` | abstract: a bounded LIFO stack with atomic push and pop | used by `SharedStack` |
| `SharedStack` | `quiz3/stack.c` with mutex and condition variable | through `StackDriver` |
| `StackDriver` | extends `SharedStack` with `quiz3/process.c`; without it (`ppc = "none"`) the callers are free | `MCStackDriver.cfg` |
| `SharedStackProofs` | theorems about `SharedStack` and `StackDriver` | |
| `SvshmXfer` | `48-2.c` (writer), `48-3.c` (reader), `binary_sems.c` | `MCTurns` with `MCTurns.cfg` |
| `SvshmShellProofs` | theorems about `SvshmXfer` and `Shell`, which share no variable | |
| `Broadcast` | `hw10/program.c` and `test/program.c`, chosen by `program` | `MCBroadcast.cfg` |
| `BroadcastProofs` | theorems about `Broadcast` | |
| `Shell` | one external command line in either shell | `MCShell` with `MCShell.cfg`, `MCShellWait.cfg` |
| `Dictionary` | clients and servers of hw11 over three transports | `MCDictionary.cfg` |
| `DictionaryProofs` | theorems about `Dictionary` | |
| `MessageQueues` | hw8/46-2 and hw9/52-3, chosen by `api` | `MCMessageQueues.cfg` |
| `MessageQueuesProofs` | theorems about `MessageQueues` | |
| `InotifyDtree` | `inotify_dtree.c`, with nftw(), inotify and the processes that change the trees | `MCInotifyDtree` with `MCInotifyDtree.cfg` |
| `InotifyDtreeProofs` | theorems about `InotifyDtree` | |
| `Syscalls` | the notation of scripts: one operator for each system call, and if, while, for | used by the seven modules below |
| `PipePrograms` | hw5/5-1 `pipe_ls.c`, hw6, quiz5, textbook `pipes` | |
| `ProcessPrograms` | textbook `procexec` | |
| `SignalPrograms` | quiz1, quiz2, hw7/7-2, textbook `signals`, `timers`, `pgsjc`, `daemons` | |
| `ThreadPrograms` | quiz4, textbook `threads`, `psem` | |
| `IpcPrograms` | textbook `svmsg`, `svsem`, `svshm`, `pmsg`, `pshm` | |
| `SocketPrograms` | hw8/44-7, hw11/practice, `note/socket`, textbook `sockets`, `altio` | |
| `FilePrograms` | hw1, hw2, hw4, hw5/5-1, hw5/5-3, hw9/49-1, hw12, the builtins of both shells, textbook `fileio`, `filelock`, `pty` | |
| `Kernel` | the kernel that runs the scripts; the properties of all programs | `MCPrograms` with `MCPrograms.cfg`, `MCDeviations.cfg` |

Conventions. Every module has one action per call or step of the program that another process can
observe; the program counter of a process (`pc`, `spc`, `cpc`, `ppc`) is named after the call it is
about to make. Variables keep the names of the source where there is one (`scnt`, `seqNum`,
`index`, `num_of_data`, `tryit`). Variables marked *history* in the declarations exist
only for the properties. Definitions preceded by a comment "Mistake:" are altered forms of the
definition below them; they are not used by any specification and document which mistake in the
code the properties would reveal. The definition-to-line map is in `PROJECT.json`.

How the state corresponds to the code, where it is not a plain variable:

* `SigSpeed`: `pending[p]` is the one bit the kernel keeps for a standard signal, so a second
  `kill()` is merged; `blocked[p]` is the mask; `sigsuspend` unblocks and waits in one step,
  `sigwaitinfo` accepts a blocked signal.
* `FifoSeqnum`: the open ends of a FIFO are derived from where processes are; an `open()` is split
  in two where it blocks (`openServer`, `openingServer`). A killed process closes its ends; data
  in a FIFO that nobody has open is dropped.
* `SharedStack`: a caller takes the mutex, tests, waits or updates, signals and unlocks (`pc`);
  `pthread_cond_wait` releases the mutex and waits in one step, and wakes for a signal or, at most
  `MaxSpurious` times, for none.
* `SvshmXfer`: the semaphores are 0 or 1 and absent before `semget`; the reader's `semget` fails
  when there is no set, after which the user may start it again. `read()`, `write()` and the calls that make
  the objects may fail: `errExit()` and `fatal()` then end the process where it is (`died`). One that dies
  with the turn releases no semaphore and there is no SEM_UNDO, so the other waits for ever.
* `Broadcast`: a text consists of `Parts`, and `strcpy()` in the parent and `printf()` in a handler move one
  part at a time, in any order and with no lock between them: what a handler prints (`text`) may be
  torn between messages. A handler's `shared_count[0] += count` is a load and a store; SIGTERM may interrupt
  the handler of SIGUSR1, as `signal()` blocks only the signal being handled.
* `Shell`: `procs` holds one record per pipeline stage: its vector, what its standard input
  and output refer to, and the pipe ends it holds besides. `fork` copies the record, which is how a
  forgotten `close` travels to a later stage.
* `Dictionary`: a stream is a sequence of records; a short `recv()` leaves a remainder that the
  next one reads in the wrong place. `conn`, `cd` and `kpc` say in whose descriptor tables a
  connection is.
* `MessageQueues`: `queues` lists every queue that ever existed, `name` the one a new `msgget` or
  `mq_open` finds. IPC_RMID marks the queue as gone; `mq_unlink` only resets `name`. What a server adds
  up and prints is left out: one addition per message, with `atoi()` of any text.
* `InotifyDtree`: `at` gives each directory its place, so a path is resolved anew at every use, as
  the kernel does. A change happens at once; what fsnotify tells of it (`notes`) follows in
  steps of their own; what one change or call tells at once is queued together (`QueuedAll`), up to
  the limit, at which IN_Q_OVERFLOW takes the place of the rest. A removed directory goes, with its watch, only when nobody has it open (`Release`). `walk`
  is the stack of nftw(): lstat, opendir, the callback with `inotify_add_watch`, readdir and the
  visit of each entry are separate steps.

### Programs as scripts

A program is a record: a script for each task (`code`) and each signal handler (`hand`), the initial
variables and objects, and the possible inputs. A script is a sequence of instructions, one for each
system call or access to memory that another task can observe, in the order of the source;
`If`, `While`, `Loop` and `Each` are the control statements, and an instruction that fails goes on at
its alternative: the next line for a call whose result is ignored (`Try`), an error exit
otherwise. A task named `user`, or after what it does, is whoever types, connects or sends
signals. Data is abstracted: a message or a line is one value, a conversion is a table over the inputs
(`Apply`, `Map`), and formatted output is the words that tell one outcome from another. What
is undefined in C (an uninitialized buffer, a data race) is a choice over the possible values (`Choose`,
or separate load and store).

`Kernel` has one action for each kind of call and follows the manual pages: descriptors are references to
objects with a reading or writing end, a write to a pipe without readers raises SIGPIPE, standard
signals merge and real-time ones queue, a handler runs with its signal blocked, a blocked call is
restarted or fails with EINTR, children are reparented, stopped orphaned groups are hung up, threads
share memory, descriptors and dispositions and have masks of their own. It is marked external
in the map, as the kernel is not part of the repository.

The constants of `Kernel` are tables that the program modules give.

* `Promised` maps each program and input to the set of outputs that the comments, the usage messages and the
  names in the source let a reader expect. A program whose purpose is to show a race (`thread_incr`,
  `atomic_append` with lseek(), `bad_exclusive_open`) promises all the outcomes it is there to show.
* `Deviating` are the programs that break their promise or in which a process is killed by mistake. `OutputPromised`, `NobodyKilled`
  and the second half of `EveryoneConcludes` except them, and the run `deviations` shows them.
* `Killing` gives the signals of which a process of a program may die, and there are two reasons only. The signal is sent to
  kill: SIGTERM by the user of `child_status`, SIGKILL by `make_zombie`, SIGINT by the command of
  `system()` in `simple_system` and `t_system`, the alarm that ends `catch_SIGHUP`, `disc_SIGHUP`,
  `orphaned_pgrp_SIGHUP` and `thread_lock_speed`, the hangup in `disc_SIGHUP`, abort() in `dumpcore`, and SIGPIPE for the command whose terminal `unbuffer` has
  closed. Or the user sends it before the program can have installed its handler: SIGINT and SIGQUIT in
  `intquit`, SIGINT in `nonreentrant`, `sigsetjmp`, `setjmp`, `t_nanosleep` and `t_clock_nanosleep`
  (`SignalTooEarly`). Each entry is needed: without it TLC finds the death.
* `Endless` are the programs that run until they are killed; `Reaping` those whose parents wait for all children;
  `Restoring` gives the dispositions that `system()` has to put back: the default ones in `t_system`, and SIGINT ignored in
  `t_system_bg`, a `t_system` started in the background.
* `Faulty` are those in which, at most `MaxFaults` times, a call fails, a wait is woken for
  nothing or a process is killed. A program is in `Faulty` when nobody in it waits for the act of a
  particular peer: the others hang by design when that peer is killed.

The programs in `Deviating`, with the line where the code goes another way than the text quoted; the programs of the first
twelve rows are findings in `PROJECT.json`, the last three contradict no comment.

| program | source | says | does |
|---|---|---|---|
| `error_detect` | `quiz2/error_detect.c:14`, `:76` | P2 has signal handlers and waits for signals | P1 sends its first signal (line 89) when P2 may not have installed them; P2 dies |
| `quiz1_modify` | `quiz1/modify.c:113` | "You need to handle SIGUSR2 in parent." | it is not handled: the parent dies of it |
| `coprocess_cut` | `quiz5/quiz5.c:60` | "null terminate" | the reply is cut to the length of the request |
| `user_process` | `hw4/4-1/userProcess.c:83` | "Remove trailing newline character" | there is none; the last letter of the name goes |
| `shell3_echo`, `shell5_echo` | `hw3/3-1/builtin.c:20`, `hw5/5-2/builtin.c:25` | "Does not print final <CR> if "-n" encountered." | -n selects a word by number, and without a word the shell dies of SIGSEGV |
| `shell5_odd` | `hw5/5-2/run_command.c:23`, `redirect_in.c:44` | "the "&" is removed from the argv array", "Remove the "<" and the filename" | the `&` stays; everything behind a `<` goes, an output redirection too |
| `get_tree_wide` | `hw4/4-2/getTree.c:146` | print the process tree | only one node of each layer is followed down |
| `tail1_newline`, `tail2_newline` | `hw2/1/tail.c:14` | "number of tail lines we want to fetch" | the newline of the last line counts as a line, a blank line is not a first line |
| `lookup1_again` | `hw5/5-3/lookup1.c:24` | "read from top of file, looking for match" | a search without a match has closed the file (line 41) |
| `inspect_fd` | `hw4/4-3/getAllProcess.c:35` | the descriptors of all processes | the first process that has ended ends the search (line 31) |
| `quiz4_stale` | `quiz4/quiz4.c:64` | "Initialize semaphores" | semaphores that a killed run left keep their value |
| `practice` | `hw11/practice/client.c:38` | "receive data from server" | when the server has gone the client shows its own message, or dies of SIGPIPE |
| `popen_w` | `hw6/6-2/popen.c:46` | | with mode "w" both processes close the end they use next: custom_popen() always fails |
| `lookup1_missing` | `hw5/5-3/lookup1.c:21` | | without the file the process is killed |
| `cp_mmap` | `hw9/49-1/cp.c:55` | | SIGBUS when the file shrinks while it is copied |

Of `system.c` two paths are left out because the callers modelled never take them: `system(NULL)` (lines 27-28) and the retry of
waitpid() after EINTR (lines 61-66), as nobody catches a signal there.

## What the runs check

| run | expected | shows |
|---|---|---|
| `turns` | pass | Two independent pairs of processes that take turns, interleaved (`MCTurns`). By signals, for up to 4 rounds and both programs: `NoSignalLost` (each signal sent is accepted once or pending), `LockStep` (the parent is never behind and at most one round ahead), `KillReachesLivePeer`, `ExchangeCompletes`. By semaphores, for up to 4 blocks and a reader started at any moment: `OutputIsInput`, `ExclusiveAccess`, `RemovedAfterReader`, and `TransferCompletes` (unless an error exit took the turn with it). |
| `fifo_seqnum` | pass | `ImplementsAllocator` (refinement of `SeqAllocator`), `DisjointSequences`, `NeverSeesEof`, `RequestsHandled`, with one killed server and one killed client. |
| `fifo_seqnum_race` | violation of `ClientCompletes` | The client's comment says its FIFO is created first "to avoid a race"; with the nonblocking open of this server it also has to be opened first. |
| `stack` | pass | `ImplementsStack` (refinement of `BoundedStack`), `OneSidedWakeup` (a wakeup is missed only where pushers and poppers wait at once), `CallsSettle`, and for `process.c` `ReturnsOrHangs`. |
| `broadcast` | pass | `LossRateNotNegative`, `OnlySentMessages` (each part of a text that is printed was sent through that cell, though perhaps not all in one message), `FinalCountStable`, `ParentFinishes`. Losing messages is what this program measures; the properties say what the loss may not do. |
| `shell` | pass | `StagesWired`, `EofReachesReader`, `SigpipeReachesWriter`. |
| `shell_wait` | violation of `WaitForForeground` | "Wait for child to terminate": `wait()` of the hw3 shell also returns for an older background command. |
| `dictionary` | pass | `AnswersTrue`, `AnswersInStep`, `LookupReturns`, `ChildrenEnd`, with one fault. |
| `message_queues` | pass | `SentNotLost`, `ClientsReleased`, `EndStopsServer` (an "end" stops a server of its queue, whatever is queued before it), with one killed server. |
| `programs` | pass | The 217 programs of the tables, each with its inputs: `OutputPromised`, `NobodyKilled` (nobody dies of a signal that is not listed in `Killing`), both without the programs in `Deviating`; `ChildrenReaped`, `SignalsRestored` (system(3) on all its paths, started with SIGINT ignored or not), `EveryoneConcludes` (every program ends, also after a fault; a server has answered all that was asked). |
| `deviations` | violation of `PromisesKept` | The 17 programs in `Deviating`, with nothing excepted and no faults. TLC stops at the shortest trace, in which P2 of `error_detect` is killed before it has installed its handlers. To see another one, let `MCDeviating` be the set of that program alone: each of the 17 violates the property. |
| `inotify_dtree` | pass | `WatchesCached`, `StaleEntriesFound`, `InSyncUnlessMoved`, `EventsProcessed`, with a queue that overflows and a keyboard command. |

Properties that carry a condition say where the code stops being right. `AnswersTrue` and
`AnswersInStep` assume a connection without a short `recv()` and an open peer: after either, the
clients print a stale or shifted record. `LookupReturns` excepts UDP with a lost datagram, which
nobody resends. `TransferCompletes` excepts a writer or a reader that has died of an error: there is nobody to pass
the turn on. `OnlySentMessages` does not say that a printed text is one message: `strcpy()` and `printf()` run beside each other,
and a torn text is possible. `StagesWired` is silent about the arguments of a line with `&`, `<` or `>`, where the code and
its comments disagree; `shell5_odd` is about these. `EndStopsServer` names one server of the queue, since on a System V queue
removed by it the receive of the others fails again and again, without an exit. `SentNotLost` is stated
for one POSIX server, as `mq_unlink` of a second one may hit a newer queue. `NoMissedWakeup`,
which the comment at `stack.c:75` states, is false as soon as pushers and poppers can wait at once. With three callers of a stack of size 1 that
make two calls each, TLC finds the state in which the one condition variable has handed the signal of a `pop()` to another
popper, and a pusher sleeps on a stack with room. `OneSidedWakeup` says that this is the only way, and is
proved for any number of callers; `process.c` has one child at a time and never meets it (`DriverWakeups`). `InSyncUnlessMoved` is stated for a
cache since whose building directories were only created. After a removal or rename during a walk the cache
may miss directories for good, with a single process at work: a directory that is
removed between the lstat() and the opendir() of nftw() ends the walk, so its siblings are never
watched; and when `a` is renamed to `b` and a new `a` is created before the walk reaches it, the entry
of the new `a` is rewritten to `b`. The comment at `inotify_dtree.c:228` expects
this only of multiple renamers. `EventsProcessed` excepts a SIGALRM that comes between ualarm() and read() (line
1119): read() then blocks until the next event. `OutputPromised` and `NobodyKilled` are stated without faults.

Observations from modelling, besides the deviations above. The broadcast's handlers count cells, not messages, so a batch
printed twice is counted twice; `is_background()` falls off its end when there is no `&` (`is_background.c:30`), and
what it returns then, 0 in the build of the repository and in the model, is up to the compiler; `inotify_dtree.c:1131` tests
errno where it means the result, so that a timeout shortens the buffer by one byte, which does no harm as
the one event left is already looked at. The monitor's command `0` gives the new inotify
descriptor the number of the old one, whose FD_ISSET may still be set (line 1419): read() then waits.

### Bounds

* `MaxNumSigs = 4`: the loops have a period of one round, and the relation of the two counters is
  already exercised by two rounds; the theorems remove the bound.
* Two clients of the FIFO server with lengths 1 and 2: two requests in the FIFO, two grants, and
  off-by-one advances are visible. One kill of each side: a second one repeats the first.
* Stack of size 2 with 4 callers: full, empty and in between, and every mix of waiters; the theorems
  remove the bound.
* `MaxBlocks = 4`: both semaphores go round more than twice, with an empty input as one case.
* `M = 3, N = 2, B = 2`, texts of two parts: a full batch, a short batch, two children, a torn text.
* Lines of up to five tokens over words and pipes (three stages) and of up to three over all tokens:
  the middle stage has a pipe on both sides, and every position of `|`, `<`, `>` and `&` occurs.
* Two dictionary clients, two questions each, a known and an unknown word, one fault: enough for an
  answer to be mistaken for the next one and for another client's.
* Two servers and three clients of a queue of one message: a full queue, a blocked sender, a queue
  removed under a user, and a second queue under the same name.
* `QueueSize = 2`, inputs of up to three lines, two or three children, threads or clients, loops of two
  rounds: a writer fills the pipe and blocks, signals merge, two tasks contend for each lock. One fault: a
  second one meets processes that are already on their way out.
* Two trees `r` and `s`, one directory in `r` from the start, one name, two changes, one command: a
  rename from one tree to the other, out of both, of a root, of a directory just created; a
  queue of two events overflows at the second change; reads of three events split a rename.

Deadlock is checked for `turns`, `broadcast`, `programs` and `inotify_dtree`, whose final
states stutter explicitly: a program that hangs is an error (in `turns`, where one pair may go on while the other hangs, the two liveness properties find it). The other systems may stop: servers wait for clients that do not come, and programs end.

### Fairness

Weak fairness of the steps of each process stands for the kernel's scheduler: a process that can go on
continuously is eventually run. It is never assumed of anything the code does not control: of
users (a client or reader is started, a word is typed, a command ends by itself), of faults (kills,
short reads, lost or duplicated datagrams, spurious wakeups), or of a server being restarted. `SharedStack` needs
strong fairness of taking the mutex: a waiting caller competes with the others, and the mutex is
free infinitely often but not continuously. In `Kernel`
every task is scheduled and every timer expires; the users are tasks that do what their scripts say, as an
input is given, and faults are not fair. In `InotifyDtree` the monitor, its timeout and the
kernel's notifications are fair, changes and commands are not. `usleep()` in the broadcast guarantees nothing and is not modelled.

## What is proved

Eight modules hold theorems. Each is proved for every value of the constants from an inductive
invariant: it holds initially, every action keeps it (one step per action), and it
implies the property. TLC has checked each of these invariants on the instance of the component's run, and
that of `Dictionary` with two faults too, before it was proved. The specifications that the theorems are about
include the faults: kills, restarts, spurious wakeups, overflowing queues, lost and duplicated datagrams.

* `SigSpeedProofs` (assumes `MaxNumSigs >= 1`). `TypeCorrect`, `SignalsNotLost`, `LoopsInLockStep`,
  `KillsReachLivePeer`. `NoSignalLost` is not inductive: that the target's pending bit is clear at a
  `kill()` depends on where both loops are. `IndInv` adds, for each process, how many signals
  it has sent and accepted as a function of its counter and its place in the loop body; with the
  pending bits being 0 or 1 this pins the two counters together.
* `FifoSeqnumProofs` (assumes that the requested lengths are positive). `SequencesDisjoint`,
  `EofNeverSeen`, and `ServiceRefinement`: server and clients implement `SeqAllocator`. Disjointness
  needs that every interval granted so far ends at or below `seqNum` (`GrantsBelow`). The refinement
  needs that a client has at most one request in the FIFO, in the server or granted, across deaths and restarts of the
  server (`RequestsOnce`), and that what a client reads was granted to it (`AnswersGranted`).
* `SharedStackProofs` (assumes `STACK_SIZE >= 1` and that "none" is no caller). `TypeCorrect`, and
  `StackRefinement`: `SharedStack` implements `BoundedStack` with the contents
  `buffer[0..index - 1]`. `IndInv` adds that the holder of the mutex is the one caller between lock and unlock,
  and that the condition a caller tested still holds when it stores or takes its element.
  `WakeupsArrive`: `OneSidedWakeup` for any number of callers; `WakeInv` says who is still going to signal
  or to test while a caller waits for what is there. `DriverRefinement` and `DriverWakeups` carry both over
  to `process.c`, for which the wakeups are never missed, since it has one child at a time (`OneChild`).
* `SvshmShellProofs` (assumes `MaxBlocks \in Nat`, and that a line is a sequence of words, `|`, `<`, `>` and `&`). `TypeCorrect`, `AccessExclusive`,
  `OutputCorrect`, `RemovalSafe`. `IndInv` says whose turn it is by the two semaphores
  (`OneTurn`, `Alternate`), what is in the segment relative to the output (`Data`, `Eof`), and
  how the two transfer counts differ (`Xfrs`). A process that has died keeps the turn it had (`WriterDead`).
  `PipelineWired`: `StagesWired` for lines of any length and pipelines of any number of stages; of the arguments it says something for lines of words and pipes. `ShellInv` says that
  only the last stage is still being set up, and that where a stage is determines the pipe ends it
  holds besides its standard input and output (`HeldAt`): a stage that runs holds none. The
  arguments of the last stage are what the line has behind its pipes (`IsRest`), and `fork()` cuts one segment off
  that (`SplitRest`, by the position of the first pipe).
* `BroadcastProofs` (assumes `M, N, B >= 1` and that a text has a part). `SentMessagesOnly`, `CountBounded`,
  `StatisticsFinal`. The first holds for torn texts: cell `j` is only ever given every `B`-th message, and `shared_count[1]` never
  covers a cell that no batch has filled (`OriginInv`, `LoopInv`). For `received <= M * N` every child gets an account (`CountInv`): the cells it was
  told of, less what a pending signal or a running handler may still count. No account is
  negative, and the shared counter, and every copy of it that a handler has loaded, is at most the sum of the accounts,
  as a cardinality; the lost updates of the racing handlers only make it smaller.
* `DictionaryProofs` (assumes that known words are words, that the texts of failures are none, and that "none" is no
  client). `TrueAnswers` and `InStepAnswers` for any number of clients, words and faults. On a whole connection a client's
  question or its answer is in one place at most, in flight, in the server or in the client
  (`TurnInv`, `TokenInv`); what is there is true of the dictionary once it has passed the server (`TruthInv`), and each
  datagram carries a word its receiver has asked (`WordInv`).
* `MessageQueuesProofs` (assumes nothing of the constants). `SentMessagesKept`. An accepted message is received or in its queue
  (`KeptInv`); for the claim that the next server finds it there, a queue that has lost its name has had its
  "end" received (`EndedInv`), which rests on who may remove which queue (`ExistsInv`, `RemoveInv`, `NameInv`).
* `InotifyDtreeProofs` (assumes at least one root, finitely many directories and roots, that the roots are neither
  directories nor names below a root, that no two directories start in the same place, and that the queue and a read hold at least one event). `EveryWatchCached` and `StaleSlotsFound`, for
  trees, queues and changes of any number. `IndInv` adds that watch descriptors are not used
  again (`WdInv`), that a directory has one watch at most (`UniqueInv`), and that an IN_DELETE_SELF is only told of a watch that is gone
  (`GoneInv`), so that the slot which it frees is not in use. How paths resolve plays no part in these two.
  `CacheInSync`: `InSyncUnlessMoved`. `SyncInv` says that while directories have only been created since the cache was built
  (`Fresh`), nftw() is where its frames say and every slot's watch is on the directory its path
  leads to (`FramesOK`, `SlotsOK`), and that a directory without a watch that is a root, or lies in a watched
  directory, is about to be found by somebody (`RootsCovered`,
  `ChildrenCovered`): nftw() has its path or has still to list its parent, or its creation is told, by
  fsnotify, in the queue or in the buffer, or an overflow is, which rebuilds the cache. When nothing of this is left, a
  path is watched because the one before it is (`AllWatched`), and its slot has that path since a
  directory has only one (`OnePath`); a new directory leaves the old paths as they are (`ResGrows`). These take induction over the length of a path, from
  the least element of a set of numbers (`Induction`).

The attempts to prove changed four things. The claim that no wakeup is missed turned out to
be false with enough callers, and became `OneSidedWakeup`. And the
alternatives of `Received` in `Dictionary` overlapped for datagrams; they are now disjoint.
In `Shell` the stages of a line are told apart by the positions of its pipes (`IsSegment`), in place of a search. And `InSync` says
of every cached path, and not only of the set of them, that its watch is on the directory it leads to.

Only model-checked:

* all liveness properties, which need fairness;
* everything about `Kernel` and `Syscalls`, which use RECURSIVE operators (`OutputPromised`,
  `NobodyKilled`, `ChildrenReaped`, `SignalsRestored`).

## Plan

Done, in this order: the core protocols with shared state (`SigSpeed`, `FifoSeqnum`,
`SharedStack`, `SvshmXfer`), their abstract specifications and the first theorems; then
`Broadcast`, `Shell`, `Dictionary`, `MessageQueues`; then the kernel with the programs of
the course and of the textbook, and `InotifyDtree`.

After that the proofs about `FifoSeqnum`, `Broadcast`, `Dictionary`, `MessageQueues` and
`InotifyDtree`, and about missed wakeups of `SharedStack`; then the pipelines of `Shell` and the cache of `InotifyDtree`.

To come: abstract specifications for more components, with the refinement proved from the invariants there
are: `SvshmXfer` as a channel of capacity one, `MessageQueues` as a bounded queue whose messages are consumed once.
