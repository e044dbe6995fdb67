--------------------------- MODULE ThreadPrograms ---------------------------
(***************************************************************************)
(* Programs about threads and POSIX semaphores: tlpi-book's threads and    *)
(* psem, and of the course quiz/quiz4.  The threads of a process share its *)
(* memory: what is local to a thread is a variable named for the thread.   *)
(***************************************************************************)
EXTENDS Syscalls, FiniteSets, TLC

NULL == C("NULL")
Joins(ts) == Each(Len(ts), LAMBDA j : << Join(ts[j], V("res")) >>)
Threads(ts) == Each(Len(ts), LAMBDA j : << Thread(ts[j]) >>)
Pair == <<"c1", "c2">>

-----------------------------------------------------------------------------
(* tlpi-book/threads: a counter that two threads increment. *)

Increment(loc) == << Set(V(loc), V("glob")), Add(V(loc), 1), Set(V("glob"), V(loc)) >>
\* Mistake: the new value is stored after the lock has been given up.
LockedIncrementLate(loops, loc) ==
    Each(loops, LAMBDA j : << Lock("mtx"), Set(V(loc), V("glob")), Unlock("mtx"), Add(V(loc), 1),
                              Set(V("glob"), V(loc)) >>) \o << ThreadExit(NULL) >>

UnlockedIncrement(loops, loc) == Each(loops, LAMBDA j : Increment(loc)) \o << ThreadExit(NULL) >>
LockedIncrement(loops, loc) ==
    Each(loops, LAMBDA j : << Lock("mtx") >> \o Increment(loc) \o << Unlock("mtx") >>)
    \o << ThreadExit(NULL) >>
WriteLockedIncrement(loops, loc) ==
    Each(loops, LAMBDA j : << Lock("rwlock") >> \o Increment(loc) \o << Unlock("rwlock") >>)
    \o << ThreadExit(NULL) >>
\* A spin lock is tried until it is free.
SpinLockedIncrement(loops, loc) ==
    Each(loops, LAMBDA j : Until(TryLock("splock")) \o Increment(loc) \o << Unlock("splock") >>)
    \o << ThreadExit(NULL) >>
SemIncrement(loops, loc) ==
    Each(loops, LAMBDA j : << SemOp("sem", -1) >> \o Increment(loc) \o << SemOp("sem", 1) >>)
    \o << ThreadExit(NULL) >>

ThreadIncr(f1, f2) ==
    [main |-> Threads(Pair) \o Joins(Pair) \o << PutNum(V("glob")), Exit(0) >>, c1 |-> f1, c2 |-> f2]
ThreadIncrMutex(loops) == ThreadIncr(LockedIncrement(loops, "loc1"), LockedIncrement(loops, "loc2"))
ThreadIncrRwlock(loops) ==
    ThreadIncr(WriteLockedIncrement(loops, "loc1"), WriteLockedIncrement(loops, "loc2"))
ThreadIncrSpinlock(loops) ==
    ThreadIncr(SpinLockedIncrement(loops, "loc1"), SpinLockedIncrement(loops, "loc2"))
ThreadIncrPsem(loops) ==
    ThreadIncr(SemIncrement(loops, "loc1"), SemIncrement(loops, "loc2"))

\* The alarm ends a run that takes too long.
LockSpeedThread(useMutex, inner, loc) ==
    (IF useMutex THEN << Lock("mtx") >> ELSE Until(TryLock("splock")))
    \o Each(inner, LAMBDA j : Increment(loc))
    \o << Unlock(IF useMutex THEN "mtx" ELSE "splock"), ThreadExit(NULL) >>
ThreadLockSpeed(useMutex) ==
    [main |-> << Alarm("once") >> \o Threads(Pair) \o Joins(Pair) \o << PutNum(V("glob")), Exit(0) >>,
     c1   |-> LockSpeedThread(useMutex, 2, "loc1"), c2 |-> LockSpeedThread(useMutex, 2, "loc2")]

-----------------------------------------------------------------------------
(* Producers and a consumer, and who waits for several threads. *)

Producer(cnt) ==
    Each(cnt, LAMBDA j : << Nop, Lock("mtx"), Add(V("avail"), 1), Unlock("mtx"), CondSignal("cond") >>)
    \o << ThreadExit(NULL) >>
Consume(totRequired) ==
    While(Lt(C(0), V("avail")), << Add(V("numConsumed"), 1), Add(V("avail"), -1), PutNum(V("numConsumed")) >>)
    \o << Unlock("mtx") >> \o If(Lt(V("numConsumed"), C(totRequired)), << >>, << Exit(0) >>)
ProdCondvar ==
    [main |-> Threads(Pair)
              \o Loop(<< Lock("mtx") >> \o While(Eq(V("avail"), C(0)), << CondWait("cond", "mtx") >>)
                      \o Consume(2)),
     c1   |-> Producer(1), c2 |-> Producer(1)]
ProducerSilent(cnt) ==
    Each(cnt, LAMBDA j : << Nop, Lock("mtx"), Add(V("avail"), 1), Unlock("mtx") >>) \o << ThreadExit(NULL) >>
ProdNoCondvar ==
    [main |-> Threads(Pair) \o Loop(<< Lock("mtx") >> \o Consume(2)),
     c1   |-> ProducerSilent(1), c2 |-> ProducerSilent(1)]

MultijoinThread(state) ==
    << Nop, Lock("threadMutex"), Add(V("numUnjoined"), 1), Set(V(state), C("TERMINATED")),
       Unlock("threadMutex"), CondSignal("threadDied"), ThreadExit(NULL) >>
Reap(t, state) ==
    If(Eq(V(state), C("TERMINATED")),
       << Join(t, V("res")), Set(V(state), C("JOINED")), Add(V("numLive"), -1),
          Add(V("numUnjoined"), -1), Puts(C(t)), PutNum(V("numLive")) >>, << >>)
ThreadMultijoin ==
    [main |-> Threads(Pair) \o << Set(V("numLive"), C(2)) >>
              \o While(Lt(C(0), V("numLive")),
                       << Lock("threadMutex") >>
                       \o While(Eq(V("numUnjoined"), C(0)), << CondWait("threadDied", "threadMutex") >>)
                       \o Reap("c1", "state1") \o Reap("c2", "state2") \o << Unlock("threadMutex") >>)
              \o << Exit(0) >>,
     c1   |-> MultijoinThread("state1"), c2 |-> MultijoinThread("state2")]

\* Passes the barrier twice; the message of the serial thread differs.
BarrierThread(n) ==
    Each(2, LAMBDA j : << Nop, Puts(C(n \o " waits")), Barrier("barrier", 2, V("serial" \o n)) >>
                       \o If(Eq(V("serial" \o n), C(TRUE)), << Puts(C("serial")) >>, << Puts(C("passed")) >>))
    \o << ThreadExit(NULL) >>
BarrierDemo ==
    [main |-> Threads(Pair) \o Joins(Pair) \o << Exit(0) >>, c1 |-> BarrierThread("1"), c2 |-> BarrierThread("2")]

-----------------------------------------------------------------------------
(* Cancellation, cleanup, results, and buffers that belong to a thread. *)

MaxLoops == 2   \* bounds what is printed before the cancellation
CancelledThread ==
    << Puts(C("started")) >>
    \o Loop(If(Lt(V("j"), C(MaxLoops)), << Add(V("j"), 1), PutNum(V("j")) >>, << >>) \o << Nop >>)
ThreadCancel ==
    [main |-> << Thread("c1"), Nop, Cancel("c1"), Join("c1", V("res")), Puts(V("res")), Exit(0) >>,
     c1   |-> CancelledThread]

CleanupHandler == << Puts(C("freeing")), Unlock("mtx"), Ret >>
CleanupThread ==
    << Puts(C("allocated")), Lock("mtx"), CleanupPush("cleanupHandler") >>
    \o While(Eq(V("glob"), C(0)), << CondWait("cond", "mtx") >>)
    \o << Puts(C("completed")), CleanupPop(TRUE), ThreadExit(C("normally")) >>
\* glob is set without the mutex: the signal is lost if the thread has
\* tested glob and does not wait yet.
ThreadCleanup(cancel) ==
    [main |-> << Thread("c1"), Nop >>
              \o (IF cancel THEN << Cancel("c1") >> ELSE << Set(V("glob"), C(1)), CondSignal("cond") >>)
              \o << Join("c1", V("res")), Puts(V("res")), Exit(0) >>,
     c1   |-> CleanupThread]

SimpleThreadFunc == << Puts(C("Hello world")), ThreadExit(C("12")) >>
SimpleThread ==
    [main |-> << Thread("c1"), Puts(C("main")), Join("c1", V("res")), Puts(V("res")), Exit(0) >>,
     c1   |-> SimpleThreadFunc]
\* A detached thread cannot be joined: EINVAL.
DetachedFunc == << ThreadExit(C("1")) >>
DetachedAttrib == [main |-> << Thread("c1"), Exit(1) >>, c1 |-> DetachedFunc]

\* The static buffer is shared, the other two are one for each thread.
Strerror(t, err) == << Set(V("buf"), C(err)) >>
StrerrorTls(t, err) == << Set(V("buf_" \o t), C(err)) >>
CreateKey == << Set(V("strerrorKey"), C("key")) >>
StrerrorTsd(t, err) ==
    << Lock("once") >> \o If(Eq(V("strerrorKey"), C("")), CreateKey, << >>) \o << Unlock("once") >>
    \o If(Eq(V("specific_" \o t), C("")), << Set(V("specific_" \o t), C("malloc")) >>, << >>)
    \o << Set(V("buf_" \o t), C(err)) >>
StrerrorFunc(strerror, str) ==
    << Puts(C("other")) >> \o strerror \o << Puts(V(str)), ThreadExit(NULL) >>
\* strerror1 and strerror2 are what the library's strerror does in each of the two threads.
StrerrorTest(strerror1, strerror2, strMain, str1) ==
    [main |-> strerror1 \o << Puts(C("main")), Thread("c1"), Join("c1", V("res")),
                              Puts(V(strMain)), Exit(0) >>,
     c1   |-> StrerrorFunc(strerror2, str1)]

InitFunc == << Puts(C("init_func")) >>
OneTimeInit ==
    << Lock("once") >> \o If(Eq(V("called"), C(0)), InitFunc \o << Set(V("called"), C(1)) >>, << >>)
    \o << Unlock("once") >>
OnceThread == OneTimeInit \o OneTimeInit \o << ThreadExit(NULL) >>
OneTimeInitMain ==
    [main |-> Threads(Pair) \o << Join("c1", V("res")), Puts(C("First")), Join("c2", V("res")),
                                  Puts(C("Second")), Exit(0) >>,
     c1   |-> OnceThread, c2 |-> OnceThread]

-----------------------------------------------------------------------------
(* tlpi-book/psem: the commands for named semaphores. *)

PsemCreate(excl, value) == << CreateWith("sem", excl, value), Exit(0) >>
PsemGetvalue == << Exists("sem"), PutNum(S("sem")), Exit(0) >>
PsemPost == << Exists("sem"), SemOp("sem", 1), Exit(0) >>
\* When the time is over, the semaphore is taken at once or not at all.
PsemTimedwait == << Exists("sem"), SemTry("sem", -1), Puts(C("timedwait succeeded")), Exit(0) >>
PsemTrywait == << Exists("sem"), SemTry("sem", -1), Exit(0) >>
PsemUnlink == << Unlink("sem"), Exit(0) >>
PsemWait == << Exists("sem"), SemOp("sem", -1), Puts(C("wait succeeded")), Exit(0) >>

\* A session: create; two commands at a time; the value and unlink.
PsemSession(a, b) ==
    [main |-> << Fork("c1"), Wait, Fork("c2"), Fork("c3"), Wait, Wait >>
              \o SubSeq(PsemGetvalue, 1, 2) \o PsemUnlink,
     c1   |-> PsemCreate(TRUE, 0), c2 |-> a, c3 |-> b]

\* quiz/quiz4: sem_open keeps the value of a semaphore that a killed run
\* has left behind, and then the writer does not wait for the reader.
Quiz4Reader ==
    If(Read("stdin", V("buf")), << Set(V("cnt"), C(1)) >>, << Set(V("cnt"), C(0)) >>)
    \o << SemOp("sem_write", 1), ThreadExit(NULL) >>
Quiz4Writer ==
    << SemOp("sem_write", -1) >> \o If(Eq(V("cnt"), C(0)), << >>, << Puts(V("buf")) >>)
    \o << ThreadExit(NULL) >>
Quiz4 ==
    [main |-> << CreateWith("sem_read", FALSE, 0), CreateWith("sem_write", FALSE, 0) >> \o Threads(Pair)
              \o Joins(Pair) \o << Unlink("sem_write"), Unlink("sem_read"), Exit(0) >>,
     c1   |-> Quiz4Reader, c2 |-> Quiz4Writer]

-----------------------------------------------------------------------------

OnThreads(code, vals) == Program(code, None, vals, None, NoInput)
SharedGlob == [glob |-> 0, loc1 |-> 0, loc2 |-> 0]
Line == {<< >>, <<"x">>}

ThreadTable ==
    [thread_incr |-> OnThreads(ThreadIncr(UnlockedIncrement(2, "loc1"), UnlockedIncrement(2, "loc2")), SharedGlob),
     thread_incr_mutex |-> OnThreads(ThreadIncrMutex(2), SharedGlob),
     thread_incr_rwlock |-> OnThreads(ThreadIncrRwlock(2), SharedGlob),
     thread_incr_spinlock |-> OnThreads(ThreadIncrSpinlock(1), SharedGlob),
     thread_incr_psem |-> Program(ThreadIncrPsem(2), None, SharedGlob, [sem |-> 1], NoInput),
     thread_lock_speed |-> OnThreads(ThreadLockSpeed(TRUE), SharedGlob),
     thread_lock_speed_s |-> OnThreads(ThreadLockSpeed(FALSE), SharedGlob),
     prod_condvar |-> OnThreads(ProdCondvar, [avail |-> 0, numConsumed |-> 0]),
     prod_no_condvar |-> OnThreads(ProdNoCondvar, [avail |-> 0, numConsumed |-> 0]),
     thread_multijoin |-> OnThreads(ThreadMultijoin, [numLive |-> 0, numUnjoined |-> 0,
                                                      state1 |-> "ALIVE", state2 |-> "ALIVE"]),
     barrier_demo |-> OnThreads(BarrierDemo, None),
     thread_cancel |-> OnThreads(ThreadCancel, [j |-> 0]),
     thread_cleanup |-> Program(ThreadCleanup(TRUE), [cleanupHandler |-> CleanupHandler], [glob |-> 0],
                                None, NoInput),
     thread_cleanup_signal |-> Program(ThreadCleanup(FALSE), [cleanupHandler |-> CleanupHandler],
                                       [glob |-> 0], None, NoInput),
     simple_thread |-> OnThreads(SimpleThread, None),
     detached_attrib |-> OnThreads(DetachedAttrib, None),
     strerror_test |-> OnThreads(StrerrorTest(Strerror("main", "EINVAL"), Strerror("c1", "EPERM"),
                                       "buf", "buf"), [buf |-> ""]),
     strerror_test_tls |-> OnThreads(StrerrorTest(StrerrorTls("main", "EINVAL"), StrerrorTls("c1", "EPERM"),
                                       "buf_main", "buf_c1"), None),
     strerror_test_tsd |-> OnThreads(StrerrorTest(StrerrorTsd("main", "EINVAL"), StrerrorTsd("c1", "EPERM"),
                                       "buf_main", "buf_c1"),
                                     [strerrorKey |-> "", specific_main |-> "", specific_c1 |-> ""]),
     one_time_init |-> OnThreads(OneTimeInitMain, [called |-> 0]),
     psem_wait |-> OnThreads(PsemSession(PsemWait, PsemPost), None),
     psem_trywait |-> OnThreads(PsemSession(PsemTrywait, PsemPost), None),
     psem_timedwait |-> OnThreads(PsemSession(PsemTimedwait, PsemPost), None),
     quiz4 |-> Program(Quiz4, None, [cnt |-> 0], None, Line),
     quiz4_stale |-> Program(Quiz4, None, [cnt |-> 0], [sem_write |-> 1], Line)]

\* A mutex is not fair: a consumer that polls may keep the producers out.
ThreadEndless == {"thread_cleanup_signal", "prod_no_condvar"}
\* An alarm is to end a process that runs for too long.
ThreadKilling == [thread_lock_speed |-> {"ALRM"}, thread_lock_speed_s |-> {"ALRM"}]
\* quiz4.c:64 "Initialize semaphores": sem_open does not, if they exist.
ThreadDeviating == {"quiz4_stale"}

\* Both wait before either passes, at each of the two rounds, and one of
\* them is the serial thread.
BarrierRounds ==
    LET of(n, a, b) == <<n \o " waits", a, n \o " waits", b>>
        other(a) == IF a = "serial" THEN "passed" ELSE "serial"
        count(s, k, set) == Cardinality({j \in 1 .. k : s[j] \in set})
        waits == {"1 waits", "2 waits"}
    IN  {m \in UNION {Merges(of("1", a, b), of("2", other(a), other(b))) : a, b \in {"passed", "serial"}} :
           \A k \in DOMAIN m : LET passed == count(m, k, {"passed", "serial"})
                              IN  count(m, k, waits) >= IF passed > 2 THEN 4 ELSE IF passed > 0 THEN 2 ELSE 0}

ThreadPromise ==
    [thread_incr |-> Always({<<"2">>, <<"3">>, <<"4">>}),
     thread_incr_mutex |-> Always({<<"4">>}), thread_incr_rwlock |-> Always({<<"4">>}),
     thread_incr_spinlock |-> Always({<<"2">>}), thread_incr_psem |-> Always({<<"4">>}),
     thread_lock_speed |-> Always(Perhaps(<<"4">>)), thread_lock_speed_s |-> Always(Perhaps(<<"4">>)),
     prod_condvar |-> Always({<<"1", "2">>}), prod_no_condvar |-> Always({<< >>, <<"1">>, <<"1", "2">>}),
     thread_multijoin |-> Always({<<"c1", "1", "c2", "0">>, <<"c2", "1", "c1", "0">>}),
     barrier_demo |-> Always(BarrierRounds),
     thread_cancel |-> Always({<<"canceled">>} \cup {<<"started">> \o s \o <<"canceled">> :
                                                      s \in {<<"1">>, <<"1", "2">>}}),
     thread_cleanup |-> Always({<<"allocated", "freeing", "canceled">>}),
     thread_cleanup_signal |-> Always({<<"allocated", "completed", "freeing", "normally">>, <<"allocated">>}),
     simple_thread |-> Always({<<"main", "Hello world", "12">>, <<"Hello world", "main", "12">>}),
     detached_attrib |-> Always({<< >>}),
     strerror_test |-> Always({<<"main", "other", "EPERM", "EPERM">>}),
     strerror_test_tls |-> Always({<<"main", "other", "EPERM", "EINVAL">>}),
     strerror_test_tsd |-> Always({<<"main", "other", "EPERM", "EINVAL">>}),
     one_time_init |-> Always({<<"init_func", "First", "Second">>, <<"First", "init_func", "Second">>}),
     psem_wait |-> Always({<<"wait succeeded", "0">>}),
     psem_trywait |-> Always({<<"0">>, <<"1">>}),
     psem_timedwait |-> Always({<<"timedwait succeeded", "0">>, <<"1">>}),
     quiz4 |-> [i \in Line |-> {i}],
     quiz4_stale |-> [i \in Line |-> {i}]]

=============================================================================
