SPECIFICATION Spec
CONSTANTS
    Programs <- MCTable
    Promised <- MCPromise
    QueueSize = 2
    MaxFaults = 1
    Faulty = {"simple_pipe", "pipe_sync", "pipe_ls_wc", "change_case", "coprocess", "handshake",
              "pipe_ls", "popen_r", "popen_w", "popen_glob", "toUpper", "simple_system", "t_system", "t_system_bg",
              "t_fork", "t_vfork", "demo_clone", "make_zombie", "orphan", "multi_wait",
              "fork_whos_on_first", "script", "unbuffer", "poll_pipes", "epoll_threads",
              "svmsg_demo_server", "pmsg", "pshm", "svshm", "svsem_bad_init", "create_pid_file",
              "shell3", "shell5", "tee", "quiz4", "psem_timedwait", "rdwrn",
              "prod_condvar", "thread_multijoin"}
    Endless <- MCEndless
    Deviating <- MCDeviating
    Killing <- MCKilling
    Reaping <- MCReaping
    Restoring <- ProcessRestoring
INVARIANTS ChildrenReaped OutputPromised NobodyKilled SignalsRestored
PROPERTY EveryoneConcludes
