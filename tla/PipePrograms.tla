---------------------------- MODULE PipePrograms ----------------------------
(***************************************************************************)
(* Programs whose processes talk through pipes: tlpi-book/pipes, and of    *)
(* the course homework/hw5/5-1/pipe_ls.c, homework/hw6 and quiz/quiz5.     *)
(* What one write has written is read by one read.                         *)
(***************************************************************************)
EXTENDS Syscalls

\* Commands that the programs run: one writes n lines, one counts lines.
Lister(n) == << Exec >> \o Each(n, LAMBDA j : << Write("stdout", C("line")) >>) \o << Exit(0) >>
Counter ==
    << Exec, Set(V("n"), C(0)) >> \o While(Read("stdin", V("buf")), << Add(V("n"), 1) >>)
    \o << PutNum(V("n")), Exit(0) >>

SimplePipe ==
    [main |-> << Pipe("pfd0", "pfd1", "p"), Fork("c1"), Close("pfd0"),
                 Write("pfd1", C("text")), Close("pfd1"), Try(Wait), Exit(0) >>,
     c1   |-> << Close("pfd1") >>
              \o While(Read("pfd0", V("buf")), << Write("stdout", V("buf")) >>)
              \o << Write("stdout", C("newline")), Close("pfd0"), Exit(0) >>]

\* The parent must see the end of file, not data.
PipeSync ==
    LET child(j) == << Close("pfd0"), Nop, Puts(C(<<"1", "2">>[j])), Close("pfd1"), Exit(0) >>
    IN  [main |-> << Puts(C("started")), Pipe("pfd0", "pfd1", "p"), Fork("c1"), Fork("c2"),
                     Close("pfd1") >>
                  \o If(Read("pfd0", V("dummy")), << Exit(1) >>, << >>)
                  \o << Puts(C("ready")), Exit(0) >>,
         c1   |-> child(1),
         c2   |-> child(2)]

PipeLsWc ==
    [main |-> << Pipe("pfd0", "pfd1", "p"), Fork("c1"), Fork("c2"), Close("pfd0"),
                 Close("pfd1"), Wait, Wait, Exit(0) >>,
     c1   |-> << Close("pfd0"), Dup2("pfd1", "stdout"), Close("pfd1") >> \o Lister(3),
     c2   |-> << Close("pfd1"), Dup2("pfd0", "stdin"), Close("pfd0") >> \o Counter]

ToupperTable == [a |-> "A", b |-> "B"]

ChangeCase ==
    [main |-> << Pipe("out0", "out1", "p"), Pipe("in0", "in1", "q"), Fork("c1"),
                 Close("out0"), Close("in1") >>
              \o While(Read("stdin", V("buf")),
                       << Write("out1", V("buf")) >>
                       \o If(Read("in0", V("buf")), << Write("stdout", V("buf")) >>, << >>))
              \o << Exit(0) >>,
     c1   |-> << Close("out1"), Close("in0") >>
              \o While(Read("out0", V("buf")),
                       << Apply(V("buf"), ToupperTable), Write("in1", V("buf")) >>)
              \o << Exit(0) >>]

\* popen(command, "r") of the C library, and pclose().
LibPopen(child) == << Pipe("fp", "fpw", "p"), Fork(child), Close("fpw") >>
LibPopenChild == << Close("fp"), Dup2("fpw", "stdout"), Close("fpw") >>
LibPclose(child) == << Close("fp"), Waitpid({child}, V("status"), {}) >>

PopenGlob ==
    [main |-> Loop(Unless(Read("stdin", V("pat")), << Break >>)
                   \o If(Eq(V("pat"), C("empty")), << Continue >>, << >>)
                   \o If(Eq(V("pat"), C("bad")),
                         << Puts(C("Bad pattern character")), Continue >>, << >>)
                   \o LibPopen("c1") \o << Set(V("fileCnt"), C(0)) >>
                   \o While(Read("fp", V("pathname")), << Add(V("fileCnt"), 1) >>)
                   \o LibPclose("c1") \o << PutNum(V("fileCnt")), PutStatus(V("status")) >>)
              \o << Exit(0) >>,
     c1   |-> LibPopenChild \o Lister(2)]

-----------------------------------------------------------------------------
(* The course's programs.  A call whose result nobody looks at is tried.   *)

\* The end of the input leaves buf as it is; write() of i - 1 bytes writes
\* nothing of an empty line.
ToUpper ==
    [main |-> << Try(Read("stdin", V("buf"))), Pipe("in0", "in1", "p"),
                 Pipe("out0", "out1", "q"), Fork("c1"), Close("in0"), Close("out1"),
                 Write("in1", V("buf")), Close("in1"), Try(Read("out0", V("buf"))),
                 Close("out0"), Puts(V("buf")), Exit(0) >>,
     c1   |-> << Close("in1"), Close("out0"), Try(Read("in0", V("buf"))), Close("in0"),
                 Apply(V("buf"), ToupperTable) >>
              \o If(Eq(V("buf"), C("newline")), << >>, << Try(Write("out1", V("buf"))) >>)
              \o << Close("out1"), Exit(0) >>]

\* custom_popen and custom_pclose with mode "r", and main.
CustomPopen ==
    [main |-> << Pipe("pd0", "pd1", "p"), Fork("c1"), Close("pd1") >>
              \o While(Read("pd0", V("line")), << Puts(V("line")) >>)
              \o << Close("pd0"), Wait, Exit(0) >>,
     c1   |-> << Close("pd0"), Try(Dup2("pd1", "stdout")), Try(Close("pd1")) >> \o Lister(2)]

\* Mode "w": both sides close the end that they use next, fdopen fails and
\* custom_popen returns NULL; the command reads the parent's input.
CustomPopenW ==
    [main |-> << Pipe("pd0", "pd1", "p"), Fork("c1"), Close("pd1") >>
              \o If(Write("pd1", C("line")), << Exit(0) >>, << Puts(C("fdopen error")), Exit(1) >>),
     c1   |-> << Close("pd0"), Try(Dup2("pd0", "stdin")), Try(Close("pd0")) >> \o Counter]

PipeLs ==
    [main |-> << Pipe("pd0", "pd1", "p"), Fork("c1"), Try(Close("pd1")) >>
              \o While(Read("pd0", V("buffer")), << Write("stdout", V("buffer")) >>)
              \o << Try(Close("pd0")), Waitpid({"c1"}, V("status"), {}), Exit(0) >>,
     c1   |-> << Try(Close("pd0")), Try(Dup2("pd1", "stdout")), Try(Close("pd1")) >> \o Lister(2)]

SigPipe == << Puts(C("SIGPIPE caught")), Exit(1) >>

Add2Table == [a |-> "total", b |-> "invalid args", c |-> "invalid args"]
Add2 ==
    << Exec >> \o While(Read("stdin", V("line")),
                        << Apply(V("line"), Add2Table), Try(Write("stdout", V("line"))) >>)
    \o << Exit(0) >>

\* The reply is cut to the length n of the request: "b" is a request that is
\* shorter than the reply to it.  When the child has closed the pipe the
\* parent prints its own line again.
CutTable == "invalid args" :> "in"
Coprocess ==
    [main |-> << Handle("PIPE", "sig_pipe"), Pipe("fd10", "fd11", "p"), Pipe("fd20", "fd21", "q"),
                 Fork("c1"), Try(Close("fd10")), Try(Close("fd21")) >>
              \o While(Read("stdin", V("line")),
                       << Set(V("n"), V("line")), Try(Write("fd11", V("line"))), Try(Read("fd20", V("line"))) >>
                       \o If(Eq(V("n"), C("b")), << Apply(V("line"), CutTable) >>, << >>)
                       \o << Puts(V("line")) >>)
              \o << Exit(0) >>,
     c1   |-> << Try(Close("fd11")), Try(Close("fd20")), Dup2("fd10", "stdin"),
                 Dup2("fd21", "stdout") >> \o Add2]

\* fwrite is written out by fclose in the parent and by exit in the child.
Handshake ==
    [main |-> << Handle("PIPE", "sig_pipe"), Pipe("fd10", "fd11", "p"), Pipe("fd20", "fd21", "q"),
                 Fork("c1"), Try(Close("fd10")), Try(Close("fd21")),
                 Try(Read("stdin", V("message"))), Try(Write("fd11", V("message"))),
                 Try(Close("fd11")), Try(Wait), Read("fd20", V("message")),
                 Puts(V("message")), Exit(0) >>,
     c1   |-> << Try(Close("fd11")), Try(Close("fd20")), Read("fd10", V("message")),
                 Apply(V("message"), [c |-> "p"]), Try(Write("fd21", V("message"))), Exit(0) >>]

-----------------------------------------------------------------------------

Buffers == [buf |-> "unset", line |-> "unset", message |-> "unset"]
Plain(code) == Program(code, None, Buffers, None, NoInput)

PipeTable ==
    [simple_pipe |-> Plain(SimplePipe), pipe_sync |-> Plain(PipeSync),
     pipe_ls_wc |-> Plain(PipeLsWc),
     change_case |-> Program(ChangeCase, None, Buffers, None, Lines({"a", "b"})),
     popen_glob |-> Program(PopenGlob, None, Buffers, None, Lines({"empty", "bad", "glob"})),
     toUpper |-> Program(ToUpper, None, Buffers, None, Lines({"a", "newline"})),
     popen_r |-> Plain(CustomPopen),
     popen_w |-> Program(CustomPopenW, None, Buffers, None, {<<"x", "y">>}),
     pipe_ls |-> Plain(PipeLs),
     coprocess |-> Program(Coprocess, [sig_pipe |-> SigPipe], Buffers, None, Lines({"a", "c"})),
     coprocess_cut |-> Program(Coprocess, [sig_pipe |-> SigPipe], Buffers, None, {<<"b">>, <<"a", "b">>}),
     handshake |-> Program(Handshake, [sig_pipe |-> SigPipe], Buffers, None, Lines({"c", "other"}))]

\* What each of them should have written when all its processes have ended.
Replies2(i) == [k \in DOMAIN i |-> Add2Table[i[k]]]
GlobOutput(pat) ==
    CASE pat = "empty" -> << >>
      [] pat = "bad" -> << "Bad pattern character" >>
      [] OTHER -> << "2", "exited 0" >>

PipePromise ==
    [simple_pipe |-> Always({<<"text", "newline">>}),
     pipe_sync |-> Always({<<"started", "1", "2", "ready">>, <<"started", "2", "1", "ready">>}),
     pipe_ls_wc |-> Always({<<"3">>}),
     change_case |-> [i \in Lines({"a", "b"}) |-> {[k \in DOMAIN i |-> ToupperTable[i[k]]]}],
     popen_glob |-> [i \in Lines({"empty", "bad", "glob"}) |->
                       {FlattenSeq([k \in DOMAIN i |-> GlobOutput(i[k])])}],
     toUpper |-> [i \in Lines({"a", "newline"}) |->
                    {<<CASE i = << >> -> "unset" [] i[1] = "a" -> "A" [] OTHER -> "newline">>}],
     popen_r |-> Always({<<"line", "line">>}),
     popen_w |-> [i \in {<<"x", "y">>} |-> {<<"1">>}],
     pipe_ls |-> Always({<<"line", "line">>}),
     coprocess |-> [i \in Lines({"a", "c"}) |-> {Replies2(i)}],
     coprocess_cut |-> [i \in {<<"b">>, <<"a", "b">>} |-> {Replies2(i)}],
     handshake |-> [i \in Lines({"c", "other"}) |->
                      {<<CASE i = << >> -> "unset" [] i[1] = "c" -> "p" [] OTHER -> "other">>}]]

\* quiz5.c:60 "null terminate" cuts the reply of add2 off; popen.c:33 and 56
\* take the mode "w", with which custom_popen() always fails.
PipeDeviating == {"coprocess_cut", "popen_w"}

=============================================================================
