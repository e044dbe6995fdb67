---------------------------- MODULE FilePrograms ----------------------------
(***************************************************************************)
(* Programs about files, directories, terminals and /proc: the small       *)
(* commands and process listings of the homework, the builtin commands of  *)
(* the shells, the dictionary in a file, the monitor of a directory, the   *)
(* helpers that report errors and read numbers; tlpi-book's fileio,        *)
(* filelock and pty.                                                       *)
(***************************************************************************)
EXTENDS Syscalls, FiniteSets, TLC

-----------------------------------------------------------------------------
(* Copies.  What can still be read of an open file is the contents of the  *)
(* object; a file that is written is the sequence of its blocks.           *)

CopyBlocks(file) == While(Read("in", V("buf")), << Push(S(file), V("buf")) >>)
Cat(file) == << PutNum(S(file)), Exit(0) >>

\* The file must exist; it is opened with O_APPEND.
Tee == << Exists("file1") >>
       \o While(Read("stdin", V("buf")), << Puts(V("buf")), Push(S("file1"), V("buf")) >>)
       \o << Puts(C("Success !")), Exit(0) >>
Cp == << Open("in", "source", {"r"}), Set(S("target"), C(<< >>)) >> \o CopyBlocks("target")
      \o << Close("in"), Exit(0) >>
FileioCopy == << Open("in", "source", {"r"}), Create("target", FALSE), Set(S("target"), C(<< >>)) >>
              \o CopyBlocks("target") \o << Close("in"), Exit(0) >>
Mycat == << Open("in", "source", {"r"}) >> \o While(Read("in", V("buf")), << Puts(V("buf")) >>)
MycatMain(argc) == IF argc # 2 THEN << Exit(1) >> ELSE Mycat \o << Exit(0) >>

\* The copy through two mappings, of st_size pages: an empty file cannot be
\* mapped, and a page that is cut off meanwhile gives SIGBUS.
PageOf(k) == "page" \o ToString(k)
CopyOf(k) == "copy" \o ToString(k)
CpMmap(size) ==
    << Exists("source") >>
    \o (IF size = 0 THEN << Puts(C("mmap")), Exit(1) >> ELSE << >>)
    \o Each(size, LAMBDA k : << CreateWith(CopyOf(k), FALSE, "0") >>)
    \o Each(size, LAMBDA k : If(Exists(PageOf(k)), << Set(S(CopyOf(k)), S(PageOf(k))) >>, << Kill(C("main"), "BUS") >>))
    \o << Puts(S("copy1")), Puts(S("copy2")), Exit(0) >>

\* The length of the name of the directory stands for the name; the buffer
\* is doubled until the name and its end fit.
PrintDir(cwd) ==
    << Set(V("size"), C(1)) >>
    \o Loop(If(Lt(cwd, V("size")), << PutNum(cwd), Break >>, << AddOf(V("size"), V("size")) >>))

-----------------------------------------------------------------------------
(* hw2: tail.  The file is a sequence of letters and newlines, of which    *)
(* the first 1024 bytes are read.                                          *)

NL == "n"
\* Where the loop from the end stops: the letter after the newline before
\* which numLines - 1 newlines have been seen.
Newlines(b, i) == Cardinality({j \in i + 1 .. Len(b) : b[j] = NL})
TailStops(b, n) == {i \in 2 .. Len(b) : b[i] # NL /\ b[i - 1] = NL /\ Newlines(b, i) = n - 1}
TailCur(b, n) == LET s == TailStops(b, n) IN IF s = {} THEN 1 ELSE CHOOSE i \in s : \A j \in s : i >= j
TailFiles == UNION {[1 .. n -> {"x", NL}] : n \in 1 .. 4}
Tail2(n) ==
    << Open("in", "stdin", {"r"}), Try(Read("in", V("buf"))),
       Apply(V("buf"), [b \in TailFiles |-> SubSeq(b, TailCur(b, n), Len(b))]), PutNum(V("buf")), Close("in"), Exit(0) >>

\* What tail prints: the lines of a file without blank lines, whose last
\* line is not ended by a newline.
Starts(b) == {i \in DOMAIN b : i = 1 \/ b[i - 1] = NL}
NoNewline(b) == b[Len(b)] # NL /\ \A i \in Starts(b) : b[i] # NL
TailInputs == {<<f>> : f \in {f \in TailFiles : NoNewline(f)}} \cup NoInput
TailEnded == {<<f>> : f \in {f \in TailFiles : ~ NoNewline(f)}}
LastLines(b, n) ==
    {SubSeq(b, i, Len(b)) : i \in {i \in Starts(b) : LET after == Cardinality({j \in Starts(b) : j > i})
                                                    IN  after = n - 1 \/ (i = 1 /\ after < n)}}

-----------------------------------------------------------------------------
(* hw5/5-3: the dictionary is made from a text, and looked up.             *)

\* The word is also added to the text; a record is written at a blank line.
Convert ==
    << Open("in", "stdin", {"r"}), Set(V("is_word"), C(1)), Set(V("text"), C(<< >>)) >>
    \o While(Read("in", V("line")),
             If(Eq(V("is_word"), C(1)),
                << Set(V("word"), V("line")), Set(V("is_word"), C(0)), Push(V("text"), V("line")) >>,
                If(Eq(V("line"), C("")),
                   << Puts(V("word")), PutNum(V("text")), Set(V("word"), C("")), Set(V("text"), C(<< >>)),
                      Set(V("is_word"), C(1)) >>,
                   << Push(V("text"), V("line")) >>)))
    \o << Exit(0) >>

\* The file is opened by the first call and closed when a word is not in it:
\* what a later call does with it is undefined.
FileWords == [a |-> "A", b |-> "B", z |-> "Not Found!"]
Lookup1 ==
    If(Eq(V("first_time"), C(1)),
       << Set(V("first_time"), C(0)) >> \o If(Exists("resource"), << Set(V("in"), C("open")) >>, << Set(V("in"), C("NULL")) >>),
       << >>)
    \o Unless(Eq(V("in"), C("open")),
              Unless(Eq(V("in"), C("closed")), << Kill(C("main"), "SEGV") >>)
              \o << Choose(V("undefined"), {"killed", "end of file"}) >>
              \o Unless(Eq(V("undefined"), C("end of file")), << Kill(C("main"), "SEGV") >>)
              \o << Set(V("text"), C("Not Found!")), Jump(2) >>)
    \o << Map(V("text"), V("word"), FileWords) >>
    \o Unless(Eq(V("text"), C("A")), Unless(Eq(V("text"), C("B")), << Set(V("in"), C("closed")) >>))
LookupMain == Loop(<< Try(Read("stdin", V("word"))) >> \o Lookup1 \o << Puts(V("text")) >>)

-----------------------------------------------------------------------------
(* The shells: builtin commands.  A line is the sequence of its words.     *)

Text0(words) == <<"text", words>>
Segv == <<"segv", << >> >>
Undefined == <<"undefined", << >> >>
Digits == [d \in {"0", "1", "2", "9"} |-> CASE d = "0" -> 0 [] d = "1" -> 1 [] d = "2" -> 2 [] OTHER -> 9]
\* echo -n k: the k-th of the words that follow; the vector ends with NULL,
\* and what is behind it is undefined.
NthWord(argv) ==
    LET k == Digits[argv[3]] + 3
    IN  IF k <= Len(argv) THEN Text0(<<argv[k]>>) ELSE IF k = Len(argv) + 1 THEN Text0(<<"(null)">>) ELSE Undefined
\* hw5/5-2 does not test whether there is a word at all; both compare
\* *argv[2] though there may be none.
EchoWords(argv, first) ==
    IF Len(argv) > 1 /\ argv[2] = "-n"
    THEN IF Len(argv) = 2 THEN Segv ELSE IF argv[3] \in DOMAIN Digits THEN NthWord(argv)
         ELSE Text0(SubSeq(argv, first, Len(argv)))
    ELSE Text0(SubSeq(argv, first, Len(argv)))
BiEcho3(argv) == IF Len(argv) = 1 THEN Text0(argv) ELSE EchoWords(argv, 1)
BiEcho(argv) == IF Len(argv) = 1 THEN Segv ELSE EchoWords(argv, 2)

Inbuilts3 == [quit |-> "bi_exit", exit |-> "bi_exit", logout |-> "bi_exit", bye |-> "bi_exit", echo |-> "bi_echo"]
Inbuilts == [builtin |-> "bi_builtin", echo |-> "bi_echo", quit |-> "bi_quit", exit |-> "bi_quit", bye |-> "bi_quit",
             logout |-> "bi_quit", cd |-> "bi_cd", pwd |-> "bi_pwd", id |-> "bi_id", hostname |-> "bi_hostname"]
\* The entry of the table that is_builtin leaves for do_builtin.
IsBuiltin(table, cmd) == IF cmd \in DOMAIN table THEN table[cmd] ELSE "run_command"

DoEcho ==
    If(Is(V("echo"), {"undefined"}), << Choose(V("echo"), {Text0(<<"?">>), Segv}) >>, << >>)
    \o If(Is(V("echo"), {"segv"}), << Kill(C("main"), "SEGV") >>, << PutNum(V("echo")) >>)
Dispatch(lines, table) == << Map(V("this"), V("line"), [l \in lines |-> IsBuiltin(table, l[1])]) >>
\* parse() prints the words; a line without words is NULL.
Parse3(then) == If(Eq(V("line"), C(<< >>)), << >>, << PutNum(V("line")) >> \o then)

Lines3 == {<<"ls">>, <<"echo">>, <<"echo", "a">>, <<"echo", "-n">>, <<"echo", "-n", "1", "a">>, <<"echo", "-n", "2", "a">>,
           <<"echo", "-n", "9", "a">>, <<"bye">>}
IsEcho(l) == l # << >> /\ l[1] = "echo"
Shell3 ==
    << Puts(C("myshell ->")) >>
    \o While(Read("stdin", V("line")),
         Parse3(Dispatch(Lines3, Inbuilts3)
                \o If(Eq(V("this"), C("bi_exit")), << Exit(0) >>, << >>)
                \o If(Eq(V("this"), C("bi_echo")),
                      << Map(V("echo"), V("line"), [l \in Lines3 |-> BiEcho3(l)]) >> \o DoEcho,
                      << Puts(C("run_command")) >>))
         \o << Puts(C("myshell ->")) >>)
    \o << Exit(0) >>

BiBuiltin(argv) ==
    IF Len(argv) = 1 THEN "Usage" ELSE IF argv[2] \in DOMAIN Inbuilts THEN "is a builtin" ELSE "is not a builtin"
Lines5 == {<<"ls">>, <<"echo">>, <<"echo", "a">>, <<"echo", "-n", "1", "a">>, <<"echo", "-n", "9", "a">>, <<"cd">>,
           <<"cd", "/dir">>, <<"cd", "/none">>, <<"pwd">>, <<"id">>, <<"hostname">>, <<"builtin">>, <<"builtin", "cd">>,
           <<"builtin", "ls">>, <<"quit">>}
\* The directories that exist, by the length of their names.
Dirs == [x \in {"/", "/dir"} |-> IF x = "/" THEN 1 ELSE 4]
BiCd ==
    << Map(V("dir"), V("line"), [l \in Lines5 |-> IF Len(l) = 2 /\ l[2] \in DOMAIN Dirs THEN "found" ELSE "none"]) >>
    \o If(Eq(V("dir"), C("found")), << Set(V("cwd"), C(Dirs["/dir"])) >>, << Puts(C("cd")) >>)
BiPwd == PrintDir(V("cwd"))
BiId == << Puts(C("User ID")) >>
BiHostname == << Puts(C("hostname")) >>
BiQuit == << Exit(0) >>
When(name, script) == If(Eq(V("this"), C(name)), script, << >>)
Shell5 ==
    << Puts(C("myshell ->")), Set(V("cwd"), C(1)) >>
    \o While(Read("stdin", V("line")),
         Unless(Eq(V("line"), C(<< >>)),
                Dispatch(Lines5, Inbuilts)
                \o When("bi_builtin", << Map(V("reply"), V("line"), [l \in Lines5 |-> BiBuiltin(l)]),
                                         Puts(V("reply")) >>)
                \o When("bi_echo", << Map(V("echo"), V("line"), [l \in Lines5 |-> BiEcho(l)]) >> \o DoEcho)
                \o When("bi_cd", BiCd) \o When("bi_pwd", BiPwd) \o When("bi_id", BiId)
                \o When("bi_hostname", BiHostname) \o When("bi_quit", BiQuit)
                \o When("run_command", << Puts(C("run_command")) >>))
         \o << Puts(C("myshell ->")) >>)
    \o << Exit(0) >>

(* hw5/5-2: a command without pipes.  It writes its arguments, to the      *)
(* terminal or to a file.                                                  *)

CommandLines == {<<"w">>, <<"w", "x">>, <<"w", "x", "<", "in">>, <<"w", ">", "out">>, <<"w", ">", "out", "<", "in">>}
OddLines == {<<"w", "&">>, <<"w", "<", "in", "x">>, <<"w", "<", "in", ">", "out">>}
IsBackground5(l) == Contains(l, "&")
\* The vector as a redirection leaves it: NULL takes the place of the symbol.
CutAt(l, s) == SubSeq(l, 1, Len(l) - Cardinality({i \in DOMAIN l : \E j \in 1 .. i : l[j] = s}))
\* redirect_out finds only what redirect_in has left.
Redirected(l) == [argv |-> CutAt(CutAt(l, "<"), ">"), out |-> IF Contains(CutAt(l, "<"), ">") THEN "file" ELSE "tty"]
RunCommand5(lines) ==
    [main |-> << Try(Read("stdin", V("line"))),
                 Map(V("run_in_background"), V("line"), [l \in lines |-> IsBackground5(l)]), Fork("c1") >>
              \o If(Eq(V("run_in_background"), C(FALSE)), << Waitpid({"c1"}, V("stat"), {}) >>, << >>)
              \o << Exit(0) >>,
     c1   |-> << Map(V("out"), V("line"), [l \in lines |-> Redirected(l).out]),
                 Apply(V("line"), [l \in lines |-> Redirected(l).argv]) >>
              \o If(Eq(V("out"), C("tty")), << PutNum(V("line")) >>, << >>) \o << Exit(0) >>]

-----------------------------------------------------------------------------
(* hw12: the monitor of a directory.  The kernel queues an event when a    *)
(* name is made in a directory that is watched at that time.               *)

AddWatch(dir) == << Lock("inode"), Create("watch " \o dir, FALSE), Unlock("inode") >>
MakeIn(dir, name) ==
    << Lock("inode"), Create(name, FALSE) >>
    \o If(Exists("watch " \o dir), << Write("events", C(name)) >>, << >>) \o << Unlock("inode") >>
ProcessFile(dir) == If(Exists(dir), AddWatch(dir), << >>)
DisplayEvent == << Read("inotify", V("event")), Puts(V("event")) >>
MonitorMain ==
    << Open("inotify", "queue", {"r", "w"}) >> \o ProcessFile("root") \o ProcessFile("sub")
    \o << Puts(C("Monitoring")) >> \o Loop(DisplayEvent)

-----------------------------------------------------------------------------
(* hw4: listings of /proc.  A process may end after readdir gave its name. *)

\* Processes 1 .. n; what their status says.
Status(p) == "status" \o ToString(p)
\* A number or a name; the empty name and an unknown one give -1.
UserIdFromName(name) ==
    CASE name = "" -> -1 [] name = "1000" -> 1000 [] name = "alice" -> 1000 [] name = "root" -> 0 [] OTHER -> -1
\* sscanf has left the newline of the name behind: cutting off the last
\* character cuts off a letter.
CutName == [sh |-> "s"]
UserProcess(name, n) ==
    Each(n, LAMBDA p : If(Exists(Status(p)),
                          If(Eq(S(Status(p)), C(UserIdFromName(name))), << PutNum(C(p)), Puts(C(CutName["sh"])) >>, << >>),
                          << >>))
    \o << Exit(0) >>
\* A process whose descriptors cannot be listed ends the listing.
InspectFD(n) == Each(n, LAMBDA p : If(Exists(Status(p)), If(Eq(S(Status(p)), C(1000)), << PutNum(C(p)) >>, << >>), << Exit(0) >>))
GetAllProcess(argc, n) == IF argc # 2 THEN << Exit(1) >> ELSE InspectFD(n) \o << Exit(0) >>

\* The tree: a node is <<pid, ppid>>, in the order of /proc; sortNode adds a
\* node 0 in front.  The children of a process are linked in that order.
Node0 == <<0, -1>>
Kids(nodes, p) == SelectSeq(<<Node0>> \o nodes, LAMBDA e : e[2] = p)
Positions(s, e) == {i \in DOMAIN s : s[i] = e}
Sibling(nodes, e) ==
    LET s == Kids(nodes, e[2])
        i == CHOOSE i \in Positions(s, e) : TRUE
    IN  IF e[2] = -1 \/ i = Len(s) THEN << >> ELSE <<s[i + 1]>>
Child(nodes, e) == LET s == Kids(nodes, e[1]) IN IF s = << >> THEN << >> ELSE <<s[1]>>
Parent0(nodes, e) == LET all == <<Node0>> \o nodes IN all[CHOOSE i \in DOMAIN all : all[i][1] = e[2]]
\* The inner loop of printProcessTree from node e (or none): the siblings,
\* then the children of the next sibling of the parent.
RECURSIVE PrintSiblings(_, _)
PrintSiblings(nodes, at) ==
    IF at = << >> THEN << >>
    ELSE LET e == at[1]
             next == Sibling(nodes, e)
             uncle == Sibling(nodes, Parent0(nodes, e))
         IN  <<e[1]>> \o (IF next # << >> THEN PrintSiblings(nodes, next)
                          ELSE IF uncle # << >> THEN PrintSiblings(nodes, Child(nodes, uncle[1])) ELSE << >>)
\* The outer loop goes down the first children.
RECURSIVE PrintLayers(_, _)
PrintLayers(nodes, at) ==
    IF at = << >> THEN << >>
    ELSE <<at[1][1]>> \o PrintSiblings(nodes, Sibling(nodes, at[1])) \o PrintLayers(nodes, Child(nodes, at[1]))
PrintProcessTree(nodes) == PrintLayers(nodes, <<nodes[1]>>)
\* Process 1 is always there; each other may end before it is read.
BuildProcessTree(procs) ==
    << Set(V("nodes"), C(<<procs[1]>>)) >>
    \o Each(Len(procs) - 1, LAMBDA k :
         If(Exists(Status(procs[k + 1][1])), << Push(V("nodes"), C(procs[k + 1])) >>, << >>))
SubLists(s) == {<<s[1]>> \o SelectSeq(Tail(s), LAMBDA e : e \in t) : t \in SUBSET {s[i] : i \in 2 .. Len(s)}}
GetTree(procs) ==
    BuildProcessTree(procs) \o << Map(V("shown"), V("nodes"), [l \in SubLists(procs) |-> PrintProcessTree(l)]), PutNum(V("shown")), Exit(0) >>

-----------------------------------------------------------------------------
(* Reporting errors: error_functions.c.  What printf has not written yet   *)
(* is in the memory of the process, and in that of its children.           *)

Fflush == If(Eq(V("stdio"), C("")), << >>, << Puts(V("stdio")), Set(V("stdio"), C("")) >>)
Terminate(me, useExit3) ==
    If(Eq(S("EF_DUMPCORE"), C(1)), << Kill(C(me), "ABRT") >>, << >>)
    \o (IF useExit3 THEN Fflush ELSE << >>) \o << Exit(1) >>
OutputError(text, flushStdout) == (IF flushStdout THEN Fflush ELSE << >>) \o << Puts(C("ERROR " \o text)) >>
ErrMsg(text) == OutputError(text, TRUE)
ErrExit(me, text) == OutputError(text, TRUE) \o Terminate(me, TRUE)
Err_exit(me, text) == OutputError(text, FALSE) \o Terminate(me, FALSE)
ErrExitEN(me, text) == OutputError(text, TRUE) \o Terminate(me, TRUE)
Fatal(me, text) == OutputError(text, TRUE) \o Terminate(me, TRUE)
UsageErr == Fflush \o << Puts(C("Usage: ")), Exit(1) >>
CmdLineErr == Fflush \o << Puts(C("Command-line usage error: ")), Exit(1) >>
\* A child reports an error while the parent has something to print.
HelperReports(child) ==
    [main |-> << Set(V("stdio"), C("x")), Fork("c1"), Waitpid({"c1"}, V("status"), {}), PutStatus(V("status")) >>
              \o ErrMsg("parent") \o Fflush \o << Exit(0) >>,
     c1   |-> child]

\* Reading numbers: get_num.c.  An int has 8 bits and a long 16.
IntMax == 127
IntMin == -128
LongMax == 32767
\* What strtol finds: the value and whether something follows it.
Digits16 == [text \in {"12", "-1", "0", "010", "0x10", "300", "99999", "12x", "x"} |->
               [dec |-> CASE text = "12" -> <<12, FALSE>> [] text = "-1" -> <<-1, FALSE>> [] text = "0" -> <<0, FALSE>>
                          [] text = "010" -> <<10, FALSE>> [] text = "0x10" -> <<0, TRUE>> [] text = "300" -> <<300, FALSE>>
                          [] text = "99999" -> <<99999, FALSE>> [] text = "12x" -> <<12, TRUE>> [] OTHER -> <<0, TRUE>>,
                any |-> CASE text = "010" -> <<8, FALSE>> [] text = "0x10" -> <<16, FALSE>> [] OTHER -> << >>]]
Strtol(text, base) ==
    LET r == Digits16[text] IN IF base = 0 /\ r.any # << >> THEN r.any ELSE r.dec
GnFail(msg) == <<"fail", msg>>
GetNum(arg, flags) ==
    LET r == Strtol(arg, IF "ANY_BASE" \in flags THEN 0 ELSE 10)
    IN  IF arg = "" THEN GnFail("null or empty string")
        ELSE IF r[1] > LongMax THEN GnFail("strtol() failed")
        ELSE IF r[2] THEN GnFail("nonnumeric characters")
        ELSE IF "NONNEG" \in flags /\ r[1] < 0 THEN GnFail("negative value not allowed")
        ELSE IF "GT_0" \in flags /\ r[1] <= 0 THEN GnFail("value must be > 0")
        ELSE <<"number", ToString(r[1])>>
GetInt(arg, flags) ==
    LET n == GetNum(arg, flags)
    IN  IF n[1] = "number" /\ (Strtol(arg, IF "ANY_BASE" \in flags THEN 0 ELSE 10)[1] > IntMax
                               \/ Strtol(arg, 10)[1] < IntMin)
        THEN GnFail("integer out of range") ELSE n
NumberArgs == {"", "12", "-1", "0", "010", "0x10", "300", "99999", "12x", "x"}
PrintsNumber(flags) ==
    << Read("stdin", V("arg")), Map(V("num"), V("arg"), [a \in NumberArgs |-> GetInt(a, flags)]) >>
    \o If(Is(V("num"), {"fail"}), << PutNum(V("num")), Exit(1) >>, << PutNum(V("num")), Exit(0) >>)

-----------------------------------------------------------------------------
(* tlpi-book/fileio and filelock. *)

\* The size stands for the contents.  Without O_APPEND the end of the file is
\* looked for and then written at: another process may write in between.
AtomicAppend(n, useLseek) ==
    << Create("file", FALSE) >>
    \o Each(n, LAMBDA j : IF useLseek
                          THEN << Set(V("offset"), S("file")), Add(V("offset"), 1), Set(S("file"), V("offset")) >>
                          ELSE << Add(S("file"), 1) >>)
    \o << Puts(C("done")), Exit(0) >>
BadExclusiveOpen(delay) ==
    If(Exists("file"), << Puts(C("already exists")) >>,
       << Puts(C("doesn't exist yet")) >>
       \o (IF delay THEN << Nop, Puts(C("Done sleeping")) >> ELSE << >>)
       \o << Create("file", FALSE), Puts(C("Created exclusively")) >>)
    \o << Exit(0) >>
\* fd1 and fd2 share an offset; the file has two places of six bytes.
WriteAt(offset, text) ==
    If(Eq(V(offset), C(0)), << Set(S("at0"), C(text)), Set(V(offset), C(6)) >>, << Set(S("at6"), C(text)), Set(V(offset), C(12)) >>)
CatBoth == << Puts(S("at0")), Puts(S("at6")) >>
MultiDescriptors ==
    << Set(V("off1"), C(0)), Set(V("off3"), C(0)) >>
    \o WriteAt("off1", "Hello,") \o CatBoth \o WriteAt("off1", " world") \o CatBoth
    \o << Set(V("off1"), C(0)) >> \o WriteAt("off1", "HELLO,") \o CatBoth
    \o WriteAt("off3", "Gidday") \o CatBoth \o << Exit(0) >>

LockRegion(file) == TryFileLock(file)
\* A second instance finds the file locked, and must leave it alone.
CreatePidFile(me) == << Create("pidfile", FALSE), LockRegion("pidfile"), Set(S("pidfile"), C(me)) >>
Daemonlike(me) == CreatePidFile(me) \o << Puts(S("pidfile")), Puts(S("pidfile")), Exit(0) >>
TFlock(me, mode, block) ==
    << Exists("file"), Puts(C(me \o " requesting")) >>
    \o Unless(IF mode = "s" THEN IF block THEN FileReadLock("file") ELSE TryFileReadLock("file")
              ELSE IF block THEN FileLock("file") ELSE TryFileLock("file"),
              << Puts(C(me \o " already locked")), Exit(1) >>)
    \o << Puts(C(me \o " granted")), Nop, Puts(C(me \o " releasing")), Unlock("file"), Exit(0) >>

-----------------------------------------------------------------------------
(* tlpi-book/pty.  A pseudoterminal is a pair of connected ends. *)

PtyMasterOpen == << Socketpair("master", "slave", "pty") >>
\* The BSD search: a name that does not exist ends it, a busy one is skipped.
Ptys == 2   \* bounds the names that are tried
BsdPtyMasterOpen ==
    Each(Ptys, LAMBDA k : If(Exists("pty" \o ToString(k)),
                             If(TryFileLock("pty" \o ToString(k)), << PutNum(C(k)), See("1"), See("2"), Exit(0) >>, << >>),
                             << Exit(1) >>))
    \o << Exit(1) >>
\* The slave is open in the child only.
PtyFork(child) == PtyMasterOpen \o << Fork(child), Close("slave") >>
PtyChild == << Setsid, Close("master"), Dup2("slave", "stdin"), Dup2("slave", "stdout"), Close("slave"), Exec >>
\* Whichever is ready is relayed; the end of either ends the program.
Relay(keep) ==
    Loop(<< Poll({"stdin", "master"}, V("ready")) >>
         \o If(Eq(V("ready"), C("stdin")),
               Unless(Read("stdin", V("buf")), << Exit(0) >>) \o << Write("master", V("buf")) >>,
               Unless(Read("master", V("buf")), << Exit(0) >>) \o << Puts(V("buf")) >> \o keep))
ScriptPty(shell) ==
    [main |-> PtyFork("c1") \o << Create("typescript", FALSE) >> \o Relay(<< Push(S("typescript"), V("buf")) >>),
     c1   |-> PtyChild \o shell]
Unbuffer(command) == [main |-> PtyFork("c1") \o Relay(<< >>), c1 |-> PtyChild \o command]

-----------------------------------------------------------------------------

Command(code, vals, objs) == Program(code, None, vals, objs, NoInput)
Filter(script, inputs) == Program([main |-> script], None, None, None, inputs)
Two(a, b, last) == [main |-> << Fork("c1"), Fork("c2"), Wait, Wait >> \o last, c1 |-> a, c2 |-> b]
Fewer == << Unlink("status2"), Exit(0) >>   \* a process that ends
Procs3 == [status1 |-> 0, status2 |-> 1000, status3 |-> 1000]
Tree4 == << <<1, 0>>, <<2, 1>>, <<3, 1>>, <<4, 2>> >>
Chain3 == << <<1, 0>>, <<2, 1>>, <<3, 2>> >>
Wide6 == << <<1, 0>>, <<2, 1>>, <<3, 1>>, <<4, 2>>, <<5, 3>>, <<6, 5>> >>
Present(procs) == [o \in {Status(procs[k][1]) : k \in DOMAIN procs} |-> 1]
Replies == << Read("stdin", V("line")), Write("stdout", V("line")), Exit(0) >>
TwoWords == << Write("stdout", C("one")), Write("stdout", C("two")), Exit(0) >>
\* A terminal: standard input does not end.
AtTerminal(code) == [code EXCEPT !["main"] = << Open("terminal", "stdin", {"w"}) >> \o @]
Texts == {<<"a", "x", "">>, <<"a", "x", "", "b", "y", "z", "">>, <<"a", "x", "", "b", "y">>, <<"", "a", "">>}
Asked == {<<"a", "z">>, <<"b", "a">>}
AskedAgain == {<<"z", "a">>}
Reporting(child, dump) == Command(HelperReports(child), [stdio |-> ""], [EF_DUMPCORE |-> dump])
Reading(flags) == Filter(PrintsNumber(flags), {<<a>> : a \in NumberArgs})
Typed3 == {<<l>> : l \in {l \in Lines3 : ~ IsEcho(l)} \cup {<< >>}} \cup {<< <<"bye">>, <<"ls">> >>}
TypedEcho3 == {<<l>> : l \in {l \in Lines3 : IsEcho(l)}}
\* echo without words, or with -n.
OddEcho(l) == IsEcho(l) /\ l # <<"echo", "a">>
Typed5 == {<<l, <<"pwd">> >> : l \in {l \in Lines5 : ~ OddEcho(l)} \cup {<< >>}}
TypedEcho5 == {<<l, <<"pwd">> >> : l \in {l \in Lines5 : OddEcho(l)}}

FileTable ==
    [tee |-> Program([main |-> << Fork("c1"), Wait >> \o Cat("file1"), c1 |-> Tee], None, None, [file1 |-> <<"old">>], Lines({"a", "b"})),
     cp |-> Command([main |-> << Fork("c1"), Wait >> \o Cat("target"), c1 |-> Cp], None, [source |-> <<"1", "2", "3">>, target |-> <<"old">>]),
     copy |-> Command([main |-> << Fork("c1"), Wait >> \o Cat("target"), c1 |-> FileioCopy], None, [source |-> <<"1", "2", "3">>]),
     mycat |-> Command([main |-> MycatMain(2)], None, [source |-> <<"1", "2">>]),
     mycat_usage |-> Command([main |-> MycatMain(1)], None, None),
     cp_mmap |-> Command([main |-> CpMmap(2), user |-> << Set(S("page1"), C("n")), Unlink("page2"), Exit(0) >>], None,
                         [source |-> 0, page1 |-> "o", page2 |-> "o"]),
     cp_mmap_empty |-> Command([main |-> CpMmap(0)], None, [source |-> 0]),
     printdir |-> Command([main |-> PrintDir(C(6)) \o << Exit(0) >>], None, None),
     tail1 |-> Program([main |-> Tail2(1)], None, [buf |-> << >>], [stdin |-> << >>], TailInputs),
     tail1_newline |-> Program([main |-> Tail2(1)], None, [buf |-> << >>], [stdin |-> << >>], TailEnded),
     tail2_newline |-> Program([main |-> Tail2(2)], None, [buf |-> << >>], [stdin |-> << >>], TailEnded),
     tail2 |-> Program([main |-> Tail2(2)], None, [buf |-> << >>], [stdin |-> << >>], TailInputs),
     convert |-> Program([main |-> Convert], None, None, [stdin |-> << >>], Texts),
     lookup1 |-> Program([main |-> << Open("kb", "stdin", {"w"}) >> \o LookupMain], None, [first_time |-> 1, in |-> "NULL"],
                         [resource |-> 0, stdin |-> << >>], Asked),
     lookup1_again |-> Program([main |-> << Open("kb", "stdin", {"w"}) >> \o LookupMain], None,
                               [first_time |-> 1, in |-> "NULL"], [resource |-> 0, stdin |-> << >>], AskedAgain),
     lookup1_missing |-> Program([main |-> LookupMain], None, [first_time |-> 1, in |-> "NULL"], None, { <<"a">> }),
     shell3 |-> Filter(Shell3, Typed3), shell3_echo |-> Filter(Shell3, TypedEcho3),
     shell5_command |-> Program(RunCommand5(CommandLines), None, None, None, {<<l>> : l \in CommandLines}),
     shell5_odd |-> Program(RunCommand5(OddLines), None, None, None, {<<l>> : l \in OddLines}),
     shell5 |-> Filter(Shell5, Typed5), shell5_echo |-> Filter(Shell5, TypedEcho5),
     monitor |-> Command([main |-> MonitorMain,
                          user |-> << Open("events", "queue", {"w"}) >> \o MakeIn("root", "sub") \o MakeIn("sub", "file") \o << Exit(0) >>],
                         None, [root |-> 0, queue |-> << >>]),
     user_process |-> Command([main |-> UserProcess("alice", 3), user |-> Fewer], None, Procs3),
     user_process_none |-> Command([main |-> UserProcess("", 3)], None, Procs3),
     inspect_fd |-> Command([main |-> GetAllProcess(2, 3), user |-> Fewer], None, Procs3),
     get_tree |-> Command([main |-> GetTree(Tree4), user |-> Fewer], None, Present(Tree4)),
     get_tree_chain |-> Command([main |-> GetTree(Chain3)], None, Present(Chain3)),
     get_tree_wide |-> Command([main |-> GetTree(Wide6)], None, Present(Wide6)),
     errExit |-> Reporting(ErrExit("c1", "child"), 0), err_exit |-> Reporting(Err_exit("c1", "child"), 0),
     errExitEN |-> Reporting(ErrExitEN("c1", "child"), 0), fatal |-> Reporting(Fatal("c1", "child"), 0),
     usageErr |-> Reporting(UsageErr, 0), cmdLineErr |-> Reporting(CmdLineErr, 0),
     dumpcore |-> Reporting(Err_exit("c1", "child"), 1),
     getInt |-> Reading({}), getInt_nonneg |-> Reading({"NONNEG"}), getInt_any |-> Reading({"ANY_BASE", "GT_0"}),
     atomic_append |-> Command(Two(AtomicAppend(2, FALSE), AtomicAppend(2, FALSE), Cat("file")), None, [file |-> 0]),
     atomic_append_lseek |-> Command(Two(AtomicAppend(2, TRUE), AtomicAppend(2, TRUE), Cat("file")), [offset |-> 0], [file |-> 0]),
     bad_exclusive_open |-> Command(Two(BadExclusiveOpen(TRUE), BadExclusiveOpen(FALSE), << Exit(0) >>), None, None),
     multi_descriptors |-> Command([main |-> MultiDescriptors], None, [at0 |-> "", at6 |-> ""]),
     create_pid_file |-> Command(Two(Daemonlike("c1"), Daemonlike("c2"), << Exit(0) >>), None, [pidfile |-> ""]),
     t_flock |-> Command(Two(TFlock("c1", "x", TRUE), TFlock("c2", "s", FALSE), << Exit(0) >>), None, [file |-> 0]),
     t_flock_wait |-> Command(Two(TFlock("c1", "x", FALSE), TFlock("c2", "s", TRUE), << Exit(0) >>), None, [file |-> 0]),
     pty_bsd |-> Command(Two(BsdPtyMasterOpen, BsdPtyMasterOpen, << Exit(0) >>), None, [pty1 |-> 0, pty2 |-> 0]),
     script |-> Program(AtTerminal(ScriptPty(Replies)), None, None, [stdin |-> << >>, typescript |-> << >>], { <<"ls">> }),
     unbuffer |-> Command(AtTerminal(Unbuffer(TwoWords)), None, [stdin |-> << >>]),
     unbuffer_no_input |-> Command(Unbuffer(TwoWords), None, None)]

FileEndless == {"lookup1", "lookup1_again", "monitor"}
\* abort() is asked for by EF_DUMPCORE; the terminal of a command is gone
\* when unbuffer meets the end of its input.
FileKilling == [dumpcore |-> {"ABRT"}, unbuffer_no_input |-> {"PIPE"}]
\* Where the code does not do what a comment says: tail.c:14 "number of tail
\* lines we want to fetch", but the newline of the last line counts as one and
\* a blank line is not where the output begins; lookup1.c:24 "read from top of
\* file", which a search without a match has closed; hw3/3-1 builtin.c:20 and
\* hw5/5-2 builtin.c:25, echo "Does not print final <CR> if -n encountered";
\* run_command.c:23 "the & is removed", which is_background() only looks for;
\* redirect_in.c:44, redirect_out.c:44 "and the filename", where the rest goes;
\* userProcess.c:83 "Remove trailing newline character", of which there is
\* none; getTree.c:146, print the process tree, of which the children of one
\* node of each layer are shown; getAllProcess.c:35, the descriptors of all
\* processes, up to the first that has ended.
\* Where a pointer or a page is used that may not be there: lookup1.c:21,
\* fopen() not tested; cp.c:55, the file is cut off while it is mapped.
FileDeviating ==
    {"tail1_newline", "tail2_newline", "lookup1_again", "shell3_echo", "shell5_echo", "shell5_odd",
     "user_process", "get_tree_wide", "inspect_fd", "lookup1_missing", "cp_mmap"}

\* "The & is removed", "Remove the < and the filename".
IsArgument(l, i) == l[i] \notin {"&", "<", ">"} /\ (i = 1 \/ l[i - 1] \notin {"<", ">"})
Arguments(l) ==
    LET kept == SetToSortSeq({i \in DOMAIN l : IsArgument(l, i)}, <)
    IN  [k \in DOMAIN kept |-> l[kept[k]]]
Written(l) == IF Contains(l, ">") THEN << >> ELSE <<ToString(Arguments(l))>>

Prompt == <<"myshell ->">>
\* echo writes its words and a newline; after -n it "does not print final <CR>".
Echoed(words) == ToString(<<"text", words>>)
EchoOf(l) ==
    IF Len(l) > 1 /\ l[2] = "-n" THEN ToString(<<"text without newline", SubSeq(l, 3, Len(l))>>) ELSE Echoed(Tail(l))
\* What a line should show in each of the shells; a line after which there
\* is no further prompt ends the shell.
Shown3(l) ==
    CASE l = << >> -> Prompt
      [] l = <<"ls">> -> <<"run_command">> \o Prompt
      [] IsEcho(l) -> <<EchoOf(l)>> \o Prompt
      [] OTHER -> << >>
Session3(l) == Prompt \o (IF l = << >> THEN << >> ELSE <<ToString(l)>>) \o Shown3(l)
Shown5(l) ==
    CASE l = <<"ls">> -> <<"run_command">>
      [] IsEcho(l) -> <<EchoOf(l)>>
      [] l = <<"cd">> \/ l = <<"cd", "/none">> -> <<"cd">>
      [] l = <<"pwd">> -> <<"1">>
      [] l = <<"id">> -> <<"User ID">>
      [] l = <<"hostname">> -> <<"hostname">>
      [] l = <<"builtin">> -> <<"Usage">>
      [] l = <<"builtin", "cd">> -> <<"is a builtin">>
      [] l = <<"builtin", "ls">> -> <<"is not a builtin">>
      [] OTHER -> << >>
Session5(l) ==
    IF l = <<"quit">> THEN Prompt
    ELSE Prompt \o Shown5(l) \o Prompt \o (IF l = <<"cd", "/dir">> THEN <<"4">> ELSE <<"1">>) \o Prompt
Tailed(inputs, n) == [i \in inputs |->
                IF i = << >> THEN {<<ToString(<< >>)>>} ELSE {<<ToString(s)>> : s \in LastLines(i[1], n)}]
Recorded(word, text) == <<word, ToString(text)>>
Number(s) == {<<ToString(<<"number", s>>)>>}
NoNumber(msg) == {<<ToString(<<"fail", msg>>)>>}
\* What an argument means to a reader, by the flags.
Meant(arg, flags) ==
    CASE arg = "" -> NoNumber("null or empty string")
      [] arg = "99999" -> NoNumber("strtol() failed")
      [] arg = "300" -> NoNumber("integer out of range")
      [] arg = "12x" \/ arg = "x" -> NoNumber("nonnumeric characters")
      [] arg = "0x10" -> IF "ANY_BASE" \in flags THEN Number("16") ELSE NoNumber("nonnumeric characters")
      [] arg = "010" -> IF "ANY_BASE" \in flags THEN Number("8") ELSE Number("10")
      [] arg = "-1" -> IF "NONNEG" \in flags THEN NoNumber("negative value not allowed")
                       ELSE IF "GT_0" \in flags THEN NoNumber("value must be > 0") ELSE Number("-1")
      [] arg = "0" -> IF "GT_0" \in flags THEN NoNumber("value must be > 0") ELSE Number("0")
      [] OTHER -> Number(arg)
Meanings(flags) == [i \in {<<a>> : a \in NumberArgs} |-> Meant(i[1], flags)]
Reported(first) == Always({first \o <<"x", "ERROR parent">>})
FlockOf(me) == <<me \o " requesting", me \o " granted", me \o " releasing">>
Refused(me) == <<me \o " requesting", me \o " already locked">>
At(s, text) == CHOOSE i \in DOMAIN s : s[i] = text
\* Never both between granted and releasing.
Excluding == {s \in Merges(FlockOf("c1"), FlockOf("c2")) :
                At(s, "c1 releasing") < At(s, "c2 granted") \/ At(s, "c2 releasing") < At(s, "c1 granted")}
Exists0 == <<"already exists">>
Created0(delay) == <<"doesn't exist yet">> \o (IF delay THEN <<"Done sleeping">> ELSE << >>) \o <<"Created exclusively">>

FilePromise ==
    [tee |-> [i \in Lines({"a", "b"}) |-> {i \o <<"Success !", ToString(<<"old">> \o i)>>}],
     cp |-> Always({<<ToString(<<"1", "2", "3">>)>>}),
     copy |-> Always({<<ToString(<<"1", "2", "3">>)>>}),
     mycat |-> Always({<<"1", "2">>}),
     mycat_usage |-> Always({<< >>}),
     cp_mmap |-> Always({<<"o", "o">>, <<"n", "o">>}),
     cp_mmap_empty |-> Always({<<"mmap">>}),
     printdir |-> Always({<<"6">>}),
     tail1 |-> Tailed(TailInputs, 1), tail2 |-> Tailed(TailInputs, 2),
     tail1_newline |-> Tailed(TailEnded, 1), tail2_newline |-> Tailed(TailEnded, 2),
     convert |-> [i \in Texts |->
                    CASE i = <<"", "a", "">> -> {Recorded("", <<"", "a">>)}
                      [] i = <<"a", "x", "", "b", "y", "z", "">> -> {Recorded("a", <<"a", "x">>) \o Recorded("b", <<"b", "y", "z">>)}
                      [] OTHER -> {Recorded("a", <<"a", "x">>)}],
     lookup1 |-> [i \in Asked |-> {[k \in DOMAIN i |-> FileWords[i[k]]]}],
     lookup1_again |-> [i \in AskedAgain |-> {[k \in DOMAIN i |-> FileWords[i[k]]]}],
     lookup1_missing |-> [i \in {<<"a">>} |-> {<< >>}],
     shell3 |-> [i \in Typed3 |-> {Session3(i[1])}], shell3_echo |-> [i \in TypedEcho3 |-> {Session3(i[1])}],
     shell5_command |-> [i \in {<<l>> : l \in CommandLines} |-> {Written(i[1])}],
     shell5_odd |-> [i \in {<<l>> : l \in OddLines} |-> {Written(i[1])}],
     shell5 |-> [i \in Typed5 |-> {Session5(i[1])}], shell5_echo |-> [i \in TypedEcho5 |-> {Session5(i[1])}],
     monitor |-> Always({<<"Monitoring">> \o s : s \in {<< >>, <<"sub">>, <<"file">>, <<"sub", "file">>}}),
     user_process |-> Always({<<"2", "sh", "3", "sh">>, <<"3", "sh">>}),
     user_process_none |-> Always({<< >>}),
     inspect_fd |-> Always({<<"3">>, <<"2", "3">>}),
     get_tree |-> Always({<<ToString(<<1, 2, 3, 4>>)>>, <<ToString(<<1, 3>>)>>}),
     get_tree_chain |-> Always({<<ToString(<<1, 2, 3>>)>>}),
     get_tree_wide |-> Always({<<ToString(s)>> : s \in SetToSeqs(1 .. 6)}),
     errExit |-> Reported(<<"x", "ERROR child", "exited 1">>), errExitEN |-> Reported(<<"x", "ERROR child", "exited 1">>),
     fatal |-> Reported(<<"x", "ERROR child", "exited 1">>), err_exit |-> Reported(<<"ERROR child", "exited 1">>),
     usageErr |-> Reported(<<"x", "Usage: ", "exited 1">>),
     cmdLineErr |-> Reported(<<"x", "Command-line usage error: ", "exited 1">>),
     dumpcore |-> Reported(<<"ERROR child", "killed ABRT">>),
     getInt |-> Meanings({}), getInt_nonneg |-> Meanings({"NONNEG"}), getInt_any |-> Meanings({"ANY_BASE", "GT_0"}),
     atomic_append |-> Always({<<"done", "done", "4">>}),
     atomic_append_lseek |-> Always({<<"done", "done", ToString(n)>> : n \in 2 .. 4}),
     bad_exclusive_open |-> Always(Merges(Created0(TRUE), Created0(FALSE)) \cup Merges(Created0(TRUE), Exists0)
                                   \cup Merges(Created0(FALSE), Exists0)),
     multi_descriptors |-> Always({<<"Hello,", "", "Hello,", " world", "HELLO,", " world", "Gidday", " world">>}),
     create_pid_file |-> Always({<<a, a>> \o b : a \in {"c1", "c2"}, b \in {<< >>}} \cup {<<"c1", "c1", "c2", "c2">>, <<"c2", "c2", "c1", "c1">>}),
     t_flock |-> Always(Excluding \cup Merges(FlockOf("c1"), Refused("c2"))),
     t_flock_wait |-> Always(Excluding \cup Merges(Refused("c1"), FlockOf("c2"))),
     pty_bsd |-> Always({<<"1", "2">>, <<"2", "1">>}),
     script |-> [i \in {<<"ls">>} |-> {i}],
     unbuffer |-> Always({<<"one", "two">>}),
     unbuffer_no_input |-> Always({<< >>, <<"one">>, <<"one", "two">>})]

=============================================================================
