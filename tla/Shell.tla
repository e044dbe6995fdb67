------------------------------- MODULE Shell --------------------------------
(***************************************************************************)
(* One external command line of the shells of homework/hw3/3-1 and         *)
(* homework/hw5/5-2: run_command() with its fork and its wait; and, in the *)
(* hw5 shell, the redirections, the processes and pipes of pipe_and_exec,  *)
(* and the commands until they end.  A command that an earlier line left   *)
(* in the background may end at any time.                                  *)
(*                                                                         *)
(* A line is a sequence of tokens: "<", ">", "|", "&" and "w", which is    *)
(* any other word.  Stage 1 is the child of the shell; stage p + 1 is the  *)
(* child that stage p forks, and pipe p is the one stage p creates.  What  *)
(* a command does is one of two extremes: a "reader" ends when its input   *)
(* is at its end, a "writer" ignores its input and ends only by SIGPIPE;   *)
(* either may also end by itself.  Readers do not fill a pipe.             *)
(***************************************************************************)
EXTENDS Integers, Sequences, FiniteSets

CONSTANTS
    Shells,     \* which of "hw3" and "hw5" are considered
    Lines,      \* the lines that may be typed
    MaxStages   \* more than the stages of any line

Tokens == {"<", ">", "|", "&", "w"}

ASSUME LinesAssumption == Lines \subseteq Seq(Tokens)

VARIABLES
    shell,   \* the program that runs
    spc,     \* "run_command", "wait", "prompt" or "exited"
    line,    \* what was typed
    older,   \* an earlier background command: "none", "running", "zombie", "reaped"
    waited,  \* stage 1 has been waited for
    procs    \* the stages, in the order of their creation

shellVars == <<shell, spc, line, older, waited, procs>>

\* What a descriptor refers to.
Terminal == <<"tty", 0>>
File == <<"file", 0>>
ReadEnd(p) == <<"r", p>>
WriteEnd(p) == <<"w", p>>

Stages == 1..Len(procs)

\* A stage holds its standard input and output and other pipe ends.
Held(q) == procs[q].fds \cup {procs[q].in, procs[q].out}
Open(end) == \E q \in Stages : procs[q].pc # "exited" /\ end \in Held(q)

Has(argv, token) == \E i \in DOMAIN argv : argv[i] = token
First(argv, token) == CHOOSE i \in DOMAIN argv : argv[i] = token /\ \A j \in 1..(i - 1) : argv[j] # token
Before(argv, i) == SubSeq(argv, 1, i - 1)
After(argv, i) == SubSeq(argv, i + 1, Len(argv))

\* The position of the first pipe, 0 if there is none (positions count from 1
\* here), -1 if it is first or last.
PipePresent(argv) ==
    IF ~ Has(argv, "|") THEN 0
    ELSE LET i == First(argv, "|") IN IF i \in {1, Len(argv)} THEN -1 ELSE i

\* A line has been parsed, and its first word is not a builtin.
ShellInit ==
    /\ shell \in Shells
    /\ spc = "run_command"
    /\ line \in Lines
    /\ older \in {"none", "running"}
    /\ waited = FALSE
    /\ procs = <<>>

-----------------------------------------------------------------------------
(* run_command() in the shell. *)

IsBackground(argv) == Has(argv, "&")

\* The child of the shell goes on with execvp in hw3, with the redirections in hw5.
RunCommand ==
    /\ spc = "run_command"
    /\ spc' = IF IsBackground(line) THEN "prompt" ELSE "wait"
    /\ procs' = << [pc |-> IF shell = "hw3" THEN "execvp" ELSE "redirect_in", argv |-> line,
                    in |-> Terminal, out |-> Terminal, fds |-> {}, kind |-> "none"] >>
    /\ UNCHANGED <<shell, line, older, waited>>

\* perror("fork"); exit(errno): it is the shell that exits.
ShellForkFails ==
    /\ spc = "run_command"
    /\ spc' = "exited"
    /\ UNCHANGED <<shell, line, older, waited, procs>>

\* hw3: wait(&stat) returns for any child that has ended.
Wait ==
    /\ shell = "hw3" /\ spc = "wait"
    /\ spc' = "prompt"
    /\ \/ older = "zombie" /\ older' = "reaped" /\ UNCHANGED waited
       \/ procs[1].pc = "exited" /\ waited' = TRUE /\ UNCHANGED older
    /\ UNCHANGED <<shell, line, procs>>

\* hw5: waitpid(pid, &stat, 0) returns for the child of this line.
Waitpid ==
    /\ shell = "hw5" /\ spc = "wait"
    /\ procs[1].pc = "exited"
    /\ waited' = TRUE
    /\ spc' = "prompt"
    /\ UNCHANGED <<shell, line, older, procs>>

OlderEnds ==
    /\ older = "running"
    /\ older' = "zombie"
    /\ UNCHANGED <<shell, spc, line, waited, procs>>

Step(p, from, new) ==
    /\ procs[p].pc = from
    /\ procs' = [procs EXCEPT ![p] = new]
    /\ UNCHANGED <<shell, spc, line, older, waited>>

-----------------------------------------------------------------------------
(* run_command() in the child of the hw5 shell. *)

\* The file named after token i can be opened; there may be no name after it.
MayOpen(argv, i) == i < Len(argv)

\* No "<", or the file cannot be opened: nothing changes.  Otherwise the
\* vector is cut at the "<".
RedirectIn(p) ==
    LET s == procs[p] IN
    \/ Step(p, "redirect_in", [s EXCEPT !.pc = "redirect_out"])
    \/ /\ Has(s.argv, "<") /\ MayOpen(s.argv, First(s.argv, "<"))
       /\ Step(p, "redirect_in", [s EXCEPT !.pc = "redirect_out", !.in = File,
                                           !.argv = Before(s.argv, First(s.argv, "<"))])

RedirectOut(p) ==
    LET s == procs[p] IN
    \/ Step(p, "redirect_out", [s EXCEPT !.pc = "pipe_and_exec"])
    \/ /\ Has(s.argv, ">") /\ MayOpen(s.argv, First(s.argv, ">"))
       /\ Step(p, "redirect_out", [s EXCEPT !.pc = "pipe_and_exec", !.out = File,
                                            !.argv = Before(s.argv, First(s.argv, ">"))])

-----------------------------------------------------------------------------
(* pipe_and_exec(). *)

\* An exit closes all descriptors.
Exited(s) == [s EXCEPT !.pc = "exited", !.fds = {}]

\* A pipe that is first or last: errno = EINVAL, back to exit(errno).
MissingCommand(p) ==
    /\ PipePresent(procs[p].argv) = -1
    /\ Step(p, "pipe_and_exec", Exited(procs[p]))

\* execvp of a vector: it fails if there is no command, and may fail.
Exec(p, from) ==
    \/ /\ procs[p].argv # <<>>
       /\ \E k \in {"reader", "writer"} : Step(p, from, [procs[p] EXCEPT !.pc = "running", !.kind = k])
    \/ Step(p, from, Exited(procs[p]))

\* The child of the hw3 shell.
Execvp(p) == Exec(p, "execvp")

ExecWhole(p) ==
    /\ PipePresent(procs[p].argv) = 0
    /\ Exec(p, "pipe_and_exec")

\* The pipe is created; the vector is split at the fork().
CreatePipe(p) ==
    /\ PipePresent(procs[p].argv) > 0
    /\ \/ Step(p, "pipe_and_exec", [procs[p] EXCEPT !.pc = "fork", !.fds = @ \cup {ReadEnd(p), WriteEnd(p)}])
       \/ Step(p, "pipe_and_exec", Exited(procs[p]))

\* fork(): the child has copies of all descriptors and goes on with the right half.
Fork(p) ==
    LET s == procs[p]
        i == PipePresent(s.argv)
    IN /\ s.pc = "fork"
       /\ procs' = Append([procs EXCEPT ![p] = [s EXCEPT !.pc = "close_read", !.argv = Before(s.argv, i)]],
                          [s EXCEPT !.pc = "child_close_write", !.argv = After(s.argv, i)])
       /\ UNCHANGED <<shell, spc, line, older, waited>>

ForkFails(p) == Step(p, "fork", Exited(procs[p]))

\* Mistake: the talking parent keeps the read side.
CloseReadOmitted(p) == Step(p, "close_read", [procs[p] EXCEPT !.pc = "dup_out"])

\* The talking parent: close(pipefds[0]), dup2(pipefds[1], 1), close(pipefds[1]), execvp.
CloseRead(p) == Step(p, "close_read", [procs[p] EXCEPT !.pc = "dup_out", !.fds = @ \ {ReadEnd(p)}])

\* Mistake: dup2 is left out.
DupOutOmitted(p) == Step(p, "dup_out", [procs[p] EXCEPT !.pc = "close_write"])

DupOut(p) == Step(p, "dup_out", [procs[p] EXCEPT !.pc = "close_write", !.out = WriteEnd(p)])
CloseWrite(p) == Step(p, "close_write", [procs[p] EXCEPT !.pc = "exec_left", !.fds = @ \ {WriteEnd(p)}])
ExecLeft(p) == Exec(p, "exec_left")

\* Mistake: the listening child keeps the write side.
ChildCloseWriteOmitted(p) == Step(p, "child_close_write", [procs[p] EXCEPT !.pc = "child_dup_in"])

\* The listening child: close(pipefds[1]), dup2(pipefds[0], 0), close(pipefds[0]),
\* then pipe_and_exec of the right half.
ChildCloseWrite(p) ==
    Step(p, "child_close_write", [procs[p] EXCEPT !.pc = "child_dup_in", !.fds = @ \ {WriteEnd(p - 1)}])
ChildDupIn(p) ==
    Step(p, "child_dup_in", [procs[p] EXCEPT !.pc = "child_close_read", !.in = ReadEnd(p - 1)])
ChildCloseRead(p) ==
    Step(p, "child_close_read", [procs[p] EXCEPT !.pc = "pipe_and_exec", !.fds = @ \ {ReadEnd(p - 1)}])

-----------------------------------------------------------------------------
(* The commands. *)

\* A command ends by itself.
CommandEnds(p) == Step(p, "running", Exited(procs[p]))

\* A reader of a file or of a pipe without writers meets the end of its input.
EndOfInput(p) ==
    /\ procs[p].kind = "reader" /\ procs[p].in # Terminal
    /\ procs[p].in = File \/ ~ Open(WriteEnd(procs[p].in[2]))
    /\ Step(p, "running", Exited(procs[p]))

\* A writer into a pipe without readers is killed by SIGPIPE.
Sigpipe(p) ==
    /\ procs[p].kind = "writer" /\ procs[p].out \notin {Terminal, File}
    /\ ~ Open(ReadEnd(procs[p].out[2]))
    /\ Step(p, "running", Exited(procs[p]))

-----------------------------------------------------------------------------

ShellStep == RunCommand \/ ShellForkFails \/ Wait \/ Waitpid

StageStep(p) ==
    \/ Execvp(p)
    \/ RedirectIn(p) \/ RedirectOut(p)
    \/ MissingCommand(p) \/ ExecWhole(p) \/ CreatePipe(p)
    \/ Fork(p) \/ ForkFails(p)
    \/ CloseRead(p) \/ DupOut(p) \/ CloseWrite(p) \/ ExecLeft(p)
    \/ ChildCloseWrite(p) \/ ChildDupIn(p) \/ ChildCloseRead(p)
    \/ EndOfInput(p) \/ Sigpipe(p)

ShellNext ==
    \/ ShellStep
    \/ OlderEnds
    \/ \E p \in Stages : StageStep(p) \/ CommandEnds(p)

\* Every process is scheduled; a command that does not end by itself may go on.
ShellSpec ==
    /\ ShellInit /\ [][ShellNext]_shellVars
    /\ WF_shellVars(ShellStep)
    /\ \A p \in 1..MaxStages : WF_shellVars(p \in Stages /\ StageStep(p))

-----------------------------------------------------------------------------
(* Properties. *)

Running(p) == p \in Stages /\ procs[p].pc = "running"
Ended(p) == p \in Stages /\ procs[p].pc = "exited"

\* "Wait for child to terminate": the hw3 shell prompts after a foreground line
\* only when its own child has terminated, also when an older background
\* command has ended too.
WaitForForeground == shell = "hw3" /\ spc = "prompt" /\ ~ IsBackground(line) => Ended(1)

\* The line is cut at its ends and at its pipes.
IsCut(i) == i \in {0, Len(line) + 1} \/ line[i] = "|"
Pipes(i) == {k \in 1..i : line[k] = "|"}

\* The words between the (p-1)-st and the p-th pipe of the line.
IsSegment(argv, p) ==
    \E i \in 0..Len(line), j \in 1..(Len(line) + 1) :
        /\ i < j /\ IsCut(i) /\ IsCut(j)
        /\ \A k \in (i + 1)..(j - 1) : line[k] # "|"
        /\ Cardinality(Pipes(i)) = p - 1
        /\ argv = SubSeq(line, i + 1, j - 1)

\* A running command has no pipe end but its own input and output; it reads
\* from the stage to its left and writes to the stage to its right, and only
\* the last one writes to the redirected output.  On a line of words and pipes
\* it runs exactly its segment of the line, which is never empty; where a
\* redirection was carried out, its symbol is no argument any more.
\* Nothing is said of the arguments of a line with an "&": the comment at
\* run_command.c:22 has it "removed from the argv array as a side effect" of
\* is_background(), which only looks for it, so the command is given the "&".
\* Nor of what a redirection cuts off: the comments at redirect_in.c:44 and
\* redirect_out.c:44 remove the symbol "and the filename", the code the rest
\* of the vector (RedirectIn, RedirectOut).
StagesWired ==
    \A p \in Stages : Running(p) =>
        /\ procs[p].fds = {}
        /\ IF p = 1 THEN procs[p].in \in {Terminal, File} ELSE procs[p].in = ReadEnd(p - 1)
        /\ IF p < Len(procs) THEN procs[p].out = WriteEnd(p) ELSE procs[p].out \in {Terminal, File}
        /\ shell = "hw5" /\ ~ Has(line, "<") /\ ~ Has(line, ">") /\ ~ Has(line, "&") =>
             IsSegment(procs[p].argv, p) /\ procs[p].argv # <<>>
        /\ procs[1].in = File => ~ Has(procs[p].argv, "<")
        /\ procs[Len(procs)].out = File => ~ Has(procs[p].argv, ">")

\* The end of a stage reaches a reader to its right as the end of the input,
\* whatever descriptors the forks copied.
EofReachesReader ==
    \A p \in 1..MaxStages : (Ended(p) /\ Running(p + 1) /\ procs[p + 1].kind = "reader") ~> Ended(p + 1)

\* The end of a stage reaches a writer to its left as SIGPIPE.
SigpipeReachesWriter ==
    \A p \in 1..MaxStages : (Ended(p + 1) /\ Running(p) /\ procs[p].kind = "writer") ~> Ended(p)

=============================================================================
