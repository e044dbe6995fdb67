-------------------------- MODULE SvshmShellProofs --------------------------
(***************************************************************************)
(* Safety of the shared memory transfer, for any number of blocks, and of  *)
(* the pipelines of the shells, for lines of any length.                   *)
(*                                                                         *)
(* The transfer.  The two semaphores and the two processes hold one turn   *)
(* between them (OneTurn).  Whoever has the turn, the blocks read, the     *)
(* block in the segment and the blocks written are related in the way Data *)
(* states: when the turn is the writer's everything read has been written  *)
(* out, when it is the reader's exactly the block in the segment has not.  *)
(* A process that dies with the turn keeps it, and the data stays as it is.*)
(*                                                                         *)
(* The shell.  Only the last stage of a pipeline is still being set up; it *)
(* holds what the line has from its pipe on (IsRest), and its fork() cuts  *)
(* off one segment (SplitRest).  Where a stage is determines the pipe ends *)
(* it holds besides its standard input and output (HeldAt).                *)
(***************************************************************************)
EXTENDS SvshmXfer, Shell, FiniteSetTheorems, SequenceTheorems, WellFoundedInduction, TLAPS

(* The transfer: quiz4/pre_code. *)

SettingUp == wpc \in {"semget", "initWrite", "initRead", "shmget"}
Removing  == wpc \in {"semRmid", "shmRmid", "exited"}

Bit(b) == IF b THEN 1 ELSE 0

WriterTurn == wpc \in {"read", "release"} \/ Removing
ReaderTurn == rpc \in {"test", "write", "release", "shmdt", "releaseLast", "died"}

\* Before the segment exists the reader has not got past shmget().
SetUp ==
    /\ SettingUp => /\ rpc \in {"semget", "shmget", "failed"} /\ ~segment
                    /\ taken = 0 /\ shm = 0 /\ sem["READ_SEM"] = 0
    /\ wpc \in {"initRead", "shmget"} => sem["WRITE_SEM"] = 1
    /\ wpc \notin {"semget", "shmRmid", "exited", "died"} => semSet

\* Once the writer has died no reader gets past its first reserveSem().
WriterDead ==
    wpc = "died" =>
        sem["READ_SEM"] = 0 /\ rpc \in {"semget", "shmget", "failed", "reserve"}

OneTurn ==
    ~SettingUp /\ wpc # "died" =>
        sem["WRITE_SEM"] + sem["READ_SEM"] + Bit(WriterTurn) + Bit(ReaderTurn) = 1

\* It is the reader's turn to look at the segment, or the writer is about to
\* give it that turn.
ReaderNext == wpc = "release" \/ sem["READ_SEM"] = 1 \/ rpc \in {"test", "write", "died"}

AtEof == shm = 0 /\ taken = numBlocks /\ Len(output) = numBlocks

Data ==
    /\ \A i \in 1..Len(output) : output[i] = i
    /\ Len(output) <= taken
    /\ ReaderNext => AtEof \/ (shm = taken /\ shm = Len(output) + 1)
    /\ ~ReaderNext => Len(output) = taken
    /\ rpc \in {"write", "died"} => shm # 0
    /\ rpc = "release" => shm = taken /\ shm # 0

\* End of file: the writer stays out of the loop and the reader leaves it.
Eof ==
    /\ wpc = "reserveLast" \/ Removing => shm = 0 /\ taken = numBlocks
    /\ rpc \in {"shmdt", "releaseLast", "exited"} =>
         /\ AtEof
         /\ wpc \in {"eof", "reserveLast", "semRmid", "shmRmid", "exited"}
    /\ Removing => rpc = "exited"
    /\ wpc = "reserveLast" /\ sem["WRITE_SEM"] = 1 => rpc = "exited"

\* The transfers counted.
Xfrs ==
    /\ wxfrs = taken - Bit(wpc \in {"release", "eof"} /\ shm # 0)
    /\ rxfrs = Len(output) - Bit(rpc = "release")

\* Where the writer is in the reader's turn, and what it knows of end of file.
Alternate ==
    /\ ReaderTurn \/ sem["READ_SEM"] = 1 => wpc \in {"eof", "reserve", "reserveLast"}
    /\ wpc = "reserve" /\ (ReaderTurn \/ sem["READ_SEM"] = 1) => shm # 0
    /\ wpc \in {"release", "eof"} /\ shm = 0 => taken = numBlocks
    /\ wpc \in {"eof", "reserveLast"} /\ shm = 0 /\ sem["WRITE_SEM"] = 1 => rpc = "exited"

IndInv == XferTypeOK /\ SetUp /\ WriterDead /\ OneTurn /\ Data /\ Eof /\ Xfrs /\ Alternate

-----------------------------------------------------------------------------

LEMMA InitIndInv == XferInit => IndInv
<1> SUFFICES ASSUME XferInit PROVE IndInv
  OBVIOUS
<1> USE MaxBlocksAssumption DEF XferInit, Sems
<1>1. XferTypeOK
  <2>1. semSet \in BOOLEAN /\ segment \in BOOLEAN
    BY Zenon
  <2>2. sem \in [Sems -> 0..1] /\ shm \in 0..numBlocks /\ taken \in 0..numBlocks
    OBVIOUS
  <2>3. output \in Seq(Nat)
    OBVIOUS
  <2> QED
    BY <2>1, <2>2, <2>3 DEF XferTypeOK
<1>2. SetUp /\ WriterDead /\ OneTurn
  BY DEF SetUp, WriterDead, OneTurn, SettingUp
<1>3. Data
  BY DEF Data, ReaderNext
<1>4. Eof /\ Xfrs /\ Alternate
  BY DEF Eof, Xfrs, Alternate, Removing, ReaderTurn, Bit
<1> QED
  BY <1>1, <1>2, <1>3, <1>4 DEF IndInv

LEMMA WriterPreserves ==
  ASSUME IndInv, WriterStep PROVE IndInv'
<1> USE DEF IndInv, XferTypeOK, SetUp, WriterDead, OneTurn, Data, Eof, Xfrs, Alternate, SettingUp,
            Removing, WriterTurn, ReaderTurn, ReaderNext, AtEof, Bit, Sems,
            readerVars, writerVars, ipcVars
<1>1. CASE WSemget
  BY <1>1 DEF WSemget
<1>2. CASE WInitWrite
  BY <1>2 DEF WInitWrite, InitSem
<1>3. CASE WInitRead
  BY <1>3 DEF WInitRead, InitSem
<1>4. CASE WShmget
  BY <1>4 DEF WShmget
<1>5. CASE WReserve
  BY <1>5 DEF WReserve, ReserveSem
<1>6. CASE WRead
  BY <1>6 DEF WRead
<1>7. CASE WRelease
  BY <1>7 DEF WRelease, ReleaseSem
<1>8. CASE WEofTest
  BY <1>8 DEF WEofTest
<1>9. CASE WReserveLast
  BY <1>9 DEF WReserveLast, ReserveSem
<1>10. CASE WSemRmid
  BY <1>10 DEF WSemRmid
<1>11. CASE WShmRmid
  BY <1>11 DEF WShmRmid
<1>12. CASE WSetupFails
  BY <1>12 DEF WSetupFails
<1>13. CASE WReadFails
  BY <1>13 DEF WReadFails
<1> QED
  BY <1>1, <1>2, <1>3, <1>4, <1>5, <1>6, <1>7, <1>8, <1>9, <1>10, <1>11, <1>12, <1>13
     DEF WriterStep

LEMMA ReaderPreserves ==
  ASSUME IndInv, ReaderStep \/ RRunAgain PROVE IndInv'
<1> USE DEF IndInv, XferTypeOK, SetUp, WriterDead, OneTurn, Data, Eof, Xfrs, Alternate, SettingUp,
            Removing, WriterTurn, ReaderTurn, ReaderNext, AtEof, Bit, Sems,
            readerVars, writerVars, ipcVars
<1>1. CASE RSemget
  BY <1>1 DEF RSemget
<1>2. CASE RShmget
  BY <1>2 DEF RShmget
<1>3. CASE RReserve
  BY <1>3 DEF RReserve, ReserveSem
<1>4. CASE REofTest
  BY <1>4 DEF REofTest
<1>5. CASE RWrite
  BY <1>5 DEF RWrite
<1>6. CASE RRelease
  BY <1>6 DEF RRelease, ReleaseSem
<1>7. CASE RShmdt
  BY <1>7 DEF RShmdt
<1>8. CASE RReleaseLast
  BY <1>8 DEF RReleaseLast, ReleaseSem
<1>9. CASE RRunAgain
  BY <1>9 DEF RRunAgain
<1>10. CASE RWriteFails
  BY <1>10 DEF RWriteFails
<1> QED
  BY <1>1, <1>2, <1>3, <1>4, <1>5, <1>6, <1>7, <1>8, <1>9, <1>10 DEF ReaderStep

LEMMA NextIndInv == IndInv /\ [XferNext]_xferVars => IndInv'
<1> SUFFICES ASSUME IndInv, UNCHANGED xferVars PROVE IndInv'
  BY WriterPreserves, ReaderPreserves DEF XferNext, XferTerminating
<1> QED
  BY DEF xferVars, IndInv, XferTypeOK, SetUp, WriterDead, OneTurn, Data, Eof, Xfrs, Alternate, SettingUp,
         Removing, WriterTurn, ReaderTurn, ReaderNext, AtEof

LEMMA IndInvInvariant == XferSpec => []IndInv
  BY InitIndInv, NextIndInv, PTL DEF XferSpec

\* The state is well typed; in particular both semaphores stay binary.
THEOREM TypeCorrect == XferSpec => []XferTypeOK
  BY IndInvInvariant, PTL DEF IndInv

\* The writer never fills the segment while the reader is looking at it.
THEOREM AccessExclusive == XferSpec => []ExclusiveAccess
<1>1. IndInv => ExclusiveAccess
  BY DEF IndInv, XferTypeOK, SetUp, WriterDead, OneTurn, SettingUp, WriterTurn, ReaderTurn, Bit, Sems, ExclusiveAccess
<1> QED
  BY <1>1, IndInvInvariant, PTL

\* What the reader writes is what the writer read, whatever its length.
THEOREM OutputCorrect == XferSpec => []OutputIsInput
<1>1. IndInv => OutputIsInput
  BY DEF IndInv, Data, Eof, AtEof, OutputIsInput
<1> QED
  BY <1>1, IndInvInvariant, PTL

\* The IPC objects are removed only after the reader's last use of them, and
\* both programs then report the same number of transfers.
THEOREM RemovalSafe == XferSpec => []RemovedAfterReader
<1>1. IndInv => RemovedAfterReader
  BY DEF IndInv, XferTypeOK, Eof, AtEof, Removing, Xfrs, Bit, RemovedAfterReader
<1> QED
  BY <1>1, IndInvInvariant, PTL

-----------------------------------------------------------------------------
(* The shells: hw3/3-1 and hw5/5-2. *)

\* Where a stage can be: the last one is being set up, the others have forked.
SetupPcs == {"redirect_in", "redirect_out", "execvp", "pipe_and_exec", "fork",
             "child_close_write", "child_dup_in", "child_close_read"}
LeftPcs == {"close_read", "dup_out", "close_write", "exec_left"}

Ends == {"tty", "file", "r", "w"} \X Nat

Stage == [pc : SetupPcs \cup LeftPcs \cup {"running", "exited"}, argv : Seq(Tokens),
          in : Ends, out : Ends, fds : SUBSET Ends, kind : {"none", "reader", "writer"}]

ShellTypeOK ==
    /\ line \in Seq(Tokens)
    /\ procs \in Seq(Stage)

\* The pipe ends that stage p holds besides its standard input and output.
HeldAt(pc, p) ==
    IF pc \in {"fork", "close_read"} THEN {ReadEnd(p), WriteEnd(p)}
    ELSE IF pc \in {"dup_out", "close_write"} THEN {WriteEnd(p)}
    ELSE IF pc = "child_close_write" THEN {ReadEnd(p - 1), WriteEnd(p - 1)}
    ELSE IF pc \in {"child_dup_in", "child_close_read"} THEN {ReadEnd(p - 1)}
    ELSE {}

\* Where stage p of n is, and which descriptors it has there.
Placed(s, p, n) ==
    /\ s.pc \in LeftPcs => p < n
    /\ s.pc \in SetupPcs => p = n
    /\ s.pc \in {"redirect_in", "redirect_out", "execvp"} => p = 1
    /\ s.pc \in {"child_close_write", "child_dup_in", "child_close_read"} => p > 1
    /\ s.pc = "execvp" => shell # "hw5"

Wired(s, p, n) ==
    /\ s.fds = HeldAt(s.pc, p)
    /\ p = 1 => s.in \in {Terminal, File}
    /\ p > 1 /\ s.pc \notin {"child_close_write", "child_dup_in"} => s.in = ReadEnd(p - 1)
    /\ p = n => s.out \in {Terminal, File}
    /\ p < n /\ s.pc \in {"close_write", "exec_left", "running"} => s.out = WriteEnd(p)

\* The line has neither a redirection nor an "&".
Plain == shell = "hw5" /\ ~ Has(line, "<") /\ ~ Has(line, ">") /\ ~ Has(line, "&")

\* Everything from the (p-1)-st pipe of the line on.
IsRest(argv, p) ==
    \E i \in 0..Len(line) :
        /\ IsCut(i)
        /\ Cardinality(Pipes(i)) = p - 1
        /\ argv = SubSeq(line, i + 1, Len(line))

\* The last stage has the rest of the line, the others have their segments.
Argued(s, p, n) ==
    /\ s.pc = "running" => s.argv # <<>>
    /\ s.pc = "fork" => PipePresent(s.argv) > 0
    /\ Plain /\ p < n => IsSegment(s.argv, p)
    /\ Plain /\ p = n => IsRest(s.argv, p)
    /\ Plain /\ p = n /\ s.pc = "running" => ~ Has(s.argv, "|")

StagesOK == \A p \in Stages :
    Placed(procs[p], p, Len(procs)) /\ Wired(procs[p], p, Len(procs)) /\ Argued(procs[p], p, Len(procs))

\* A redirection that was carried out has left the argument vectors.
Redirected ==
    \A p \in Stages :
        /\ procs[1].in = File => ~ Has(procs[p].argv, "<")
        /\ procs[Len(procs)].out = File => ~ Has(procs[p].argv, ">")

ShellStarted == spc = "run_command" => procs = <<>>

ShellInv == ShellTypeOK /\ ShellStarted /\ StagesOK /\ Redirected

-----------------------------------------------------------------------------
(* Sequences of tokens. *)

\* The least element of a set of numbers.
LEMMA LeastElement ==
  ASSUME NEW T \in SUBSET Nat, T # {}
  PROVE  \E m \in T : \A k \in T : m <= k
<1> DEFINE R == {ss \in Nat \X Nat : ss[1] < ss[2]}
<1>1. IsWellFoundedOn(R, Nat)
  BY NatLessThanWellFounded DEF OpToRel
<1>2. \E m \in T : \A k \in T : ~ (<<k, m>> \in R)
  <2> HIDE DEF R
  <2> QED
    BY <1>1, WFMin
<1>3. PICK m \in T : \A k \in T : ~ (<<k, m>> \in R)
  BY <1>2
<1>4. ASSUME NEW k \in T PROVE m <= k
  <2>1. ~ (<<k, m>> \in R)
    BY <1>3
  <2>2. k \in Nat /\ m \in Nat
    OBVIOUS
  <2>3. k < m => <<k, m>> \in R
    BY <2>2
  <2> QED
    BY <2>1, <2>2, <2>3
<1> QED
  BY <1>4

\* First() is the position of the first occurrence.
LEMMA FirstPosition ==
  ASSUME NEW argv \in Seq(Tokens), NEW token, Has(argv, token)
  PROVE  /\ First(argv, token) \in 1..Len(argv)
         /\ argv[First(argv, token)] = token
         /\ \A j \in 1..(First(argv, token) - 1) : argv[j] # token
<1>1. DOMAIN argv = 1..Len(argv) /\ Len(argv) \in Nat
  BY LenProperties
<1> DEFINE T == {i \in 1..Len(argv) : argv[i] = token}
<1>2. T \in SUBSET Nat /\ T # {}
  BY <1>1 DEF Has
<1>3. PICK m \in T : \A k \in T : m <= k
  <2> HIDE DEF T
  <2> QED
    BY <1>2, LeastElement
<1>4. m \in DOMAIN argv /\ argv[m] = token /\ \A j \in 1..(m - 1) : argv[j] # token
  <2>1. m \in 1..Len(argv) /\ argv[m] = token
    OBVIOUS
  <2>2. ASSUME NEW j \in 1..(m - 1), argv[j] = token PROVE FALSE
    <3>1. j \in 1..Len(argv) /\ ~ (m <= j)
      BY <1>1, <2>1
    <3>2. j \in T
      BY <3>1, <2>2
    <3> QED
      BY <3>1, <3>2, <1>3
  <2> QED
    BY <1>1, <2>1, <2>2
<1>5. /\ First(argv, token) \in DOMAIN argv /\ argv[First(argv, token)] = token
      /\ \A j \in 1..(First(argv, token) - 1) : argv[j] # token
  BY <1>4 DEF First
<1> QED
  BY <1>1, <1>5

\* A part of a vector.
LEMMA PartOf ==
  ASSUME NEW argv \in Seq(Tokens), NEW m \in Nat, NEW n \in Nat, 1 <= m, n <= Len(argv)
  PROVE  /\ SubSeq(argv, m, n) \in Seq(Tokens)
         /\ Len(SubSeq(argv, m, n)) = IF m <= n THEN n - m + 1 ELSE 0
         /\ \A k \in 1..(n - m + 1) : SubSeq(argv, m, n)[k] = argv[m + k - 1]
         /\ \A token : Has(SubSeq(argv, m, n), token) => Has(argv, token)
<1>1. DOMAIN argv = 1..Len(argv) /\ Len(argv) \in Nat
  BY LenProperties
<1>2. \A k \in m..n : argv[k] \in Tokens
  <2>1. \A k \in m..n : k \in 1..Len(argv)
    BY <1>1
  <2> QED
    BY <2>1, ElementOfSeq
<1> DEFINE part == SubSeq(argv, m, n)
<1>3. /\ part \in Seq(Tokens)
      /\ Len(part) = IF m <= n THEN n - m + 1 ELSE 0
      /\ \A k \in 1..(n - m + 1) : part[k] = argv[m + k - 1]
  BY <1>2, SubSeqProperties
<1>4. ASSUME NEW token, Has(part, token) PROVE Has(argv, token)
  <2> HIDE DEF part
  <2>1. DOMAIN part = 1..Len(part)
    BY <1>3, LenProperties
  <2>2. PICK k \in 1..Len(part) : part[k] = token
    BY <1>4, <2>1 DEF Has
  <2>3. k \in 1..(n - m + 1) /\ m + k - 1 \in 1..Len(argv)
    BY <1>1, <1>3, <2>2
  <2> QED
    BY <1>1, <1>3, <2>2, <2>3 DEF Has
<1> QED
  BY <1>3, <1>4

\* A vector is cut at its first token: the token does not stay.
LEMMA CutAt ==
  ASSUME NEW argv \in Seq(Tokens), NEW token, Has(argv, token)
  PROVE  LET i == First(argv, token) IN
         /\ Before(argv, i) \in Seq(Tokens)
         /\ ~ Has(Before(argv, i), token)
         /\ \A t : Has(Before(argv, i), t) => Has(argv, t)
<1> DEFINE i == First(argv, token)
<1>1. i \in 1..Len(argv) /\ \A j \in 1..(i - 1) : argv[j] # token
  BY FirstPosition
<1>2. Len(argv) \in Nat
  BY LenProperties
<1> HIDE DEF i
<1>3. i - 1 \in Nat /\ i - 1 <= Len(argv)
  BY <1>1, <1>2
<1>4. /\ Before(argv, i) \in Seq(Tokens)
      /\ Len(Before(argv, i)) = IF 1 <= i - 1 THEN i - 1 - 1 + 1 ELSE 0
      /\ \A k \in 1..(i - 1 - 1 + 1) : Before(argv, i)[k] = argv[1 + k - 1]
      /\ \A t : Has(Before(argv, i), t) => Has(argv, t)
  BY <1>3, PartOf DEF Before
<1>5. ~ Has(Before(argv, i), token)
  <2>1. DOMAIN Before(argv, i) = 1..Len(Before(argv, i))
    BY <1>4, LenProperties
  <2>2. \A k \in 1..Len(Before(argv, i)) : k \in 1..(i - 1) /\ Before(argv, i)[k] = argv[k]
    BY <1>1, <1>2, <1>3, <1>4
  <2> QED
    BY <1>1, <2>1, <2>2 DEF Has
<1> QED
  BY <1>4, <1>5 DEF i

\* A pipe with a command on both sides.
LEMMA PipeInside ==
  ASSUME NEW argv \in Seq(Tokens), PipePresent(argv) > 0
  PROVE  /\ PipePresent(argv) \in 2..(Len(argv) - 1)
         /\ argv[PipePresent(argv)] = "|"
         /\ \A j \in 1..(PipePresent(argv) - 1) : argv[j] # "|"
<1>1. Has(argv, "|") /\ PipePresent(argv) = First(argv, "|") /\ First(argv, "|") \notin {1, Len(argv)}
  BY DEF PipePresent
<1>2. Len(argv) \in Nat
  BY LenProperties
<1> QED
  BY <1>1, <1>2, FirstPosition

LEMMA NoPipe ==
  ASSUME NEW argv \in Seq(Tokens), PipePresent(argv) = 0
  PROVE  ~ Has(argv, "|")
<1>1. Has(argv, "|") => First(argv, "|") \in 1..Len(argv)
  BY FirstPosition
<1> QED
  BY <1>1 DEF PipePresent

\* One more pipe.
LEMMA OneMorePipe ==
  ASSUME line \in Seq(Tokens), NEW i \in 0..Len(line), NEW j \in 1..Len(line), i < j,
         line[j] = "|", \A k \in (i + 1)..(j - 1) : line[k] # "|"
  PROVE  Cardinality(Pipes(j)) = Cardinality(Pipes(i)) + 1
<1>1. Len(line) \in Nat
  BY LenProperties
<1>2. Pipes(j) = Pipes(i) \cup {j} /\ j \notin Pipes(i)
  <2>1. \A k \in 1..j : k \in 1..i \/ k = j \/ k \in (i + 1)..(j - 1)
    BY <1>1
  <2>2. 1..i \subseteq 1..j /\ j \in 1..j /\ j \notin 1..i
    BY <1>1
  <2> QED
    BY <2>1, <2>2 DEF Pipes
<1>3. IsFiniteSet(Pipes(i))
  <2>1. IsFiniteSet(1..i)
    BY <1>1, FS_Interval
  <2> QED
    BY <2>1, FS_Subset DEF Pipes
<1> QED
  BY <1>2, <1>3, FS_AddElement

\* The rest of the line is split at its first pipe: a segment and the rest.
LEMMA SplitRest ==
  ASSUME line \in Seq(Tokens), NEW argv \in Seq(Tokens), NEW p \in Nat,
         IsRest(argv, p), PipePresent(argv) > 0
  PROVE  /\ IsSegment(Before(argv, PipePresent(argv)), p)
         /\ IsRest(After(argv, PipePresent(argv)), p + 1)
<1>1. PICK b \in 0..Len(line) :
        IsCut(b) /\ Cardinality(Pipes(b)) = p - 1 /\ argv = SubSeq(line, b + 1, Len(line))
  BY DEF IsRest
<1> DEFINE L == Len(line)
           i == PipePresent(argv)
           c == b + i
<1>2. L \in Nat /\ b \in Nat /\ b <= L
  BY LenProperties
<1>3. Len(argv) = L - b /\ \A k \in 1..(L - b) : argv[k] = line[b + k]
  <2>1. b + 1 \in Nat /\ 1 <= b + 1 /\ L <= L
    BY <1>2
  <2>2. /\ Len(SubSeq(line, b + 1, L)) = IF b + 1 <= L THEN L - (b + 1) + 1 ELSE 0
        /\ \A k \in 1..(L - (b + 1) + 1) : SubSeq(line, b + 1, L)[k] = line[b + 1 + k - 1]
    BY <1>2, <2>1, PartOf
  <2>3. L - (b + 1) + 1 = L - b
    BY <1>2
  <2>4. \A k \in 1..(L - b) : b + 1 + k - 1 = b + k
    BY <1>2
  <2> HIDE DEF L
  <2>5. Len(argv) = L - b
    <3>1. Len(argv) = IF b + 1 <= L THEN L - (b + 1) + 1 ELSE 0
      BY <1>1, <2>2 DEF L
    <3> QED
      BY <1>2, <3>1
  <2>6. \A k \in 1..(L - b) : argv[k] = line[b + 1 + k - 1]
    BY <1>1, <2>2, <2>3 DEF L
  <2> QED
    BY <2>4, <2>5, <2>6
<1>4. /\ i \in 2..(Len(argv) - 1) /\ argv[i] = "|"
      /\ \A j \in 1..(i - 1) : argv[j] # "|"
  BY PipeInside
<1> HIDE DEF i, L
<1>5. i \in Nat /\ c \in 1..L /\ b < c /\ i \in 1..(L - b) /\ c - b = i
  BY <1>2, <1>3, <1>4
<1>6. line[c] = "|"
  BY <1>3, <1>4, <1>5
<1>7. \A k \in (b + 1)..(c - 1) : line[k] # "|"
  <2> SUFFICES ASSUME NEW k \in (b + 1)..(c - 1) PROVE line[k] # "|"
    OBVIOUS
  <2>1. k - b \in 1..(i - 1) /\ k - b \in 1..(L - b) /\ b + (k - b) = k
    BY <1>2, <1>5
  <2> QED
    BY <1>3, <1>4, <2>1
<1>8. Cardinality(Pipes(c)) = p
  <2>1. Cardinality(Pipes(c)) = Cardinality(Pipes(b)) + 1
    BY <1>5, <1>6, <1>7, OneMorePipe DEF L
  <2> QED
    BY <1>1, <2>1
<1>9. Before(argv, i) = SubSeq(line, b + 1, c - 1)
  <2>1. /\ Before(argv, i) \in Seq(Tokens)
        /\ Len(Before(argv, i)) = IF 1 <= i - 1 THEN i - 1 - 1 + 1 ELSE 0
        /\ \A k \in 1..(i - 1 - 1 + 1) : Before(argv, i)[k] = argv[1 + k - 1]
    <3>1. i - 1 \in Nat /\ i - 1 <= Len(argv) /\ 1 <= 1 /\ 1 \in Nat
      BY <1>2, <1>3, <1>4
    <3> QED
      BY <3>1, PartOf DEF Before
  <2>2. /\ SubSeq(line, b + 1, c - 1) \in Seq(Tokens)
        /\ Len(SubSeq(line, b + 1, c - 1)) = IF b + 1 <= c - 1 THEN c - 1 - (b + 1) + 1 ELSE 0
        /\ \A k \in 1..(c - 1 - (b + 1) + 1) : SubSeq(line, b + 1, c - 1)[k] = line[b + 1 + k - 1]
    <3>1. b + 1 \in Nat /\ c - 1 \in Nat /\ 1 <= b + 1 /\ c - 1 <= Len(line)
      BY <1>2, <1>5 DEF L
    <3> HIDE DEF c
    <3> QED
      BY <3>1, PartOf
  <2>3. Len(Before(argv, i)) = i - 1 /\ Len(SubSeq(line, b + 1, c - 1)) = i - 1
    BY <1>2, <1>4, <1>5, <2>1, <2>2
  <2>4. ASSUME NEW k \in 1..(i - 1) PROVE Before(argv, i)[k] = SubSeq(line, b + 1, c - 1)[k]
    <3>1. /\ k \in 1..(i - 1 - 1 + 1) /\ k \in 1..(c - 1 - (b + 1) + 1) /\ k \in 1..(L - b)
          /\ 1 + k - 1 = k /\ b + 1 + k - 1 = b + k
      BY <1>2, <1>5
    <3> QED
      BY <1>3, <2>1, <2>2, <3>1
  <2> HIDE DEF c
  <2> QED
    BY <2>1, <2>2, <2>3, <2>4, SeqEqual
<1>10. After(argv, i) = SubSeq(line, c + 1, L)
  <2>1. /\ After(argv, i) \in Seq(Tokens)
        /\ Len(After(argv, i)) = IF i + 1 <= Len(argv) THEN Len(argv) - (i + 1) + 1 ELSE 0
        /\ \A k \in 1..(Len(argv) - (i + 1) + 1) : After(argv, i)[k] = argv[i + 1 + k - 1]
    <3>1. i + 1 \in Nat /\ 1 <= i + 1 /\ Len(argv) \in Nat /\ Len(argv) <= Len(argv)
      BY <1>2, <1>3, <1>5
    <3> QED
      BY <3>1, PartOf DEF After
  <2>2. /\ SubSeq(line, c + 1, L) \in Seq(Tokens)
        /\ Len(SubSeq(line, c + 1, L)) = IF c + 1 <= L THEN L - (c + 1) + 1 ELSE 0
        /\ \A k \in 1..(L - (c + 1) + 1) : SubSeq(line, c + 1, L)[k] = line[c + 1 + k - 1]
    <3>1. c + 1 \in Nat /\ L \in Nat /\ 1 <= c + 1 /\ L <= Len(line)
      BY <1>2, <1>5 DEF L
    <3> HIDE DEF c
    <3> QED
      BY <3>1, PartOf
  <2>3. Len(After(argv, i)) = L - c /\ Len(SubSeq(line, c + 1, L)) = L - c
    BY <1>2, <1>3, <1>4, <1>5, <2>1, <2>2
  <2>4. ASSUME NEW k \in 1..(L - c) PROVE After(argv, i)[k] = SubSeq(line, c + 1, L)[k]
    <3>1. /\ k \in 1..(Len(argv) - (i + 1) + 1) /\ k \in 1..(L - (c + 1) + 1) /\ i + k \in 1..(L - b)
          /\ i + 1 + k - 1 = i + k /\ c + 1 + k - 1 = b + (i + k)
      BY <1>2, <1>3, <1>5
    <3> QED
      BY <1>3, <2>1, <2>2, <3>1
  <2> HIDE DEF c
  <2> QED
    BY <2>1, <2>2, <2>3, <2>4, SeqEqual
<1>11. IsSegment(Before(argv, i), p)
  <2>1. c \in 1..(Len(line) + 1) /\ IsCut(c)
    BY <1>2, <1>5, <1>6 DEF IsCut, L
  <2> HIDE DEF c
  <2> QED
    BY <1>1, <1>5, <1>7, <1>9, <2>1 DEF IsSegment
<1>12. IsRest(After(argv, i), p + 1)
  <2>1. c \in 0..Len(line) /\ IsCut(c) /\ Cardinality(Pipes(c)) = (p + 1) - 1
    BY <1>2, <1>5, <1>6, <1>8 DEF IsCut, L
  <2> HIDE DEF c
  <2> QED
    BY <1>10, <2>1 DEF IsRest, L
<1> QED
  BY <1>11, <1>12 DEF i

\* A rest without a pipe is the last segment.
LEMMA RestIsSegment ==
  ASSUME line \in Seq(Tokens), NEW argv \in Seq(Tokens), NEW p, IsRest(argv, p), ~ Has(argv, "|")
  PROVE  IsSegment(argv, p)
<1>1. PICK b \in 0..Len(line) :
        IsCut(b) /\ Cardinality(Pipes(b)) = p - 1 /\ argv = SubSeq(line, b + 1, Len(line))
  BY DEF IsRest
<1> DEFINE L == Len(line)
<1>2. L \in Nat /\ DOMAIN argv = 1..Len(argv)
  BY LenProperties
<1>3. /\ Len(SubSeq(line, b + 1, L)) = IF b + 1 <= L THEN L - (b + 1) + 1 ELSE 0
      /\ \A k \in 1..(L - (b + 1) + 1) : SubSeq(line, b + 1, L)[k] = line[b + 1 + k - 1]
  <2>1. b + 1 \in Nat /\ 1 <= b + 1 /\ L <= L
    BY <1>2
  <2> QED
    BY <1>2, <2>1, PartOf
<1>4. ASSUME NEW k \in (b + 1)..L PROVE line[k] # "|"
  <2>1. k - b \in 1..(L - (b + 1) + 1) /\ k - b \in 1..Len(argv) /\ b + 1 + (k - b) - 1 = k
    BY <1>1, <1>2, <1>3
  <2>2. argv[k - b] = line[k]
    BY <1>1, <1>3, <2>1
  <2> QED
    BY <1>2, <2>1, <2>2 DEF Has
<1>5. L + 1 \in 1..(Len(line) + 1) /\ IsCut(L + 1) /\ b < L + 1 /\ (L + 1) - 1 = L
  BY <1>2 DEF IsCut
<1> HIDE DEF L
<1>6. /\ b < L + 1 /\ IsCut(b) /\ IsCut(L + 1)
      /\ \A k \in (b + 1)..((L + 1) - 1) : line[k] # "|"
      /\ Cardinality(Pipes(b)) = p - 1
      /\ argv = SubSeq(line, b + 1, (L + 1) - 1)
  BY <1>1, <1>4, <1>5 DEF L
<1> QED
  BY <1>5, <1>6 DEF IsSegment

-----------------------------------------------------------------------------
(* The steps of the stages. *)

StageOK(s, p, n) == Placed(s, p, n) /\ Wired(s, p, n) /\ Argued(s, p, n)

\* What a stage has to satisfy depends on the shell and the line only.
LEMMA StageOKSame ==
  ASSUME UNCHANGED <<shell, line>>, NEW s, NEW p, NEW n
  PROVE  StageOK(s, p, n)' <=> StageOK(s, p, n)
<1>1. \A argv, q : IsSegment(argv, q)' <=> IsSegment(argv, q)
  BY DEF IsSegment, IsCut, Pipes
<1>2. \A argv, q : IsRest(argv, q)' <=> IsRest(argv, q)
  BY DEF IsRest, IsCut, Pipes
<1>3. Plain' <=> Plain
  BY DEF Plain, Has
<1>4. Argued(s, p, n)' <=> Argued(s, p, n)
  BY <1>1, <1>2, <1>3 DEF Argued
<1>5. Placed(s, p, n)' <=> Placed(s, p, n)
  BY DEF Placed
<1>6. Wired(s, p, n)' <=> Wired(s, p, n)
  BY DEF Wired
<1> QED
  BY <1>4, <1>5, <1>6 DEF StageOK

LEMMA StagesOKEach == StagesOK <=> \A p \in Stages : StageOK(procs[p], p, Len(procs))
  BY DEF StagesOK, StageOK

\* One stage is replaced.
LEMMA ReplaceStage ==
  ASSUME ShellTypeOK, NEW p \in Stages, NEW from, NEW s \in Stage, Step(p, from, s)
  PROVE  /\ UNCHANGED <<shell, spc, line, older, waited>>
         /\ 1 \in 1..Len(procs) /\ Len(procs) \in 1..Len(procs) /\ Len(procs) # 0
         /\ procs' \in Seq(Stage) /\ Len(procs') = Len(procs)
         /\ \A q \in 1..Len(procs) : procs'[q] = IF q = p THEN s ELSE procs[q]
<1>1. procs' = [procs EXCEPT ![p] = s] /\ UNCHANGED <<shell, spc, line, older, waited>>
  BY DEF Step
<1>2. procs \in Seq(Stage)
  BY DEF ShellTypeOK
<1>3. Len(procs) \in Nat /\ DOMAIN procs = 1..Len(procs) /\ p \in 1..Len(procs)
  BY <1>2, LenProperties DEF Stages
<1>4. procs' \in Seq(Stage) /\ Len(procs') = Len(procs)
  BY <1>1, <1>2, <1>3, ExceptSeq
<1>5. 1 \in 1..Len(procs) /\ Len(procs) \in 1..Len(procs) /\ Len(procs) # 0
  BY <1>3
<1>6. \A q \in 1..Len(procs) : procs'[q] = IF q = p THEN s ELSE procs[q]
  BY <1>1, <1>3
<1> QED
  BY <1>1, <1>4, <1>5, <1>6

\* Stage p goes on as s.  It does not change where the pipeline reads from and
\* writes to, or it is the only stage and what it redirects is cut off.
LEMMA UpdateStage ==
  ASSUME ShellInv, NEW p \in Stages, NEW from, NEW s \in Stage, Step(p, from, s),
         StageOK(s, p, Len(procs)),
         \A t : Has(s.argv, t) => Has(procs[p].argv, t),
         p = 1 => s.in = procs[1].in \/ (Len(procs) = 1 /\ ~ Has(s.argv, "<")),
         p = Len(procs) => s.out = procs[p].out \/ (Len(procs) = 1 /\ ~ Has(s.argv, ">"))
  PROVE  ShellInv'
<1>n. ShellTypeOK /\ line \in Seq(Tokens)
  BY DEF ShellInv, ShellTypeOK
<1>1. /\ UNCHANGED <<shell, spc, line, older, waited>>
      /\ 1 \in 1..Len(procs) /\ Len(procs) \in 1..Len(procs) /\ Len(procs) # 0
      /\ procs' \in Seq(Stage) /\ Len(procs') = Len(procs)
  BY <1>n, ReplaceStage
<1>2. procs' \in Seq(Stage) /\ Len(procs') = Len(procs)
  BY <1>1
<1>m. 1 \in 1..Len(procs) /\ Len(procs) \in 1..Len(procs) /\ Len(procs) # 0
  BY <1>1
<1>3. \A q \in 1..Len(procs) : procs'[q] = IF q = p THEN s ELSE procs[q]
  BY <1>n, ReplaceStage
<1>4. ShellTypeOK'
  BY <1>1, <1>n, <1>2 DEF ShellTypeOK
<1>5. ShellStarted'
  <2>1. spc # "run_command"
    <3>1. procs # <<>>
      BY <1>m, EmptySeq
    <3> QED
      BY <3>1 DEF ShellInv, ShellStarted
  <2> QED
    BY <1>1, <2>1 DEF ShellStarted
<1>6. StagesOK'
  <2>1. \A q \in Stages : StageOK(procs[q], q, Len(procs))
    BY StagesOKEach DEF ShellInv
  <2>2. \A q \in 1..Len(procs) : StageOK(procs'[q], q, Len(procs))
    BY <1>3, <2>1 DEF Stages
  <2>3. \A q \in 1..Len(procs') : StageOK(procs[q], q, Len(procs))'
    <3> SUFFICES ASSUME NEW q \in 1..Len(procs') PROVE StageOK(procs[q], q, Len(procs))'
      OBVIOUS
    <3>1. StageOK(procs'[q], q, Len(procs'))
      BY <1>2, <2>2
    <3> QED
      BY <3>1, <1>1, StageOKSame
  <2> QED
    BY <2>3 DEF StagesOK, StageOK, Stages
<1>7. Redirected'
  <2>1. \A q \in 1..Len(procs) : \A t : Has(procs'[q].argv, t) => Has(procs[q].argv, t)
    BY <1>3
  <2>2. ASSUME NEW q \in 1..Len(procs), procs'[1].in = File PROVE ~ Has(procs'[q].argv, "<")
    <3>2. CASE procs[1].in = File
      <4>1. ~ Has(procs[q].argv, "<")
        BY <3>2 DEF ShellInv, Redirected, Stages
      <4> QED
        BY <2>1, <4>1
    <3>3. CASE procs[1].in # File
      <4>1. p = 1 /\ Len(procs) = 1 /\ ~ Has(s.argv, "<")
        BY <1>3, <1>m, <2>2, <3>3
      <4> QED
        BY <1>3, <4>1
    <3> QED
      BY <3>2, <3>3
  <2>3. ASSUME NEW q \in 1..Len(procs), procs'[Len(procs)].out = File PROVE ~ Has(procs'[q].argv, ">")
    <3>2. CASE procs[Len(procs)].out = File
      <4>1. ~ Has(procs[q].argv, ">")
        BY <3>2 DEF ShellInv, Redirected, Stages
      <4> QED
        BY <2>1, <4>1
    <3>3. CASE procs[Len(procs)].out # File
      <4>1. p = Len(procs) /\ Len(procs) = 1 /\ ~ Has(s.argv, ">")
        BY <1>3, <1>m, <2>3, <3>3
      <4> QED
        BY <1>3, <4>1
    <3> QED
      BY <3>2, <3>3
  <2>4. ASSUME NEW q \in 1..Len(procs)
        PROVE  /\ procs'[1].in = File => ~ Has(procs'[q].argv, "<")
               /\ procs'[Len(procs')].out = File => ~ Has(procs'[q].argv, ">")
    BY <1>2, <2>2, <2>3
  <2> QED
    BY <1>2, <2>4 DEF Redirected, Stages, Has
<1> QED
  BY <1>4, <1>5, <1>6, <1>7 DEF ShellInv

\* What the invariant says of one stage.
LEMMA StageAt ==
  ASSUME ShellInv, NEW p \in Stages
  PROVE  /\ procs[p] \in Stage /\ StageOK(procs[p], p, Len(procs))
         /\ Len(procs) \in Nat /\ p \in 1..Len(procs)
         /\ line \in Seq(Tokens)
<1>1. procs \in Seq(Stage) /\ line \in Seq(Tokens)
  BY DEF ShellInv, ShellTypeOK
<1>2. Len(procs) \in Nat /\ p \in 1..Len(procs)
  BY <1>1, LenProperties DEF Stages
<1>3. procs[p] \in Stage
  BY <1>1, <1>2, ElementOfSeq
<1>4. StageOK(procs[p], p, Len(procs))
  BY StagesOKEach DEF ShellInv
<1> QED
  BY <1>1, <1>2, <1>3, <1>4

LEMMA EndsOf ==
  ASSUME NEW p \in Nat, p >= 1
  PROVE  {Terminal, File, ReadEnd(p), WriteEnd(p), ReadEnd(p - 1), WriteEnd(p - 1)} \subseteq Ends
<1>1. p - 1 \in Nat /\ 0 \in Nat
  OBVIOUS
<1> QED
  BY <1>1 DEF Terminal, File, ReadEnd, WriteEnd, Ends

\* The pipe ends are different.
LEMMA EndsDiffer ==
  ASSUME NEW p
  PROVE  ReadEnd(p) # WriteEnd(p)
  BY DEF ReadEnd, WriteEnd

\* A stage that goes on with the same arguments.
LEMMA SameArgs ==
  ASSUME ShellInv, NEW p \in Stages, NEW from, NEW s \in Stage, Step(p, from, s),
         s.argv = procs[p].argv,
         Placed(s, p, Len(procs)), Wired(s, p, Len(procs)),
         p = 1 => s.in = procs[1].in, p = Len(procs) => s.out = procs[p].out,
         s.pc = "running" => s.argv # <<>> /\ (Plain /\ p = Len(procs) => ~ Has(s.argv, "|")),
         s.pc = "fork" => PipePresent(s.argv) > 0
  PROVE  ShellInv'
<1>1. StageOK(procs[p], p, Len(procs))
  BY StageAt
<1>2. Argued(s, p, Len(procs))
  BY <1>1 DEF StageOK, Argued
<1>3. StageOK(s, p, Len(procs))
  BY <1>2 DEF StageOK
<1> QED
  BY <1>3, UpdateStage

LEMMA CloseReadKeeps ==
  ASSUME ShellInv, NEW p \in Stages, CloseRead(p)
  PROVE  ShellInv'
<1> DEFINE r == procs[p]
           s == [r EXCEPT !.pc = "dup_out", !.fds = @ \ {ReadEnd(p)}]
           n == Len(procs)
<1>1. r \in Stage /\ StageOK(r, p, n) /\ n \in Nat /\ p \in 1..n
  BY StageAt
<1>2. r.pc = "close_read" /\ Step(p, "close_read", s)
  BY DEF CloseRead, Step
<1>3. {Terminal, File, ReadEnd(p), WriteEnd(p), ReadEnd(p - 1), WriteEnd(p - 1)} \subseteq Ends
  BY <1>1, EndsOf
<1>4. /\ s \in Stage /\ s.pc = "dup_out" /\ s.argv = r.argv
      /\ s.in = r.in /\ s.out = r.out /\ s.fds = r.fds \ {ReadEnd(p)}
  <2> HIDE DEF r
  <2> QED
    BY <1>1, <1>3 DEF Stage, SetupPcs, LeftPcs
<1> HIDE DEF s, n, r
<1>5. Placed(s, p, n)
  BY <1>1, <1>2, <1>4 DEF StageOK, Placed, SetupPcs, LeftPcs
<1>6. Wired(s, p, n)
  <2>1. s.fds = HeldAt(s.pc, p)
    BY <1>1, <1>2, <1>4, EndsDiffer DEF StageOK, Wired, HeldAt
  <2> QED
    BY <1>1, <1>2, <1>4, <2>1 DEF StageOK, Placed, Wired, SetupPcs, LeftPcs
<1>7. (p = 1 => s.in = r.in) /\ (p = n => s.out = r.out)
  BY <1>1, <1>2, <1>4 DEF StageOK, Placed, SetupPcs, LeftPcs
<1>8. s.pc # "running" /\ s.pc # "fork"
  BY <1>4
<1> QED
  BY <1>2, <1>4, <1>5, <1>6, <1>7, <1>8, SameArgs DEF r, n

LEMMA DupOutKeeps ==
  ASSUME ShellInv, NEW p \in Stages, DupOut(p)
  PROVE  ShellInv'
<1> DEFINE r == procs[p]
           s == [r EXCEPT !.pc = "close_write", !.out = WriteEnd(p)]
           n == Len(procs)
<1>1. r \in Stage /\ StageOK(r, p, n) /\ n \in Nat /\ p \in 1..n
  BY StageAt
<1>2. r.pc = "dup_out" /\ Step(p, "dup_out", s)
  BY DEF DupOut, Step
<1>3. {Terminal, File, ReadEnd(p), WriteEnd(p), ReadEnd(p - 1), WriteEnd(p - 1)} \subseteq Ends
  BY <1>1, EndsOf
<1>4. /\ s \in Stage /\ s.pc = "close_write" /\ s.argv = r.argv
      /\ s.in = r.in /\ s.out = WriteEnd(p) /\ s.fds = r.fds
  <2> HIDE DEF r
  <2> QED
    BY <1>1, <1>3 DEF Stage, SetupPcs, LeftPcs
<1> HIDE DEF s, n, r
<1>5. Placed(s, p, n)
  BY <1>1, <1>2, <1>4 DEF StageOK, Placed, SetupPcs, LeftPcs
<1>6. Wired(s, p, n)
  <2>1. s.fds = HeldAt(s.pc, p)
    BY <1>1, <1>2, <1>4, EndsDiffer DEF StageOK, Wired, HeldAt
  <2> QED
    BY <1>1, <1>2, <1>4, <2>1 DEF StageOK, Placed, Wired, SetupPcs, LeftPcs
<1>7. (p = 1 => s.in = r.in) /\ (p = n => s.out = r.out)
  BY <1>1, <1>2, <1>4 DEF StageOK, Placed, SetupPcs, LeftPcs
<1>8. s.pc # "running" /\ s.pc # "fork"
  BY <1>4
<1> QED
  BY <1>2, <1>4, <1>5, <1>6, <1>7, <1>8, SameArgs DEF r, n

LEMMA CloseWriteKeeps ==
  ASSUME ShellInv, NEW p \in Stages, CloseWrite(p)
  PROVE  ShellInv'
<1> DEFINE r == procs[p]
           s == [r EXCEPT !.pc = "exec_left", !.fds = @ \ {WriteEnd(p)}]
           n == Len(procs)
<1>1. r \in Stage /\ StageOK(r, p, n) /\ n \in Nat /\ p \in 1..n
  BY StageAt
<1>2. r.pc = "close_write" /\ Step(p, "close_write", s)
  BY DEF CloseWrite, Step
<1>3. {Terminal, File, ReadEnd(p), WriteEnd(p), ReadEnd(p - 1), WriteEnd(p - 1)} \subseteq Ends
  BY <1>1, EndsOf
<1>4. /\ s \in Stage /\ s.pc = "exec_left" /\ s.argv = r.argv
      /\ s.in = r.in /\ s.out = r.out /\ s.fds = r.fds \ {WriteEnd(p)}
  <2> HIDE DEF r
  <2> QED
    BY <1>1, <1>3 DEF Stage, SetupPcs, LeftPcs
<1> HIDE DEF s, n, r
<1>5. Placed(s, p, n)
  BY <1>1, <1>2, <1>4 DEF StageOK, Placed, SetupPcs, LeftPcs
<1>6. Wired(s, p, n)
  <2>1. s.fds = HeldAt(s.pc, p)
    BY <1>1, <1>2, <1>4, EndsDiffer DEF StageOK, Wired, HeldAt
  <2> QED
    BY <1>1, <1>2, <1>4, <2>1 DEF StageOK, Placed, Wired, SetupPcs, LeftPcs
<1>7. (p = 1 => s.in = r.in) /\ (p = n => s.out = r.out)
  BY <1>1, <1>2, <1>4 DEF StageOK, Placed, SetupPcs, LeftPcs
<1>8. s.pc # "running" /\ s.pc # "fork"
  BY <1>4
<1> QED
  BY <1>2, <1>4, <1>5, <1>6, <1>7, <1>8, SameArgs DEF r, n

LEMMA ChildCloseWriteKeeps ==
  ASSUME ShellInv, NEW p \in Stages, ChildCloseWrite(p)
  PROVE  ShellInv'
<1> DEFINE r == procs[p]
           s == [r EXCEPT !.pc = "child_dup_in", !.fds = @ \ {WriteEnd(p - 1)}]
           n == Len(procs)
<1>1. r \in Stage /\ StageOK(r, p, n) /\ n \in Nat /\ p \in 1..n
  BY StageAt
<1>2. r.pc = "child_close_write" /\ Step(p, "child_close_write", s)
  BY DEF ChildCloseWrite, Step
<1>3. {Terminal, File, ReadEnd(p), WriteEnd(p), ReadEnd(p - 1), WriteEnd(p - 1)} \subseteq Ends
  BY <1>1, EndsOf
<1>4. /\ s \in Stage /\ s.pc = "child_dup_in" /\ s.argv = r.argv
      /\ s.in = r.in /\ s.out = r.out /\ s.fds = r.fds \ {WriteEnd(p - 1)}
  <2> HIDE DEF r
  <2> QED
    BY <1>1, <1>3 DEF Stage, SetupPcs, LeftPcs
<1> HIDE DEF s, n, r
<1>5. Placed(s, p, n)
  BY <1>1, <1>2, <1>4 DEF StageOK, Placed, SetupPcs, LeftPcs
<1>6. Wired(s, p, n)
  <2>1. s.fds = HeldAt(s.pc, p)
    BY <1>1, <1>2, <1>4, EndsDiffer DEF StageOK, Wired, HeldAt
  <2> QED
    BY <1>1, <1>2, <1>4, <2>1 DEF StageOK, Placed, Wired, SetupPcs, LeftPcs
<1>7. (p = 1 => s.in = r.in) /\ (p = n => s.out = r.out)
  BY <1>1, <1>2, <1>4 DEF StageOK, Placed, SetupPcs, LeftPcs
<1>8. s.pc # "running" /\ s.pc # "fork"
  BY <1>4
<1> QED
  BY <1>2, <1>4, <1>5, <1>6, <1>7, <1>8, SameArgs DEF r, n

LEMMA ChildDupInKeeps ==
  ASSUME ShellInv, NEW p \in Stages, ChildDupIn(p)
  PROVE  ShellInv'
<1> DEFINE r == procs[p]
           s == [r EXCEPT !.pc = "child_close_read", !.in = ReadEnd(p - 1)]
           n == Len(procs)
<1>1. r \in Stage /\ StageOK(r, p, n) /\ n \in Nat /\ p \in 1..n
  BY StageAt
<1>2. r.pc = "child_dup_in" /\ Step(p, "child_dup_in", s)
  BY DEF ChildDupIn, Step
<1>3. {Terminal, File, ReadEnd(p), WriteEnd(p), ReadEnd(p - 1), WriteEnd(p - 1)} \subseteq Ends
  BY <1>1, EndsOf
<1>4. /\ s \in Stage /\ s.pc = "child_close_read" /\ s.argv = r.argv
      /\ s.in = ReadEnd(p - 1) /\ s.out = r.out /\ s.fds = r.fds
  <2> HIDE DEF r
  <2> QED
    BY <1>1, <1>3 DEF Stage, SetupPcs, LeftPcs
<1> HIDE DEF s, n, r
<1>5. Placed(s, p, n)
  BY <1>1, <1>2, <1>4 DEF StageOK, Placed, SetupPcs, LeftPcs
<1>6. Wired(s, p, n)
  <2>1. s.fds = HeldAt(s.pc, p)
    BY <1>1, <1>2, <1>4, EndsDiffer DEF StageOK, Wired, HeldAt
  <2> QED
    BY <1>1, <1>2, <1>4, <2>1 DEF StageOK, Placed, Wired, SetupPcs, LeftPcs
<1>7. (p = 1 => s.in = r.in) /\ (p = n => s.out = r.out)
  BY <1>1, <1>2, <1>4 DEF StageOK, Placed, SetupPcs, LeftPcs
<1>8. s.pc # "running" /\ s.pc # "fork"
  BY <1>4
<1> QED
  BY <1>2, <1>4, <1>5, <1>6, <1>7, <1>8, SameArgs DEF r, n

LEMMA ChildCloseReadKeeps ==
  ASSUME ShellInv, NEW p \in Stages, ChildCloseRead(p)
  PROVE  ShellInv'
<1> DEFINE r == procs[p]
           s == [r EXCEPT !.pc = "pipe_and_exec", !.fds = @ \ {ReadEnd(p - 1)}]
           n == Len(procs)
<1>1. r \in Stage /\ StageOK(r, p, n) /\ n \in Nat /\ p \in 1..n
  BY StageAt
<1>2. r.pc = "child_close_read" /\ Step(p, "child_close_read", s)
  BY DEF ChildCloseRead, Step
<1>3. {Terminal, File, ReadEnd(p), WriteEnd(p), ReadEnd(p - 1), WriteEnd(p - 1)} \subseteq Ends
  BY <1>1, EndsOf
<1>4. /\ s \in Stage /\ s.pc = "pipe_and_exec" /\ s.argv = r.argv
      /\ s.in = r.in /\ s.out = r.out /\ s.fds = r.fds \ {ReadEnd(p - 1)}
  <2> HIDE DEF r
  <2> QED
    BY <1>1, <1>3 DEF Stage, SetupPcs, LeftPcs
<1> HIDE DEF s, n, r
<1>5. Placed(s, p, n)
  BY <1>1, <1>2, <1>4 DEF StageOK, Placed, SetupPcs, LeftPcs
<1>6. Wired(s, p, n)
  <2>1. s.fds = HeldAt(s.pc, p)
    BY <1>1, <1>2, <1>4, EndsDiffer DEF StageOK, Wired, HeldAt
  <2> QED
    BY <1>1, <1>2, <1>4, <2>1 DEF StageOK, Placed, Wired, SetupPcs, LeftPcs
<1>7. (p = 1 => s.in = r.in) /\ (p = n => s.out = r.out)
  BY <1>1, <1>2, <1>4 DEF StageOK, Placed, SetupPcs, LeftPcs
<1>8. s.pc # "running" /\ s.pc # "fork"
  BY <1>4
<1> QED
  BY <1>2, <1>4, <1>5, <1>6, <1>7, <1>8, SameArgs DEF r, n

\* An exit, by an error or of a command.
LEMMA ExitKeeps ==
  ASSUME ShellInv, NEW p \in Stages, NEW from,
         from \notin {"child_close_write", "child_dup_in"}, Step(p, from, Exited(procs[p]))
  PROVE  ShellInv'
<1> DEFINE r == procs[p]
           s == Exited(r)
           n == Len(procs)
<1>1. r \in Stage /\ StageOK(r, p, n) /\ n \in Nat /\ p \in 1..n
  BY StageAt
<1>2. r.pc = from /\ Step(p, from, s)
  BY DEF Step
<1>3. /\ s \in Stage /\ s.pc = "exited" /\ s.argv = r.argv
      /\ s.in = r.in /\ s.out = r.out /\ s.fds = {}
  <2> HIDE DEF r
  <2> QED
    BY <1>1 DEF Exited, Stage
<1> HIDE DEF s, n, r
<1>4. Placed(s, p, n)
  BY <1>3 DEF Placed, SetupPcs, LeftPcs
<1>5. Wired(s, p, n)
  BY <1>1, <1>2, <1>3 DEF StageOK, Wired, HeldAt
<1>6. (p = 1 => s.in = r.in) /\ (p = n => s.out = r.out)
  BY <1>3
<1>7. s.pc # "running" /\ s.pc # "fork"
  BY <1>3
<1> QED
  BY <1>2, <1>3, <1>4, <1>5, <1>6, <1>7, SameArgs DEF r, n

\* A successful execvp(): only the last stage of the hw5 shell calls it with a
\* vector that could still have a pipe.
LEMMA ExecKeeps ==
  ASSUME ShellInv, NEW p \in Stages, NEW from \in {"execvp", "pipe_and_exec", "exec_left"}, Exec(p, from),
         from = "pipe_and_exec" => PipePresent(procs[p].argv) = 0
  PROVE  ShellInv'
<1>0. CASE Step(p, from, Exited(procs[p]))
  <2>1. from \notin {"child_close_write", "child_dup_in"}
    OBVIOUS
  <2> QED
    BY <1>0, <2>1, ExitKeeps
<1>1. ASSUME NEW k \in {"reader", "writer"}, procs[p].argv # <<>>,
             Step(p, from, [procs[p] EXCEPT !.pc = "running", !.kind = k])
      PROVE  ShellInv'
  <2> DEFINE r == procs[p]
             s == [r EXCEPT !.pc = "running", !.kind = k]
             n == Len(procs)
  <2>1. r \in Stage /\ StageOK(r, p, n) /\ n \in Nat /\ p \in 1..n
    BY StageAt
  <2>2. r.pc = from /\ Step(p, from, s) /\ r.argv # <<>>
    BY <1>1 DEF Step
  <2>3. /\ s \in Stage /\ s.pc = "running" /\ s.argv = r.argv
        /\ s.in = r.in /\ s.out = r.out /\ s.fds = r.fds
    <3> HIDE DEF r
    <3> QED
      BY <2>1 DEF Stage
  <2>4. from = "pipe_and_exec" => ~ Has(r.argv, "|")
    <3>1. r.argv \in Seq(Tokens)
      BY <2>1 DEF Stage
    <3> QED
      BY <3>1, NoPipe
  <2> HIDE DEF s, n, r
  <2>5. Placed(s, p, n)
    BY <2>3 DEF Placed, SetupPcs, LeftPcs
  <2>6. Wired(s, p, n)
    BY <2>1, <2>2, <2>3 DEF StageOK, Placed, Wired, HeldAt, SetupPcs, LeftPcs
  <2>7. Plain /\ p = n => ~ Has(s.argv, "|")
    <3>1. from = "execvp" => shell # "hw5"
      BY <2>1, <2>2 DEF StageOK, Placed
    <3>2. from = "exec_left" => p < n
      BY <2>1, <2>2 DEF StageOK, Placed, LeftPcs
    <3>3. ~ (p < n /\ p = n)
      BY <2>1
    <3> QED
      BY <2>3, <2>4, <3>1, <3>2, <3>3 DEF Plain
  <2>8. s.argv # <<>> /\ s.pc # "fork"
    BY <2>2, <2>3
  <2> QED
    BY <2>2, <2>3, <2>5, <2>6, <2>7, <2>8, SameArgs DEF r, n
<1> QED
  BY <1>0, <1>1 DEF Exec

LEMMA CreatePipeKeeps ==
  ASSUME ShellInv, NEW p \in Stages, CreatePipe(p)
  PROVE  ShellInv'
<1> DEFINE r == procs[p]
           s == [r EXCEPT !.pc = "fork", !.fds = @ \cup {ReadEnd(p), WriteEnd(p)}]
           n == Len(procs)
<1>0. CASE Step(p, "pipe_and_exec", Exited(procs[p]))
  BY <1>0, ExitKeeps
<1>1. r \in Stage /\ StageOK(r, p, n) /\ n \in Nat /\ p \in 1..n
  BY StageAt
<1>2. CASE Step(p, "pipe_and_exec", s)
  <2>1. r.pc = "pipe_and_exec" /\ PipePresent(r.argv) > 0
    BY <1>2 DEF CreatePipe, Step
  <2>2. {Terminal, File, ReadEnd(p), WriteEnd(p), ReadEnd(p - 1), WriteEnd(p - 1)} \subseteq Ends
    BY <1>1, EndsOf
  <2>3. /\ s \in Stage /\ s.pc = "fork" /\ s.argv = r.argv
        /\ s.in = r.in /\ s.out = r.out /\ s.fds = r.fds \cup {ReadEnd(p), WriteEnd(p)}
    <3> HIDE DEF r
    <3> QED
      BY <1>1, <2>2 DEF Stage, SetupPcs, LeftPcs
  <2> HIDE DEF s, n, r
  <2>4. Placed(s, p, n)
    BY <1>1, <2>1, <2>3 DEF StageOK, Placed, SetupPcs, LeftPcs
  <2>5. Wired(s, p, n)
    <3>1. s.fds = HeldAt(s.pc, p)
      BY <1>1, <2>1, <2>3 DEF StageOK, Wired, HeldAt
    <3> QED
      BY <1>1, <2>1, <2>3, <3>1 DEF StageOK, Wired
  <2>6. PipePresent(s.argv) > 0 /\ s.pc # "running"
    BY <2>1, <2>3
  <2> QED
    BY <1>2, <2>3, <2>4, <2>5, <2>6, SameArgs DEF r, n
<1> QED
  BY <1>0, <1>2 DEF CreatePipe

\* The rest of the line has only tokens of the line.
LEMMA RestOfLine ==
  ASSUME line \in Seq(Tokens), NEW argv, NEW p, NEW token, IsRest(argv, p), Has(argv, token)
  PROVE  Has(line, token)
<1>1. PICK b \in 0..Len(line) : argv = SubSeq(line, b + 1, Len(line))
  BY DEF IsRest
<1>2. b + 1 \in Nat /\ 1 <= b + 1 /\ Len(line) \in Nat /\ Len(line) <= Len(line)
  BY LenProperties
<1>3. \A t : Has(SubSeq(line, b + 1, Len(line)), t) => Has(line, t)
  BY <1>2, PartOf
<1> QED
  BY <1>1, <1>3

\* redirect_in() and redirect_out(): only the first stage, when it is the only one.
LEMMA RedirectInKeeps ==
  ASSUME ShellInv, NEW p \in Stages, RedirectIn(p)
  PROVE  ShellInv'
<1> DEFINE r == procs[p]
           n == Len(procs)
           s == [r EXCEPT !.pc = "redirect_out"]
           c == [r EXCEPT !.pc = "redirect_out", !.in = File, !.argv = Before(r.argv, First(r.argv, "<"))]
<1>1. r \in Stage /\ StageOK(r, p, n) /\ n \in Nat /\ p \in 1..n /\ line \in Seq(Tokens)
  BY StageAt
<1>2. r.pc = "redirect_in"
  BY DEF RedirectIn, Step
<1>3. p = 1 /\ n = 1
  BY <1>1, <1>2 DEF StageOK, Placed, SetupPcs
<1>4. CASE Step(p, "redirect_in", s)
  <2>1. /\ s \in Stage /\ s.pc = "redirect_out" /\ s.argv = r.argv
        /\ s.in = r.in /\ s.out = r.out /\ s.fds = r.fds
    <3> HIDE DEF r
    <3> QED
      BY <1>1 DEF Stage, SetupPcs, LeftPcs
  <2> HIDE DEF s, n, r
  <2>2. Placed(s, p, n)
    BY <1>3, <2>1 DEF Placed, SetupPcs, LeftPcs
  <2>3. Wired(s, p, n)
    BY <1>1, <1>2, <1>3, <2>1 DEF StageOK, Wired, HeldAt
  <2>4. s.pc # "running" /\ s.pc # "fork"
    BY <2>1
  <2> QED
    BY <1>3, <1>4, <2>1, <2>2, <2>3, <2>4, SameArgs DEF r, n
<1>5. CASE Has(r.argv, "<") /\ Step(p, "redirect_in", c)
  <2>1. r.argv \in Seq(Tokens)
    BY <1>1 DEF Stage
  <2>2. /\ Before(r.argv, First(r.argv, "<")) \in Seq(Tokens)
        /\ ~ Has(Before(r.argv, First(r.argv, "<")), "<")
        /\ \A t : Has(Before(r.argv, First(r.argv, "<")), t) => Has(r.argv, t)
    BY <1>5, <2>1, CutAt
  <2>3. File \in Ends
    BY DEF File, Ends
  <2>4. /\ c \in Stage /\ c.pc = "redirect_out" /\ c.argv = Before(r.argv, First(r.argv, "<"))
        /\ c.in = File /\ c.out = r.out /\ c.fds = r.fds
    <3> HIDE DEF r
    <3> QED
      BY <1>1, <2>2, <2>3 DEF Stage, SetupPcs, LeftPcs
  <2> HIDE DEF c, n, r
  <2>5. Placed(c, p, n)
    BY <1>3, <2>4 DEF Placed, SetupPcs, LeftPcs
  <2>6. Wired(c, p, n)
    BY <1>1, <1>2, <1>3, <2>4 DEF StageOK, Wired, HeldAt
  <2>7. ~ Plain
    <3>1. ASSUME Plain PROVE FALSE
      <4>1. IsRest(r.argv, p)
        BY <1>1, <1>3, <3>1 DEF StageOK, Argued
      <4>2. Has(line, "<")
        BY <1>1, <1>5, <4>1, RestOfLine
      <4> QED
        BY <3>1, <4>2 DEF Plain
    <3> QED
      BY <3>1
  <2>8. Argued(c, p, n)
    BY <2>4, <2>7 DEF Argued
  <2>9. StageOK(c, p, n)
    BY <2>5, <2>6, <2>8 DEF StageOK
  <2>10. ~ Has(c.argv, "<") /\ \A t : Has(c.argv, t) => Has(r.argv, t)
    BY <2>2, <2>4
  <2> QED
    BY <1>3, <1>5, <2>4, <2>9, <2>10, UpdateStage DEF r, n
<1> QED
  BY <1>4, <1>5 DEF RedirectIn

LEMMA RedirectOutKeeps ==
  ASSUME ShellInv, NEW p \in Stages, RedirectOut(p)
  PROVE  ShellInv'
<1> DEFINE r == procs[p]
           n == Len(procs)
           s == [r EXCEPT !.pc = "pipe_and_exec"]
           c == [r EXCEPT !.pc = "pipe_and_exec", !.out = File, !.argv = Before(r.argv, First(r.argv, ">"))]
<1>1. r \in Stage /\ StageOK(r, p, n) /\ n \in Nat /\ p \in 1..n /\ line \in Seq(Tokens)
  BY StageAt
<1>2. r.pc = "redirect_out"
  BY DEF RedirectOut, Step
<1>3. p = 1 /\ n = 1
  BY <1>1, <1>2 DEF StageOK, Placed, SetupPcs
<1>4. CASE Step(p, "redirect_out", s)
  <2>1. /\ s \in Stage /\ s.pc = "pipe_and_exec" /\ s.argv = r.argv
        /\ s.in = r.in /\ s.out = r.out /\ s.fds = r.fds
    <3> HIDE DEF r
    <3> QED
      BY <1>1 DEF Stage, SetupPcs, LeftPcs
  <2> HIDE DEF s, n, r
  <2>2. Placed(s, p, n)
    BY <1>3, <2>1 DEF Placed, SetupPcs, LeftPcs
  <2>3. Wired(s, p, n)
    BY <1>1, <1>2, <1>3, <2>1 DEF StageOK, Wired, HeldAt
  <2>4. s.pc # "running" /\ s.pc # "fork"
    BY <2>1
  <2> QED
    BY <1>3, <1>4, <2>1, <2>2, <2>3, <2>4, SameArgs DEF r, n
<1>5. CASE Has(r.argv, ">") /\ Step(p, "redirect_out", c)
  <2>1. r.argv \in Seq(Tokens)
    BY <1>1 DEF Stage
  <2>2. /\ Before(r.argv, First(r.argv, ">")) \in Seq(Tokens)
        /\ ~ Has(Before(r.argv, First(r.argv, ">")), ">")
        /\ \A t : Has(Before(r.argv, First(r.argv, ">")), t) => Has(r.argv, t)
    BY <1>5, <2>1, CutAt
  <2>3. File \in Ends
    BY DEF File, Ends
  <2>4. /\ c \in Stage /\ c.pc = "pipe_and_exec" /\ c.argv = Before(r.argv, First(r.argv, ">"))
        /\ c.in = r.in /\ c.out = File /\ c.fds = r.fds
    <3> HIDE DEF r
    <3> QED
      BY <1>1, <2>2, <2>3 DEF Stage, SetupPcs, LeftPcs
  <2> HIDE DEF c, n, r
  <2>5. Placed(c, p, n)
    BY <1>3, <2>4 DEF Placed, SetupPcs, LeftPcs
  <2>6. Wired(c, p, n)
    BY <1>1, <1>2, <1>3, <2>4 DEF StageOK, Wired, HeldAt
  <2>7. ~ Plain
    <3>1. ASSUME Plain PROVE FALSE
      <4>1. IsRest(r.argv, p)
        BY <1>1, <1>3, <3>1 DEF StageOK, Argued
      <4>2. Has(line, ">")
        BY <1>1, <1>5, <4>1, RestOfLine
      <4> QED
        BY <3>1, <4>2 DEF Plain
    <3> QED
      BY <3>1
  <2>8. Argued(c, p, n)
    BY <2>4, <2>7 DEF Argued
  <2>9. StageOK(c, p, n)
    BY <2>5, <2>6, <2>8 DEF StageOK
  <2>10. ~ Has(c.argv, ">") /\ \A t : Has(c.argv, t) => Has(r.argv, t)
    BY <2>2, <2>4
  <2> QED
    BY <1>3, <1>5, <2>4, <2>9, <2>10, UpdateStage DEF r, n
<1> QED
  BY <1>4, <1>5 DEF RedirectOut

\* What the fork() of stage p does to the stages.
LEMMA ForkStages ==
  ASSUME NEW q, q \in Seq(Stage), NEW p \in 1..Len(q), p = Len(q), NEW a \in Stage, NEW b \in Stage
  PROVE  /\ Append([q EXCEPT ![p] = a], b) \in Seq(Stage)
         /\ Len(Append([q EXCEPT ![p] = a], b)) = p + 1
         /\ \A k \in 1..(p + 1) : Append([q EXCEPT ![p] = a], b)[k] =
              IF k = p THEN a ELSE IF k = p + 1 THEN b ELSE q[k]
<1> DEFINE e == [q EXCEPT ![p] = a]
<1>1. Len(q) \in Nat /\ DOMAIN q = 1..Len(q)
  BY LenProperties
<1>2. e \in Seq(Stage) /\ Len(e) = Len(q)
  BY ExceptSeq
<1>3. \A k \in 1..p : e[k] = IF k = p THEN a ELSE q[k]
  BY <1>1
<1> HIDE DEF e
<1>4. /\ Append(e, b) \in Seq(Stage) /\ Len(Append(e, b)) = Len(e) + 1
      /\ \A k \in 1..Len(e) : Append(e, b)[k] = e[k]
      /\ Append(e, b)[Len(e) + 1] = b
  BY <1>2, AppendProperties
<1>5. Len(e) = p /\ p \in Nat
  BY <1>1, <1>2
<1>6. \A k \in 1..(p + 1) : Append(e, b)[k] = IF k = p THEN a ELSE IF k = p + 1 THEN b ELSE q[k]
  <2> SUFFICES ASSUME NEW k \in 1..(p + 1)
               PROVE  Append(e, b)[k] = IF k = p THEN a ELSE IF k = p + 1 THEN b ELSE q[k]
    OBVIOUS
  <2>1. CASE k = p + 1
    <3>1. k # p
      BY <1>5, <2>1
    <3> QED
      BY <1>4, <1>5, <2>1, <3>1
  <2>2. CASE k # p + 1
    <3>1. k \in 1..p
      BY <1>5, <2>2
    <3>2. Append(e, b)[k] = e[k]
      BY <1>4, <1>5, <3>1
    <3> QED
      BY <1>3, <2>2, <3>1, <3>2
  <2> QED
    BY <2>1, <2>2
<1> QED
  BY <1>4, <1>5, <1>6 DEF e

LEMMA ForkKeeps ==
  ASSUME ShellInv, NEW p \in Stages, Fork(p)
  PROVE  ShellInv'
<1> DEFINE r == procs[p]
           n == Len(procs)
           i == PipePresent(r.argv)
           a == [r EXCEPT !.pc = "close_read", !.argv = Before(r.argv, i)]
           b == [r EXCEPT !.pc = "child_close_write", !.argv = After(r.argv, i)]
<1>1. r \in Stage /\ StageOK(r, p, n) /\ n \in Nat /\ p \in 1..n /\ line \in Seq(Tokens)
  BY StageAt
<1>2. /\ r.pc = "fork" /\ procs' = Append([procs EXCEPT ![p] = a], b)
      /\ UNCHANGED <<shell, spc, line, older, waited>>
  BY DEF Fork
<1>3. p = n /\ r.argv \in Seq(Tokens) /\ i > 0
  <2>1. p = n
    BY <1>1, <1>2 DEF StageOK, Placed, SetupPcs
  <2>2. r.argv \in Seq(Tokens)
    BY <1>1 DEF Stage
  <2>3. i > 0
    BY <1>1, <1>2 DEF StageOK, Argued
  <2> QED
    BY <2>1, <2>2, <2>3
<1>4. i \in 2..(Len(r.argv) - 1)
  BY <1>3, PipeInside
<1>5. /\ Before(r.argv, i) \in Seq(Tokens) /\ After(r.argv, i) \in Seq(Tokens)
      /\ \A t : Has(Before(r.argv, i), t) => Has(r.argv, t)
      /\ \A t : Has(After(r.argv, i), t) => Has(r.argv, t)
  <2>1. Len(r.argv) \in Nat
    BY <1>3, LenProperties
  <2> HIDE DEF i, r
  <2>2. 1 \in Nat /\ i - 1 \in Nat /\ 1 <= 1 /\ i - 1 <= Len(r.argv)
    BY <1>4, <2>1
  <2>3. i + 1 \in Nat /\ 1 <= i + 1 /\ Len(r.argv) <= Len(r.argv)
    BY <1>4, <2>1
  <2>4. Before(r.argv, i) \in Seq(Tokens) /\ \A t : Has(Before(r.argv, i), t) => Has(r.argv, t)
    BY <1>3, <2>2, PartOf DEF Before
  <2>5. After(r.argv, i) \in Seq(Tokens) /\ \A t : Has(After(r.argv, i), t) => Has(r.argv, t)
    BY <1>3, <2>1, <2>3, PartOf DEF After
  <2> QED
    BY <2>4, <2>5
<1>6. /\ a \in Stage /\ a.pc = "close_read" /\ a.argv = Before(r.argv, i)
      /\ a.in = r.in /\ a.out = r.out /\ a.fds = r.fds
  <2> HIDE DEF r, i
  <2> QED
    BY <1>1, <1>5 DEF Stage, SetupPcs, LeftPcs
<1>7. /\ b \in Stage /\ b.pc = "child_close_write" /\ b.argv = After(r.argv, i)
      /\ b.in = r.in /\ b.out = r.out /\ b.fds = r.fds
  <2> HIDE DEF r, i
  <2> QED
    BY <1>1, <1>5 DEF Stage, SetupPcs, LeftPcs
<1>8. Plain => IsSegment(a.argv, p) /\ IsRest(b.argv, p + 1)
  <2>1. Plain => IsRest(r.argv, p)
    BY <1>1, <1>3 DEF StageOK, Argued
  <2>2. p \in Nat
    BY <1>1
  <2>3. Plain => IsSegment(Before(r.argv, i), p) /\ IsRest(After(r.argv, i), p + 1)
    BY <1>1, <1>3, <2>1, <2>2, SplitRest
  <2> HIDE DEF r, i, a, b
  <2> QED
    BY <1>6, <1>7, <2>3
<1>p. procs \in Seq(Stage) /\ ShellStarted /\ Redirected /\ StagesOK
  BY DEF ShellInv, ShellTypeOK
<1>9. /\ procs' \in Seq(Stage) /\ Len(procs') = n + 1
      /\ \A k \in 1..(n + 1) : procs'[k] = IF k = n THEN a ELSE IF k = n + 1 THEN b ELSE procs[k]
  <2> HIDE DEF a, b
  <2> QED
    BY <1>p, <1>1, <1>2, <1>3, <1>6, <1>7, ForkStages
<1> HIDE DEF a, b, i, n
<1>10. ShellTypeOK'
  BY <1>1, <1>2, <1>9 DEF ShellTypeOK
<1>11. ShellStarted'
  <2>1. procs # <<>>
    BY <1>1, EmptySeq DEF n
  <2> QED
    BY <1>2, <1>p, <2>1 DEF ShellStarted
<1>12. StageOK(a, n, n + 1)
  <2>1. Placed(a, n, n + 1)
    BY <1>1, <1>6 DEF Placed, SetupPcs, LeftPcs
  <2>2. Wired(a, n, n + 1)
    <3>1. a.fds = HeldAt(a.pc, n)
      BY <1>1, <1>2, <1>3, <1>6 DEF StageOK, Wired, HeldAt
    <3> QED
      BY <1>1, <1>2, <1>3, <1>6, <3>1 DEF StageOK, Wired
  <2>3. Argued(a, n, n + 1)
    BY <1>1, <1>3, <1>6, <1>8 DEF Argued
  <2> QED
    BY <2>1, <2>2, <2>3 DEF StageOK
<1>13. StageOK(b, n + 1, n + 1)
  <2>1. Placed(b, n + 1, n + 1)
    BY <1>1, <1>7 DEF Placed, SetupPcs, LeftPcs
  <2>2. Wired(b, n + 1, n + 1)
    <3>1. (n + 1) - 1 = n
      BY <1>1
    <3>2. b.fds = HeldAt(b.pc, n + 1)
      BY <1>1, <1>2, <1>3, <1>7, <3>1 DEF StageOK, Wired, HeldAt
    <3> QED
      BY <1>1, <1>2, <1>3, <1>7, <3>2 DEF StageOK, Wired
  <2>3. Argued(b, n + 1, n + 1)
    BY <1>1, <1>3, <1>7, <1>8 DEF Argued
  <2> QED
    BY <2>1, <2>2, <2>3 DEF StageOK
<1>14. ASSUME NEW k \in 1..n, k # n PROVE StageOK(procs[k], k, n + 1)
  <2>1. StageOK(procs[k], k, n)
    BY <1>p, StagesOKEach DEF Stages, n
  <2>2. k < n /\ k < n + 1 /\ k # n + 1
    BY <1>1, <1>14
  <2>3. procs[k].pc \notin SetupPcs
    BY <2>1, <1>14 DEF StageOK, Placed
  <2>4. Placed(procs[k], k, n + 1)
    BY <2>1, <2>2, <2>3 DEF StageOK, Placed
  <2>5. Wired(procs[k], k, n + 1)
    BY <2>1, <2>2 DEF StageOK, Wired
  <2>6. Argued(procs[k], k, n + 1)
    BY <2>1, <2>2 DEF StageOK, Argued
  <2> QED
    BY <2>4, <2>5, <2>6 DEF StageOK
<1>15. StagesOK'
  <2>1. ASSUME NEW k \in 1..(n + 1) PROVE StageOK(procs[k], k, Len(procs))'
    <3>1. k = n + 1 \/ (k \in 1..n /\ k # n + 1)
      BY <1>1
    <3>2. StageOK(procs'[k], k, n + 1)
      BY <1>9, <1>12, <1>13, <1>14, <3>1
    <3>3. StageOK(procs'[k], k, Len(procs'))
      BY <1>9, <3>2
    <3> QED
      BY <1>2, <3>3, StageOKSame
  <2> QED
    BY <1>9, <2>1 DEF StagesOK, StageOK, Stages
<1>16. Redirected'
  <2>1. 1 \in 1..n /\ n \in 1..n /\ 1 \in 1..(n + 1) /\ n + 1 \in 1..(n + 1) /\ n + 1 # n /\ 1 # n + 1
    BY <1>1
  <2>2. procs'[1].in = procs[1].in /\ procs'[n + 1].out = procs[n].out
    <3>1. procs'[n + 1] = b
      BY <1>9, <2>1
    <3>2. procs'[1] = IF n = 1 THEN a ELSE procs[1]
      BY <1>9, <2>1
    <3> QED
      BY <1>3, <1>6, <1>7, <3>1, <3>2
  <2>3. ASSUME NEW k \in 1..(n + 1)
        PROVE  \E j \in 1..n : \A t : Has(procs'[k].argv, t) => Has(procs[j].argv, t)
    <3>1. k = n + 1 \/ k = n \/ (k \in 1..n /\ k # n /\ k # n + 1)
      BY <1>1
    <3>2. CASE k = n + 1
      <4>1. procs'[k] = b
        BY <1>9, <2>1, <3>2
      <4> QED
        BY <1>3, <1>5, <1>7, <2>1, <4>1
    <3>3. CASE k = n
      <4>1. procs'[k] = a
        BY <1>9, <2>1, <3>3
      <4> QED
        BY <1>3, <1>5, <1>6, <2>1, <4>1
    <3>4. CASE k \in 1..n /\ k # n /\ k # n + 1
      <4>1. procs'[k] = procs[k]
        BY <1>9, <3>4
      <4> QED
        BY <3>4, <4>1
    <3> QED
      BY <3>1, <3>2, <3>3, <3>4
  <2>4. ASSUME NEW j \in 1..n
        PROVE  /\ procs[1].in = File => ~ Has(procs[j].argv, "<")
               /\ procs[n].out = File => ~ Has(procs[j].argv, ">")
    BY <1>p DEF Redirected, Stages, n
  <2>5. ASSUME NEW k \in 1..(n + 1)
        PROVE  /\ procs'[1].in = File => ~ Has(procs'[k].argv, "<")
               /\ procs'[n + 1].out = File => ~ Has(procs'[k].argv, ">")
    BY <2>2, <2>3, <2>4
  <2> QED
    BY <1>9, <2>5 DEF Redirected, Stages, Has
<1> QED
  BY <1>10, <1>11, <1>15, <1>16 DEF ShellInv

-----------------------------------------------------------------------------
(* The shell, and the theorem. *)

\* The child of the shell has the whole line.
LEMMA RunCommandKeeps ==
  ASSUME ShellInv, RunCommand
  PROVE  ShellInv'
<1> DEFINE s == [pc |-> IF shell = "hw3" THEN "execvp" ELSE "redirect_in", argv |-> line,
                 in |-> Terminal, out |-> Terminal, fds |-> {}, kind |-> "none"]
<1>1. line \in Seq(Tokens) /\ line' = line /\ shell' = shell /\ procs' = <<s>> /\ spc' # "run_command"
  BY DEF ShellInv, ShellTypeOK, RunCommand
<1>2. Terminal \in Ends /\ Terminal # File
  BY DEF Terminal, File, Ends
<1>3. /\ s \in Stage /\ s.pc \in {"execvp", "redirect_in"} /\ s.argv = line /\ s.in = Terminal
      /\ s.out = Terminal /\ s.fds = {} /\ (s.pc = "execvp" => shell # "hw5")
  BY <1>1, <1>2 DEF Stage, SetupPcs, LeftPcs
<1> HIDE DEF s
<1>4. procs' \in Seq(Stage) /\ Len(procs') = 1 /\ procs'[1] = s
  BY <1>1, <1>3
<1>5. IsRest(line, 1)
  <2>1. Len(line) \in Nat /\ SubSeq(line, 1, Len(line)) = line
    BY <1>1, LenProperties, SubSeqFull
  <2>2. Pipes(0) = {}
    BY DEF Pipes
  <2>3. 0 \in 0..Len(line) /\ IsCut(0) /\ Cardinality(Pipes(0)) = 1 - 1 /\ line = SubSeq(line, 0 + 1, Len(line))
    BY <2>1, <2>2, FS_EmptySet DEF IsCut
  <2> QED
    BY <2>3 DEF IsRest
<1>6. StageOK(s, 1, 1)
  <2>1. Placed(s, 1, 1)
    BY <1>3 DEF Placed, SetupPcs, LeftPcs
  <2>2. Wired(s, 1, 1)
    BY <1>3 DEF Wired, HeldAt
  <2>3. Argued(s, 1, 1)
    BY <1>3, <1>5 DEF Argued
  <2> QED
    BY <2>1, <2>2, <2>3 DEF StageOK
<1>7. StagesOK'
  <2>1. ASSUME NEW k \in 1..1 PROVE StageOK(procs[k], k, Len(procs))'
    <3>1. StageOK(procs'[k], k, Len(procs'))
      BY <1>4, <1>6
    <3> QED
      BY <1>1, <3>1, StageOKSame
  <2> QED
    BY <1>4, <2>1 DEF StagesOK, StageOK, Stages
<1>8. Redirected'
  BY <1>2, <1>3, <1>4 DEF Redirected, Stages
<1>9. ShellTypeOK' /\ ShellStarted'
  BY <1>1, <1>4 DEF ShellTypeOK, ShellStarted
<1> QED
  BY <1>7, <1>8, <1>9 DEF ShellInv

\* The other steps of the shell do not touch the stages.
LEMMA ShellAlone ==
  ASSUME ShellInv, UNCHANGED <<shell, line, procs>>, spc' = spc \/ spc' # "run_command"
  PROVE  ShellInv'
<1>1. ShellTypeOK' /\ ShellStarted'
  BY DEF ShellInv, ShellTypeOK, ShellStarted
<1>2. StagesOK'
  <2>1. ASSUME NEW k \in Stages PROVE StageOK(procs[k], k, Len(procs))'
    <3>1. StageOK(procs'[k], k, Len(procs'))
      BY StagesOKEach DEF ShellInv
    <3> QED
      BY <3>1, StageOKSame
  <2> QED
    BY <2>1 DEF StagesOK, StageOK, Stages
<1>3. Redirected'
  BY DEF ShellInv, Redirected, Stages, Has
<1> QED
  BY <1>1, <1>2, <1>3 DEF ShellInv

LEMMA ShellInvNext == ShellInv /\ [ShellNext]_shellVars => ShellInv'
<1> SUFFICES ASSUME ShellInv, [ShellNext]_shellVars PROVE ShellInv'
  OBVIOUS
<1>1. CASE UNCHANGED shellVars
  BY <1>1, ShellAlone DEF shellVars
<1>2. CASE RunCommand
  BY <1>2, RunCommandKeeps
<1>3. CASE ShellForkFails
  BY <1>3, ShellAlone DEF ShellForkFails
<1>4. CASE Wait
  BY <1>4, ShellAlone DEF Wait
<1>5. CASE Waitpid
  BY <1>5, ShellAlone DEF Waitpid
<1>6. CASE OlderEnds
  BY <1>6, ShellAlone DEF OlderEnds
<1>7. ASSUME NEW p \in Stages, StageStep(p) \/ CommandEnds(p) PROVE ShellInv'
  <2>1. CASE Execvp(p)
    BY <2>1, ExecKeeps DEF Execvp
  <2>2. CASE RedirectIn(p)
    BY <2>2, RedirectInKeeps
  <2>3. CASE RedirectOut(p)
    BY <2>3, RedirectOutKeeps
  <2>4. CASE MissingCommand(p)
    <3>1. Step(p, "pipe_and_exec", Exited(procs[p]))
      BY <2>4 DEF MissingCommand
    <3> QED
      BY <3>1, ExitKeeps
  <2>5. CASE ExecWhole(p)
    BY <2>5, ExecKeeps DEF ExecWhole
  <2>6. CASE CreatePipe(p)
    BY <2>6, CreatePipeKeeps
  <2>7. CASE Fork(p)
    BY <2>7, ForkKeeps
  <2>8. CASE ForkFails(p)
    BY <2>8, ExitKeeps DEF ForkFails
  <2>9. CASE CloseRead(p)
    BY <2>9, CloseReadKeeps
  <2>10. CASE DupOut(p)
    BY <2>10, DupOutKeeps
  <2>11. CASE CloseWrite(p)
    BY <2>11, CloseWriteKeeps
  <2>12. CASE ExecLeft(p)
    BY <2>12, ExecKeeps DEF ExecLeft
  <2>13. CASE ChildCloseWrite(p)
    BY <2>13, ChildCloseWriteKeeps
  <2>14. CASE ChildDupIn(p)
    BY <2>14, ChildDupInKeeps
  <2>15. CASE ChildCloseRead(p)
    BY <2>15, ChildCloseReadKeeps
  <2>16. CASE EndOfInput(p)
    BY <2>16, ExitKeeps DEF EndOfInput
  <2>17. CASE Sigpipe(p)
    BY <2>17, ExitKeeps DEF Sigpipe
  <2>18. CASE CommandEnds(p)
    BY <2>18, ExitKeeps DEF CommandEnds
  <2> QED
    BY <1>7, <2>1, <2>2, <2>3, <2>4, <2>5, <2>6, <2>7, <2>8, <2>9, <2>10, <2>11, <2>12, <2>13,
       <2>14, <2>15, <2>16, <2>17, <2>18 DEF StageStep
<1> QED
  BY <1>1, <1>2, <1>3, <1>4, <1>5, <1>6, <1>7 DEF ShellNext, ShellStep

LEMMA ShellInvInit == ShellInit => ShellInv
<1> SUFFICES ASSUME ShellInit PROVE ShellInv
  OBVIOUS
<1>1. procs \in Seq(Stage) /\ Len(procs) = 0
  BY EmptySeq DEF ShellInit
<1>2. line \in Seq(Tokens)
  BY LinesAssumption DEF ShellInit
<1>3. Stages = {}
  BY <1>1 DEF Stages
<1> QED
  BY <1>1, <1>2, <1>3 DEF ShellInit, ShellInv, ShellTypeOK, ShellStarted, StagesOK, Redirected

LEMMA ShellInvWired == ShellInv => StagesWired
<1> SUFFICES ASSUME ShellInv, NEW p \in Stages, Running(p)
             PROVE  /\ procs[p].fds = {}
                    /\ IF p = 1 THEN procs[p].in \in {Terminal, File} ELSE procs[p].in = ReadEnd(p - 1)
                    /\ IF p < Len(procs) THEN procs[p].out = WriteEnd(p) ELSE procs[p].out \in {Terminal, File}
                    /\ shell = "hw5" /\ ~ Has(line, "<") /\ ~ Has(line, ">") /\ ~ Has(line, "&") =>
                         IsSegment(procs[p].argv, p) /\ procs[p].argv # <<>>
                    /\ procs[1].in = File => ~ Has(procs[p].argv, "<")
                    /\ procs[Len(procs)].out = File => ~ Has(procs[p].argv, ">")
  BY DEF StagesWired
<1> DEFINE r == procs[p]
           n == Len(procs)
<1>1. r \in Stage /\ StageOK(r, p, n) /\ n \in Nat /\ p \in 1..n /\ line \in Seq(Tokens)
  BY StageAt
<1>2. r.pc = "running"
  BY DEF Running
<1>3. /\ procs[1].in = File => ~ Has(procs[p].argv, "<")
      /\ procs[n].out = File => ~ Has(procs[p].argv, ">")
  BY DEF ShellInv, Redirected
<1>4. r.argv \in Seq(Tokens)
  BY <1>1 DEF Stage
<1> HIDE DEF r, n
<1>5. r.fds = {}
  BY <1>1, <1>2 DEF StageOK, Wired, HeldAt
<1>6. /\ IF p = 1 THEN r.in \in {Terminal, File} ELSE r.in = ReadEnd(p - 1)
      /\ IF p < n THEN r.out = WriteEnd(p) ELSE r.out \in {Terminal, File}
  BY <1>1, <1>2 DEF StageOK, Wired
<1>7. ASSUME Plain PROVE IsSegment(r.argv, p) /\ r.argv # <<>>
  <2>1. p < n \/ p = n
    BY <1>1
  <2>2. p = n => IsSegment(r.argv, p)
    <3>1. p = n => IsRest(r.argv, p) /\ ~ Has(r.argv, "|")
      BY <1>1, <1>2, <1>7 DEF StageOK, Argued
    <3> QED
      BY <1>1, <1>4, <3>1, RestIsSegment
  <2> QED
    BY <1>1, <1>2, <1>7, <2>1, <2>2 DEF StageOK, Argued
<1> QED
  BY <1>3, <1>5, <1>6, <1>7 DEF r, n, Plain

\* Every running command is wired to its neighbours, holds no other pipe end
\* and, on a line of words and pipes, has exactly its part of the line as its
\* arguments, for every set of lines of any length and any order of the steps of the stages: what
\* pipe_and_exec() does with pipe(), fork(), dup2() and close().
THEOREM PipelineWired == ShellSpec => []StagesWired
<1>1. ShellInit => ShellInv
  BY ShellInvInit
<1>2. ShellInv /\ [ShellNext]_shellVars => ShellInv'
  BY ShellInvNext
<1>3. ShellInv => StagesWired
  BY ShellInvWired
<1> QED
  BY <1>1, <1>2, <1>3, PTL DEF ShellSpec

=============================================================================
