----------------------------- MODULE SvshmXfer ------------------------------
(***************************************************************************)
(* quiz/quiz4/pre_code: the transfer of stdin through a System V shared    *)
(* memory segment, 48-2.c (writer) and 48-3.c (reader), with the binary    *)
(* semaphores of binary_sems.c.  WRITE_SEM and READ_SEM pass one turn to   *)
(* and fro; the writer removes the IPC objects once it has had the turn    *)
(* back after end of file.                                                 *)
(*                                                                         *)
(* The data is abstracted to which block of stdin it is: the i-th read()   *)
(* of the writer puts i into the segment, 0 (cnt = 0) at end of file and   *)
(* -1 (cnt = -1) when it fails.                                            *)
(*                                                                         *)
(* Every call that can fail for a reason outside the two programs may      *)
(* fail: errExit() and fatal() then end the process where it is, without   *)
(* a semop(), and the semaphores have no SEM_UNDO.                         *)
(***************************************************************************)
EXTENDS Integers, Sequences

CONSTANT MaxBlocks      \* largest number of non-empty blocks on stdin

ASSUME MaxBlocksAssumption == MaxBlocks \in Nat

VARIABLES
    numBlocks,   \* blocks on the writer's stdin
    wpc, rpc,    \* where the writer and the reader are
    sem,         \* values of the two semaphores
    semSet,      \* does the semaphore set exist
    segment,     \* does the shared memory segment exist
    shm,         \* the segment: cnt if that is 0 or -1, else the number of the block
    taken,       \* blocks the writer has read from stdin
    wxfrs,       \* xfrs of the writer
    rxfrs,       \* xfrs of the reader
    output       \* blocks the reader has written to stdout

xferVars == <<numBlocks, wpc, rpc, sem, semSet, segment, shm, taken, wxfrs, rxfrs, output>>
ipcVars == <<sem, semSet, segment, shm>>
readerVars == <<rpc, rxfrs, output>>
writerVars == <<wpc, taken, wxfrs>>

Sems == {"WRITE_SEM", "READ_SEM"}

XferInit ==
    /\ numBlocks \in 0..MaxBlocks
    /\ wpc = "semget" /\ rpc = "semget"
    /\ sem = [s \in Sems |-> 0]
    /\ semSet = FALSE /\ segment = FALSE
    /\ shm = 0                     \* a new segment is zeroed
    /\ taken = 0 /\ wxfrs = 0 /\ rxfrs = 0
    /\ output = <<>>

-----------------------------------------------------------------------------
(* binary_sems.c.  EINTR is retried, so only a removed set is an error; that *)
(* it never happens here is what RemovedAfterReader says.                    *)

InitSem(s, v) == sem' = [sem EXCEPT ![s] = v]
ReserveSem(s) == semSet /\ sem[s] > 0 /\ sem' = [sem EXCEPT ![s] = @ - 1]
ReleaseSem(s) == semSet /\ sem' = [sem EXCEPT ![s] = @ + 1]

-----------------------------------------------------------------------------
(* The writer. *)

WSemget ==
    /\ wpc = "semget"
    /\ semSet' = TRUE
    /\ wpc' = "initWrite"
    /\ UNCHANGED <<numBlocks, readerVars, sem, segment, shm, taken, wxfrs>>

WInitWrite ==
    /\ wpc = "initWrite"
    /\ InitSem("WRITE_SEM", 1)
    /\ wpc' = "initRead"
    /\ UNCHANGED <<numBlocks, readerVars, semSet, segment, shm, taken, wxfrs>>

\* Mistake: READ_SEM is initialized as available.
WInitReadAvailable ==
    /\ wpc = "initRead"
    /\ InitSem("READ_SEM", 1)
    /\ wpc' = "shmget"
    /\ UNCHANGED <<numBlocks, readerVars, semSet, segment, shm, taken, wxfrs>>

WInitRead ==
    /\ wpc = "initRead"
    /\ InitSem("READ_SEM", 0)
    /\ wpc' = "shmget"
    /\ UNCHANGED <<numBlocks, readerVars, semSet, segment, shm, taken, wxfrs>>

\* shmget and shmat
WShmget ==
    /\ wpc = "shmget"
    /\ segment' = TRUE
    /\ wpc' = "reserve"
    /\ UNCHANGED <<numBlocks, readerVars, sem, semSet, shm, taken, wxfrs>>

WReserve ==
    /\ wpc = "reserve"
    /\ ReserveSem("WRITE_SEM")
    /\ wpc' = "read"
    /\ UNCHANGED <<numBlocks, readerVars, semSet, segment, shm, taken, wxfrs>>

\* errExit() while the objects are made.  When it is shmat() that fails the
\* segment is there already.
WSetupFails ==
    /\ wpc \in {"semget", "initWrite", "initRead", "shmget"}
    /\ segment' \in {segment, wpc = "shmget"}
    /\ wpc' = "died"
    /\ UNCHANGED <<numBlocks, readerVars, sem, semSet, shm, taken, wxfrs>>

\* shmp->cnt = read(STDIN_FILENO, shmp->buf, BUF_SIZE)
WRead ==
    /\ wpc = "read"
    /\ taken' = IF taken < numBlocks THEN taken + 1 ELSE taken
    /\ shm' = IF taken < numBlocks THEN taken + 1 ELSE 0
    /\ wpc' = "release"
    /\ UNCHANGED <<numBlocks, readerVars, sem, semSet, segment, wxfrs>>

\* errExit("read"): the turn dies with the writer.
WReadFails ==
    /\ wpc = "read"
    /\ shm' = -1
    /\ wpc' = "died"
    /\ UNCHANGED <<numBlocks, readerVars, sem, semSet, segment, taken, wxfrs>>

WRelease ==
    /\ wpc = "release"
    /\ ReleaseSem("READ_SEM")
    /\ wpc' = "eof"
    /\ UNCHANGED <<numBlocks, readerVars, semSet, segment, shm, taken, wxfrs>>

\* The test for end of file, made after the reader has its turn, and the
\* increment of xfrs.
WEofTest ==
    /\ wpc = "eof"
    /\ wpc' = IF shm = 0 THEN "reserveLast" ELSE "reserve"
    /\ wxfrs' = IF shm = 0 THEN wxfrs ELSE wxfrs + 1
    /\ UNCHANGED <<numBlocks, readerVars, ipcVars, taken>>

\* Mistake: the writer does not wait for one more turn.
WReserveLastOmitted ==
    /\ wpc = "reserveLast"
    /\ wpc' = "semRmid"
    /\ UNCHANGED <<numBlocks, readerVars, ipcVars, taken, wxfrs>>

WReserveLast ==
    /\ wpc = "reserveLast"
    /\ ReserveSem("WRITE_SEM")
    /\ wpc' = "semRmid"
    /\ UNCHANGED <<numBlocks, readerVars, semSet, segment, shm, taken, wxfrs>>

WSemRmid ==
    /\ wpc = "semRmid"
    /\ semSet' = FALSE
    /\ wpc' = "shmRmid"
    /\ UNCHANGED <<numBlocks, readerVars, sem, segment, shm, taken, wxfrs>>

\* shmdt and shmctl(IPC_RMID)
WShmRmid ==
    /\ wpc = "shmRmid"
    /\ segment' = FALSE
    /\ wpc' = "exited"
    /\ UNCHANGED <<numBlocks, readerVars, sem, semSet, shm, taken, wxfrs>>

-----------------------------------------------------------------------------
(* The reader.  It fails when the objects do not exist; it may be run again. *)
(* (One run after a reader that died with the turn would wait for ever.)     *)

RSemget ==
    /\ rpc = "semget"
    /\ rpc' = IF semSet THEN "shmget" ELSE "failed"
    /\ UNCHANGED <<numBlocks, writerVars, ipcVars, rxfrs, output>>

\* shmget and shmat
RShmget ==
    /\ rpc = "shmget"
    /\ rpc' = IF segment THEN "reserve" ELSE "failed"
    /\ UNCHANGED <<numBlocks, writerVars, ipcVars, rxfrs, output>>

RRunAgain ==
    /\ rpc = "failed"
    /\ rpc' = "semget"
    /\ UNCHANGED <<numBlocks, writerVars, ipcVars, rxfrs, output>>

RReserve ==
    /\ rpc = "reserve"
    /\ ReserveSem("READ_SEM")
    /\ rpc' = "test"
    /\ UNCHANGED <<numBlocks, writerVars, semSet, segment, shm, rxfrs, output>>

\* Mistake: the turn is given back before the block is written out.
REofTestEarlyRelease ==
    /\ rpc = "test"
    /\ IF shm = 0
       THEN rpc' = "shmdt" /\ UNCHANGED sem
       ELSE rpc' = "write" /\ ReleaseSem("WRITE_SEM")
    /\ UNCHANGED <<numBlocks, writerVars, semSet, segment, shm, rxfrs, output>>

\* if (shmp->cnt == 0) break;
REofTest ==
    /\ rpc = "test"
    /\ rpc' = IF shm = 0 THEN "shmdt" ELSE "write"
    /\ UNCHANGED <<numBlocks, writerVars, ipcVars, rxfrs, output>>

RWrite ==
    /\ rpc = "write"
    /\ output' = Append(output, shm)
    /\ rpc' = "release"
    /\ UNCHANGED <<numBlocks, writerVars, ipcVars, rxfrs>>

\* fatal("partial/failed write"): the turn dies with the reader.  What a
\* partial write did put out is not counted as a block.
RWriteFails ==
    /\ rpc = "write"
    /\ rpc' = "died"
    /\ UNCHANGED <<numBlocks, writerVars, ipcVars, rxfrs, output>>

RRelease ==
    /\ rpc = "release"
    /\ ReleaseSem("WRITE_SEM")
    /\ rxfrs' = rxfrs + 1
    /\ rpc' = "reserve"
    /\ UNCHANGED <<numBlocks, writerVars, semSet, segment, shm, output>>

RShmdt ==
    /\ rpc = "shmdt"
    /\ rpc' = "releaseLast"
    /\ UNCHANGED <<numBlocks, writerVars, ipcVars, rxfrs, output>>

\* Mistake: the reader exits without giving the writer one more turn.
RReleaseLastOmitted ==
    /\ rpc = "releaseLast"
    /\ rpc' = "exited"
    /\ UNCHANGED <<numBlocks, writerVars, ipcVars, rxfrs, output>>

RReleaseLast ==
    /\ rpc = "releaseLast"
    /\ ReleaseSem("WRITE_SEM")
    /\ rpc' = "exited"
    /\ UNCHANGED <<numBlocks, writerVars, semSet, segment, shm, rxfrs, output>>

-----------------------------------------------------------------------------

WriterStep ==
    \/ WSemget \/ WInitWrite \/ WInitRead \/ WShmget
    \/ WReserve \/ WRead \/ WRelease \/ WEofTest
    \/ WReserveLast \/ WSemRmid \/ WShmRmid
    \/ WSetupFails \/ WReadFails

ReaderStep ==
    \/ RSemget \/ RShmget \/ RReserve \/ REofTest \/ RWrite \/ RRelease
    \/ RShmdt \/ RReleaseLast \/ RWriteFails

\* A process died on the way.
Died == wpc = "died" \/ rpc = "died"

\* Both programs have exited and nothing is left to do, or one has died and
\* the other may wait for ever.
XferTerminating == ((wpc = "exited" /\ rpc = "exited") \/ Died) /\ UNCHANGED xferVars

XferNext == WriterStep \/ ReaderStep \/ RRunAgain \/ XferTerminating

\* Both processes are scheduled, and a semop() that can complete does.  The
\* reader need not be run again after it has failed.
XferFairness == WF_xferVars(WriterStep) /\ WF_xferVars(ReaderStep)

XferSpec == XferInit /\ [][XferNext]_xferVars /\ XferFairness

-----------------------------------------------------------------------------
(* Properties. *)

\* Type correctness; the semaphores are binary.
XferTypeOK ==
    /\ numBlocks \in 0..MaxBlocks
    /\ wpc \in {"semget", "initWrite", "initRead", "shmget", "reserve", "read",
                "release", "eof", "reserveLast", "semRmid", "shmRmid", "exited", "died"}
    /\ rpc \in {"semget", "shmget", "failed", "reserve", "test", "write", "release",
                "shmdt", "releaseLast", "exited", "died"}
    /\ sem \in [Sems -> 0..1]
    /\ semSet \in BOOLEAN /\ segment \in BOOLEAN
    /\ shm \in -1..numBlocks /\ taken \in 0..numBlocks
    /\ wxfrs \in Nat /\ rxfrs \in Nat
    /\ output \in Seq(Nat)

\* The writer fills the segment only while the reader is not looking at it.
ExclusiveAccess == ~(wpc = "read" /\ rpc \in {"test", "write"})

\* The reader copies the blocks of stdin in order, none lost, none twice, and
\* once it has seen end of file it has copied them all.
OutputIsInput ==
    /\ \A i \in 1..Len(output) : output[i] = i
    /\ Len(output) <= taken
    /\ rpc \in {"shmdt", "releaseLast", "exited"} => Len(output) = numBlocks

\* "We then know reader has finished, and so we can delete the IPC objects":
\* the writer removes them only when the reader has detached the segment, has
\* made its last semop() and counts as many transfers as the writer does.
RemovedAfterReader ==
    wpc \in {"semRmid", "shmRmid", "exited"} => rpc = "exited" /\ rxfrs = wxfrs

\* Once a reader has attached the segment, both programs finish and the IPC
\* objects are gone, unless an error exit of either took the turn with it:
\* errExit("read") and fatal("partial/failed write") release no semaphore, the
\* other program then waits for ever and the objects stay.
TransferCompletes ==
    (rpc = "reserve") ~>
        \/ wpc = "exited" /\ rpc = "exited" /\ ~semSet /\ ~segment
        \/ Died

=============================================================================
