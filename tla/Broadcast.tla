----------------------------- MODULE Broadcast ------------------------------
(***************************************************************************)
(* homework/hw10/program.c, and its variant test/program.c: a parent sends *)
(* M messages in batches of at most B to N children.  A batch is put into  *)
(* a shared buffer, its size into shared_count[1], and every child is told *)
(* by SIGUSR1; the handler prints the batch and adds its size to           *)
(* shared_count[0].  Nothing but a short sleep lets the children keep up:  *)
(* signals are merged, the buffer is overwritten under a running handler   *)
(* and the additions of two children interleave.  At the end the children  *)
(* are stopped with SIGTERM and the loss rate is computed.                 *)
(*                                                                         *)
(* A text is cut into Parts, and a part is the number of the message it    *)
(* comes from.  strcpy() stores the parts of a cell one by one, printf()   *)
(* loads them one by one, each in any order: a child may print a text of   *)
(* which some parts are of an earlier and some of a later message.         *)
(***************************************************************************)
EXTENDS Integers, FiniteSets

CONSTANTS
    M,         \* messages
    N,         \* children
    B,         \* cells of the buffer
    Parts      \* pieces of a text, as they are moved

ASSUME ArgumentsAssumption == M \in Nat \ {0} /\ N \in Nat \ {0} /\ B \in Nat \ {0}
ASSUME PartsAssumption == Parts # {}

VARIABLES
    program,      \* "hw10" or "test": they stop the children differently
    ppc,          \* where the parent is
    i,            \* the parent's loop variable, over cells or children
    num_of_data,  \* messages put into the buffer by earlier batches
    batch_size,   \* size of the parent's current batch
    copied,       \* parts of cell i that strcpy() has stored
    addr,         \* the shared buffer
    received,     \* shared_count[0]
    num_batch,    \* shared_count[1]
    cpc,          \* where each child is
    usr1, term,   \* children for which SIGUSR1, SIGTERM is pending
    local,        \* each handler's num_batch, loop variable and copy of shared_count[0]
    text          \* what each printf() has loaded of cell j

vars == <<program, ppc, i, num_of_data, batch_size, copied, addr, received,
          num_batch, cpc, usr1, term, local, text>>
parentVars == <<program, ppc, i, num_of_data, batch_size, copied, addr, num_batch>>
childVars == <<received, cpc, local, text>>

Children == 1..N
Cells == 0..(B - 1)
NoMessage == -1
Unread == -2
NothingRead == [p \in Parts |-> Unread]

Init ==
    /\ program \in {"hw10", "test"}
    /\ ppc = "fork" /\ i = 1
    /\ num_of_data = 0 /\ batch_size = 0
    /\ copied = {}
    /\ addr = [j \in Cells |-> [p \in Parts |-> NoMessage]]
    /\ received = 0 /\ num_batch = B
    /\ cpc = [c \in Children |-> "unborn"]
    /\ usr1 = {} /\ term = {}
    /\ local = [c \in Children |-> [n |-> 0, j |-> 0, copy |-> 0]]
    /\ text = [c \in Children |-> NothingRead]

-----------------------------------------------------------------------------
(* The parent. *)

\* The handlers are installed before the first fork(), so every child has them.
Fork ==
    /\ ppc = "fork"
    /\ cpc' = [cpc EXCEPT ![i] = "pause"]
    /\ i' = i + 1
    /\ ppc' = IF i = N THEN "batch" ELSE "fork"
    /\ UNCHANGED <<program, num_of_data, batch_size, copied, addr, received, num_batch, usr1, term, local, text>>

\* perror("fork"); exit(1): the children forked so far are left behind.
ForkFails ==
    /\ ppc = "fork"
    /\ ppc' = "failed"
    /\ UNCHANGED <<program, i, num_of_data, batch_size, copied, addr, num_batch, childVars, usr1, term>>

\* Mistake: shared_count[1] is not set for a short batch.
BatchSizeKept ==
    /\ ppc = "batch"
    /\ num_of_data < M
    /\ batch_size' = IF M - num_of_data > B THEN B ELSE M - num_of_data
    /\ ppc' = "copy" /\ i' = 0
    /\ UNCHANGED <<program, num_of_data, copied, addr, num_batch, childVars, usr1, term>>

\* while (num_of_data < M): the size of the next batch.
Batch ==
    /\ ppc = "batch"
    /\ num_of_data < M
    /\ batch_size' = IF M - num_of_data > B THEN B ELSE M - num_of_data
    /\ num_batch' = IF batch_size' < B THEN batch_size' ELSE num_batch
    /\ ppc' = "copy" /\ i' = 0
    /\ UNCHANGED <<program, num_of_data, copied, addr, childVars, usr1, term>>

\* strcpy(addr[j].message, data[num_of_data + j].message): one part of it.
Copy(p) ==
    /\ ppc = "copy"
    /\ i < batch_size
    /\ p \notin copied
    /\ addr' = [addr EXCEPT ![i] = [@ EXCEPT ![p] = num_of_data + i]]
    /\ IF copied \union {p} = Parts
       THEN copied' = {} /\ i' = i + 1
       ELSE copied' = copied \union {p} /\ UNCHANGED i
    /\ UNCHANGED <<program, ppc, num_of_data, batch_size, num_batch, childVars, usr1, term>>

\* Mistake: the copy loop stops one message early.
EndCopyShort ==
    /\ ppc = "copy"
    /\ i = batch_size - 1
    /\ num_of_data' = num_of_data + batch_size
    /\ ppc' = "tell" /\ i' = 1 /\ copied' = {}
    /\ UNCHANGED <<program, batch_size, addr, num_batch, childVars, usr1, term>>

EndCopy ==
    /\ ppc = "copy"
    /\ i = batch_size
    /\ num_of_data' = num_of_data + batch_size
    /\ ppc' = "tell" /\ i' = 1
    /\ UNCHANGED <<program, batch_size, copied, addr, num_batch, childVars, usr1, term>>

\* kill(pids[i], SIGUSR1): merged with a SIGUSR1 that is still pending.
Tell ==
    /\ ppc = "tell"
    /\ usr1' = usr1 \union {i}
    /\ i' = i + 1
    /\ ppc' = IF i = N THEN "batch" ELSE "tell"
    /\ UNCHANGED <<program, num_of_data, batch_size, copied, addr, num_batch, childVars, term>>

EndOfData ==
    /\ ppc = "batch"
    /\ num_of_data >= M
    /\ ppc' = "term" /\ i' = 1
    /\ UNCHANGED <<program, num_of_data, batch_size, copied, addr, num_batch, childVars, usr1, term>>

\* kill(pids[i], SIGTERM): then wait for that child (hw10), or go on with the
\* next one and wait for all of them afterwards (test).
Term ==
    /\ ppc = "term"
    /\ term' = term \union {i}
    /\ IF program = "hw10"
       THEN ppc' = "wait" /\ UNCHANGED i
       ELSE IF i = N THEN ppc' = "wait" /\ i' = 1 ELSE i' = i + 1 /\ UNCHANGED ppc
    /\ UNCHANGED <<program, num_of_data, batch_size, copied, addr, num_batch, childVars, usr1>>

\* Mistake: no waitpid().
WaitOmitted ==
    /\ ppc = "wait"
    /\ ppc' = IF i = N THEN "stats" ELSE IF program = "hw10" THEN "term" ELSE "wait"
    /\ i' = i + 1
    /\ UNCHANGED <<program, num_of_data, batch_size, copied, addr, num_batch, childVars, usr1, term>>

\* waitpid(pids[i], &status, 0)
Wait ==
    /\ ppc = "wait"
    /\ cpc[i] = "exited"
    /\ ppc' = IF i = N THEN "stats" ELSE IF program = "hw10" THEN "term" ELSE "wait"
    /\ i' = i + 1
    /\ UNCHANGED <<program, num_of_data, batch_size, copied, addr, num_batch, childVars, usr1, term>>

-----------------------------------------------------------------------------
(* A child: pause() in a loop, and the two handlers. *)

\* SIGUSR1 is text; it is blocked until the handler returns.
HandlerStart(c) ==
    /\ cpc[c] = "pause"
    /\ c \in usr1
    /\ usr1' = usr1 \ {c}
    /\ local' = [local EXCEPT ![c] = [n |-> num_batch, j |-> 0, copy |-> 0]]
    /\ cpc' = [cpc EXCEPT ![c] = "print"]
    /\ UNCHANGED <<parentVars, received, term, text>>

\* printf("%d -> Data: %s\n", pid, addr[i].message): it loads one part.
HandlerRead(c, p) ==
    /\ cpc[c] = "print"
    /\ local[c].j < local[c].n
    /\ text[c][p] = Unread
    /\ text' = [text EXCEPT ![c] = [@ EXCEPT ![p] = addr[local[c].j][p]]]
    /\ UNCHANGED <<parentVars, received, cpc, local, usr1, term>>

\* It has the whole text and prints it.
HandlerPrint(c) ==
    /\ cpc[c] = "print"
    /\ local[c].j < local[c].n
    /\ \A p \in Parts : text[c][p] # Unread
    /\ local' = [local EXCEPT ![c].j = @ + 1]
    /\ text' = [text EXCEPT ![c] = NothingRead]
    /\ UNCHANGED <<parentVars, received, cpc, usr1, term>>

\* shared_count[0] += count is a load and a store.
HandlerLoad(c) ==
    /\ cpc[c] = "print"
    /\ local[c].j = local[c].n
    /\ local' = [local EXCEPT ![c].copy = received]
    /\ cpc' = [cpc EXCEPT ![c] = "store"]
    /\ UNCHANGED <<parentVars, received, usr1, term, text>>

HandlerStore(c) ==
    /\ cpc[c] = "store"
    /\ received' = local[c].copy + local[c].j
    /\ cpc' = [cpc EXCEPT ![c] = "pause"]
    /\ UNCHANGED <<parentVars, local, usr1, term, text>>

\* Mistake: the handler of SIGTERM returns.
ExitHandlerReturns(c) ==
    /\ cpc[c] \in {"pause", "print", "store"}
    /\ c \in term
    /\ term' = term \ {c}
    /\ UNCHANGED <<parentVars, childVars, usr1>>

\* SIGTERM may interrupt the other handler anywhere, and run before a pending
\* SIGUSR1: exit(0).
ExitHandler(c) ==
    /\ cpc[c] \in {"pause", "print", "store"}
    /\ c \in term
    /\ term' = term \ {c}
    /\ cpc' = [cpc EXCEPT ![c] = "exited"]
    /\ UNCHANGED <<parentVars, received, local, usr1, text>>

-----------------------------------------------------------------------------

ParentStep ==
    \/ Fork \/ ForkFails \/ Batch \/ (\E p \in Parts : Copy(p)) \/ EndCopy \/ Tell \/ EndOfData
    \/ Term \/ Wait

ChildStep(c) ==
    \/ HandlerStart(c) \/ (\E p \in Parts : HandlerRead(c, p)) \/ HandlerPrint(c)
    \/ HandlerLoad(c) \/ HandlerStore(c)
    \/ ExitHandler(c)

\* The parent has printed its statistics, or could not fork and left its
\* children in pause().
Terminating == ppc \in {"stats", "failed"} /\ UNCHANGED vars

Next == ParentStep \/ (\E c \in Children : ChildStep(c)) \/ Terminating

\* Parent and children are scheduled; usleep() is not a guarantee of anything.
Spec ==
    /\ Init /\ [][Next]_vars
    /\ WF_vars(ParentStep) /\ \A c \in Children : WF_vars(ChildStep(c))

-----------------------------------------------------------------------------
(* Properties. *)

\* lossRate is never negative: whatever is merged, overwritten or added twice,
\* the children together never count more than the M * N messages sent.
LossRateNotNegative == received <= M * N

\* The messages that strcpy() has put, or begun to put, into the buffer.
Begun == IF ppc = "copy" THEN num_of_data + batch_size ELSE num_of_data

\* Message m has been sent through cell j: every B-th message is.
SentThrough(j, m) == m < Begun /\ \E k \in 0..M : m = k * B + j

\* However the refilling of the buffer overlaps a handler that prints it, each
\* part of what the handler has read of a cell comes from a message sent
\* through that cell, never from a cell that no batch has filled.  The parts
\* need not all come from the same message.
OnlySentMessages ==
    \A c \in Children, p \in Parts :
        text[c][p] # Unread => SentThrough(local[c].j, text[c][p])

\* When the statistics are computed every child has been reaped, so
\* shared_count[0] is final.
FinalCountStable == [][ppc = "stats" => received' = received]_vars

\* The parent reaches its statistics, unless fork() failed.
ParentFinishes == <>(ppc \in {"stats", "failed"})

=============================================================================
