----------------------------- MODULE FifoSeqnum -----------------------------
(***************************************************************************)
(* The FIFO sequence-number server of homework/hw8/44-6 with its clients:  *)
(* fifo_seqnum_server.c and fifo_seqnum_client.c.  Clients write requests  *)
(* to the server's well-known FIFO; the server answers on a FIFO that the  *)
(* client created, opening it O_NONBLOCK so that a client that does not    *)
(* read cannot hold it up.                                                 *)
(*                                                                         *)
(* The kernel's part (external): an open() of a FIFO joins it as a reader  *)
(* or a writer at once and then blocks until the other side has joined;    *)
(* the bytes of a FIFO live as long as some process has it open; a write   *)
(* with no reader raises SIGPIPE; requests are smaller than PIPE_BUF, so   *)
(* their writes do not interleave.                                         *)
(***************************************************************************)
EXTENDS Integers, Sequences, FiniteSets

CONSTANTS
    Clients,         \* client processes, each run once
    SeqLens,         \* seq-len arguments
    MaxServerKills,  \* how often the server is killed (it never exits itself)
    MaxClientKills   \* how many clients are killed from outside

ASSUME SeqLensPositive == SeqLens \subseteq Nat \ {0}

VARIABLES
    spc,       \* where the server is; "down" when no server runs
    seqNum,    \* the server's counter
    req,       \* the request the server is working on
    epoch,     \* server processes so far: seqNum is not shared between them
    dummyFd,   \* has the server opened its extra write descriptor
    svFifo,    \* does SERVER_FIFO exist
    requests,  \* bytes in SERVER_FIFO: requests not read yet
    cpc,       \* where each client is
    seqLen,    \* each client's argument
    clFifo,    \* does the client's FIFO exist
    answer,    \* bytes in the client's FIFO: responses not read yet
    printed,   \* what each client printed
    grants,    \* history: responses the server produced
    kills      \* history: clients killed from outside

serverVars == <<spc, seqNum, req, epoch, dummyFd, svFifo>>
clientVars == <<cpc, clFifo, printed>>
vars == <<serverVars, clientVars, seqLen, requests, answer, grants, kills>>

NoSeq == -1
NoReq == [client |-> "none", len |-> 0]

\* Which processes have which ends of the FIFOs open, from where they are.
ServerReading == spc \notin {"down", "mkfifo", "openServer"}
Holding(c)    == cpc[c] \in {"openingServer", "write", "openOwn", "openingOwn", "read"}
Holders       == {c \in Clients : Holding(c)}
OwnReading(c) == cpc[c] \in {"openingOwn", "read"}
OwnWriting(c) == spc \in {"write", "close"} /\ req.client = c

Init ==
    /\ spc = "down" /\ seqNum = 0 /\ req = NoReq /\ epoch = 0 /\ dummyFd = FALSE
    /\ svFifo \in BOOLEAN           \* a previous server leaves its FIFO behind
    /\ requests = <<>>
    /\ cpc = [c \in Clients |-> "mkfifo"]
    /\ seqLen \in [Clients -> SeqLens]
    /\ clFifo = [c \in Clients |-> FALSE]
    /\ answer = [c \in Clients |-> <<>>]
    /\ printed = [c \in Clients |-> NoSeq]
    /\ grants = {}
    /\ kills = 0

-----------------------------------------------------------------------------
(* The server. *)

ServerStart ==
    /\ spc = "down"
    /\ epoch <= MaxServerKills
    /\ spc' = "mkfifo"
    /\ UNCHANGED <<seqNum, req, epoch, dummyFd, svFifo, clientVars, seqLen, requests, answer, grants, kills>>

\* mkfifo(SERVER_FIFO); EEXIST is accepted.
ServerMkfifo ==
    /\ spc = "mkfifo"
    /\ svFifo' = TRUE
    /\ spc' = "openServer"
    /\ UNCHANGED <<seqNum, req, epoch, dummyFd, clientVars, seqLen, requests, answer, grants, kills>>

\* open(SERVER_FIFO, O_RDONLY): clients blocked in their open() go on, and the
\* server goes on if there is such a client.
ServerOpen ==
    /\ spc = "openServer"
    /\ spc' = IF Holders # {} THEN "openDummy" ELSE "openingServer"
    /\ cpc' = [c \in Clients |-> IF cpc[c] = "openingServer" THEN "write" ELSE cpc[c]]
    /\ UNCHANGED <<seqNum, req, epoch, dummyFd, svFifo, clFifo, printed, seqLen, requests, answer, grants, kills>>

\* Mistake: no extra write descriptor.
ServerSkipDummy ==
    /\ spc = "openDummy"
    /\ spc' = "read"
    /\ UNCHANGED <<seqNum, req, epoch, dummyFd, svFifo, clientVars, seqLen, requests, answer, grants, kills>>

\* The extra write descriptor (the server's own read end lets it through), and
\* signal(SIGPIPE, SIG_IGN).
ServerOpenDummy ==
    /\ spc = "openDummy"
    /\ dummyFd' = TRUE
    /\ spc' = "read"
    /\ UNCHANGED <<seqNum, req, epoch, svFifo, clientVars, seqLen, requests, answer, grants, kills>>

ServerRead ==
    /\ spc = "read"
    /\ requests # <<>>
    /\ req' = Head(requests)
    /\ requests' = Tail(requests)
    /\ spc' = "openClient"
    /\ UNCHANGED <<seqNum, epoch, dummyFd, svFifo, clientVars, seqLen, answer, grants, kills>>

\* open(clientFifo, O_WRONLY | O_NONBLOCK) with the client reading: a client
\* blocked in its own open() goes on.
ServerOpenClient ==
    /\ spc = "openClient"
    /\ clFifo[req.client] /\ OwnReading(req.client)
    /\ spc' = "write"
    /\ cpc' = [cpc EXCEPT ![req.client] = "read"]
    /\ UNCHANGED <<seqNum, req, epoch, dummyFd, svFifo, clFifo, printed, seqLen, requests, answer, grants, kills>>

\* Mistake: without O_NONBLOCK only a missing FIFO makes the open() fail.
ServerGiveUpBlocking ==
    /\ spc = "openClient"
    /\ ~clFifo[req.client]
    /\ spc' = "read"
    /\ UNCHANGED <<seqNum, req, epoch, dummyFd, svFifo, clientVars, seqLen, requests, answer, grants, kills>>

\* Mistake: no "continue" after a failed open().
ServerGiveUpFallsThrough ==
    /\ spc = "openClient"
    /\ ~(clFifo[req.client] /\ OwnReading(req.client))
    /\ spc' = "read"
    /\ seqNum' = seqNum + req.len
    /\ UNCHANGED <<req, epoch, dummyFd, svFifo, clientVars, seqLen, requests, answer, grants, kills>>

\* ... and with no reader (ENXIO) or no FIFO: give up on the client.
ServerGiveUp ==
    /\ spc = "openClient"
    /\ ~(clFifo[req.client] /\ OwnReading(req.client))
    /\ spc' = "read"
    /\ UNCHANGED <<seqNum, req, epoch, dummyFd, svFifo, clientVars, seqLen, requests, answer, grants, kills>>

\* write(clientFd, &resp).  A client that has gone meanwhile is not noticed
\* (EPIPE is only reported): its numbers are used up all the same.
ServerWrite ==
    /\ spc = "write"
    /\ answer' = [answer EXCEPT ![req.client] =
                     IF OwnReading(req.client) THEN Append(@, seqNum) ELSE @]
    /\ grants' = grants \union {[client |-> req.client, epoch |-> epoch,
                                 first |-> seqNum, len |-> req.len]}
    /\ spc' = "close"
    /\ UNCHANGED <<seqNum, req, epoch, dummyFd, svFifo, clientVars, seqLen, requests, kills>>

\* Mistake: the counter moves by one whatever the length of the sequence.
ServerCloseByOne ==
    /\ spc = "close"
    /\ seqNum' = seqNum + 1
    /\ req' = NoReq
    /\ spc' = "read"
    /\ UNCHANGED <<epoch, dummyFd, svFifo, clientVars, seqLen, requests, answer, grants, kills>>

\* close(clientFd); seqNum += req.seqLen.
ServerClose ==
    /\ spc = "close"
    /\ seqNum' = seqNum + req.len
    /\ req' = NoReq
    /\ spc' = "read"
    /\ UNCHANGED <<epoch, dummyFd, svFifo, clientVars, seqLen, requests, answer, grants, kills>>

\* The server is killed: its descriptors are closed, its counter is gone, and
\* SERVER_FIFO loses its contents unless a client still has it open.
ServerKilled ==
    /\ spc # "down"
    /\ epoch < MaxServerKills
    /\ spc' = "down"
    /\ epoch' = epoch + 1
    /\ seqNum' = 0
    /\ req' = NoReq
    /\ dummyFd' = FALSE
    /\ requests' = IF Holders = {} THEN <<>> ELSE requests
    /\ UNCHANGED <<svFifo, clientVars, seqLen, answer, grants, kills>>

-----------------------------------------------------------------------------
(* A client. *)

\* mkfifo(clientFifo) and atexit(removeFifo).
ClientMkfifo(c) ==
    /\ cpc[c] = "mkfifo"
    /\ clFifo' = [clFifo EXCEPT ![c] = TRUE]
    /\ cpc' = [cpc EXCEPT ![c] = "openServer"]
    /\ UNCHANGED <<serverVars, printed, seqLen, requests, answer, grants, kills>>

\* open(SERVER_FIFO, O_WRONLY): the server blocked in its open() goes on.
ClientOpenServer(c) ==
    /\ cpc[c] = "openServer"
    /\ svFifo
    /\ cpc' = [cpc EXCEPT ![c] = IF ServerReading THEN "write" ELSE "openingServer"]
    /\ spc' = IF spc = "openingServer" THEN "openDummy" ELSE spc
    /\ UNCHANGED <<seqNum, req, epoch, dummyFd, svFifo, clFifo, printed, seqLen, requests, answer, grants, kills>>

\* A process that ends closes its descriptors; a FIFO nobody has open is empty.
Leave(c, how, fifoLeft) ==
    /\ cpc' = [cpc EXCEPT ![c] = how]
    /\ clFifo' = [clFifo EXCEPT ![c] = @ /\ fifoLeft]
    /\ answer' = [answer EXCEPT ![c] = <<>>]
    /\ requests' = IF ~ServerReading /\ Holders \subseteq {c} THEN <<>> ELSE requests
    /\ UNCHANGED <<serverVars, seqLen, grants>>

\* ... errExit() when there is no SERVER_FIFO: atexit removes the client's FIFO.
ClientNoServer(c) ==
    /\ cpc[c] = "openServer"
    /\ ~svFifo
    /\ Leave(c, "failed", FALSE)
    /\ UNCHANGED <<printed, kills>>

\* write(serverFd, &req): SIGPIPE, which the client does not catch, when the
\* server has died meanwhile.
ClientWrite(c) ==
    /\ cpc[c] = "write"
    /\ ServerReading
    /\ requests' = Append(requests, [client |-> c, len |-> seqLen[c]])
    /\ cpc' = [cpc EXCEPT ![c] = "openOwn"]
    /\ UNCHANGED <<serverVars, clFifo, printed, seqLen, answer, grants, kills>>

ClientSigpipe(c) ==
    /\ cpc[c] = "write"
    /\ ~ServerReading
    /\ Leave(c, "killed", TRUE)
    /\ UNCHANGED <<printed, kills>>

\* open(clientFifo, O_RDONLY) blocks until the server has opened it.
ClientOpenOwn(c) ==
    /\ cpc[c] = "openOwn"
    /\ cpc' = [cpc EXCEPT ![c] = "openingOwn"]
    /\ UNCHANGED <<serverVars, clFifo, printed, seqLen, requests, answer, grants, kills>>

\* read() of the response, printed before exit(EXIT_SUCCESS).
ClientRead(c) ==
    /\ cpc[c] = "read"
    /\ answer[c] # <<>>
    /\ printed' = [printed EXCEPT ![c] = Head(answer[c])]
    /\ Leave(c, "done", FALSE)
    /\ UNCHANGED kills

\* ... end of file, when the server died before it answered: fatal().
ClientReadEof(c) ==
    /\ cpc[c] = "read"
    /\ answer[c] = <<>> /\ ~OwnWriting(c)
    /\ Leave(c, "failed", FALSE)
    /\ UNCHANGED <<printed, kills>>

\* The user interrupts a client; its FIFO stays.
ClientKilled(c) ==
    /\ cpc[c] \notin {"done", "failed", "killed"}
    /\ kills < MaxClientKills
    /\ kills' = kills + 1
    /\ Leave(c, "killed", TRUE)
    /\ UNCHANGED printed

-----------------------------------------------------------------------------

ServerStep ==
    \/ ServerMkfifo \/ ServerOpen \/ ServerOpenDummy \/ ServerRead
    \/ ServerOpenClient \/ ServerGiveUp \/ ServerWrite \/ ServerClose

ClientStep(c) ==
    \/ ClientMkfifo(c) \/ ClientOpenServer(c) \/ ClientNoServer(c)
    \/ ClientWrite(c) \/ ClientSigpipe(c) \/ ClientOpenOwn(c)
    \/ ClientRead(c) \/ ClientReadEof(c)

Next ==
    \/ ServerStart \/ ServerStep \/ ServerKilled
    \/ \E c \in Clients : ClientStep(c) \/ ClientKilled(c)

\* A process that can run is scheduled.  Nobody has to start a server.
Fairness == WF_vars(ServerStep) /\ \A c \in Clients : WF_vars(ClientStep(c))

Spec == Init /\ [][Next]_vars /\ Fairness

-----------------------------------------------------------------------------
(* Properties. *)

\* The service implements its abstract specification: the interval of a
\* response is taken when the response is written, before the counter moves.
Allocator == INSTANCE SeqAllocator
    WITH next <- IF spc = "close" THEN seqNum + req.len ELSE seqNum

\* Every behaviour of the server and its clients is one of the allocator.
ImplementsAllocator == Allocator!ASpec

\* No two responses of one server process overlap.
DisjointSequences == Allocator!DisjointIntervals

\* "so that we never see EOF": a server at its read() always finds a request
\* or some writer, whatever clients come and go.
NeverSeesEof == spc = "read" /\ requests = <<>> => dummyFd \/ Holders # {}

\* A running server gets through every request it was sent, even if clients
\* die before they open their FIFO.
RequestsHandled ==
    \A c \in Clients :
        (\E i \in 1..Len(requests) : requests[i].client = c) ~>
            (spc = "down" \/ \A i \in 1..Len(requests) : requests[i].client # c)

\* "Create our FIFO (before sending request, to avoid a race)": a client whose
\* request was sent gets its answer or finds out that there is none.
ClientCompletes ==
    \A c \in Clients :
        cpc[c] = "openOwn" ~> cpc[c] \in {"done", "failed", "killed"}

=============================================================================
