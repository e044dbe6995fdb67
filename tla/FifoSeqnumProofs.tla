-------------------------- MODULE FifoSeqnumProofs --------------------------
(***************************************************************************)
(* The sequence-number service of homework/hw8/44-6 implements SeqAllocator*)
(* for every set of clients, all lengths and any number of servers that    *)
(* are killed and of clients that die at any point.                        *)
(*                                                                         *)
(* The allocator hands a client one interval only.  That the service does  *)
(* so too follows from where the client's one request can be: not sent, in *)
(* the FIFO, with the server, or answered, and never in two of these.      *)
(***************************************************************************)
EXTENDS FifoSeqnum, SequenceTheorems, TLAPS

Request == [client : Clients, len : SeqLens]

TypeOK ==
    /\ spc \in {"down", "mkfifo", "openServer", "openingServer", "openDummy", "read",
                "openClient", "write", "close"}
    /\ seqNum \in Nat
    /\ epoch \in Nat
    /\ dummyFd \in BOOLEAN
    /\ spc \in {"openClient", "write", "close"} => req \in Request
    /\ requests \in Seq(Request)
    /\ cpc \in [Clients -> {"mkfifo", "openServer", "openingServer", "write", "openOwn",
                            "openingOwn", "read", "done", "failed", "killed"}]
    /\ seqLen \in [Clients -> SeqLens]
    /\ answer \in [Clients -> Seq(Nat)]
    /\ printed \in [Clients -> Nat \cup {NoSeq}]
    /\ grants \subseteq [client : Clients, epoch : Nat, first : Nat, len : SeqLens]

\* The counter as the allocator sees it.
NextSeq == IF spc = "close" THEN seqNum + req.len ELSE seqNum

\* What this server process has handed out lies below its counter.
GrantsBelow ==
    \A g \in grants : g.epoch <= epoch /\ (g.epoch = epoch => g.first + g.len <= NextSeq)

\* Clients that have written their request, or are gone.
Sent(c) == cpc[c] \in {"openOwn", "openingOwn", "read", "done", "failed", "killed"}

InService == spc \in {"openClient", "write"}

\* A request exists once, after it was sent and until it is answered.
RequestsOnce ==
    /\ \A k, l \in 1..Len(requests) : requests[k].client = requests[l].client => k = l
    /\ \A k \in 1..Len(requests) :
         /\ Sent(requests[k].client)
         /\ \A g \in grants : g.client # requests[k].client
         /\ spc \in {"openClient", "write", "close"} => requests[k].client # req.client
    /\ InService => \A g \in grants : g.client # req.client
    /\ spc \in {"openClient", "write", "close"} => Sent(req.client)
    /\ \A g \in grants : Sent(g.client)

\* What is in a client's FIFO was granted to it, and it has printed nothing
\* while it runs.
AnswersGranted ==
    \A c \in Clients :
        /\ \A k \in 1..Len(answer[c]) : \E g \in grants : g.client = c /\ g.first = answer[c][k]
        /\ cpc[c] # "done" => printed[c] = NoSeq

\* From its first read() on the server has the extra write descriptor.
DummyOpen == spc \in {"read", "openClient", "write", "close"} => dummyFd

IndInv ==
    TypeOK /\ GrantsBelow /\ RequestsOnce /\ AnswersGranted /\ DummyOpen /\ DisjointSequences

-----------------------------------------------------------------------------

LEMMA InitIndInv == Init => IndInv
<1> SUFFICES ASSUME Init PROVE IndInv
  OBVIOUS
<1>1. TypeOK
  <2>1. <<>> \in Seq(Request) /\ <<>> \in Seq(Nat)
    BY EmptySeq
  <2> QED
    BY <2>1 DEF Init, TypeOK, NoSeq
<1>2. GrantsBelow /\ RequestsOnce /\ AnswersGranted /\ DummyOpen
  BY DEF Init, GrantsBelow, RequestsOnce, InService, AnswersGranted, DummyOpen
<1>3. DisjointSequences
  BY DEF Init, DisjointSequences, Allocator!DisjointIntervals
<1> QED
  BY <1>1, <1>2, <1>3 DEF IndInv

\* The requests in the FIFO and with the server, and the grants, name clients.
LEMMA Named ==
  ASSUME TypeOK
  PROVE  /\ \A k \in 1..Len(requests) : requests[k] \in Request /\ requests[k].client \in Clients
         /\ Len(requests) \in Nat
         /\ spc \in {"openClient", "write", "close"} => req.client \in Clients /\ req.len \in SeqLens
         /\ \A g \in grants : g.client \in Clients
<1>1. \A k \in 1..Len(requests) : requests[k] \in Request
  BY ElementOfSeq DEF TypeOK
<1>2. Len(requests) \in Nat
  BY LenProperties DEF TypeOK
<1>3. spc \in {"openClient", "write", "close"} => req.client \in Clients /\ req.len \in SeqLens
  BY DEF TypeOK, Request
<1>4. \A g \in grants : g.client \in Clients
  BY DEF TypeOK
<1> QED
  BY <1>1, <1>2, <1>3, <1>4 DEF Request

(* The server. *)

\* Steps that only move the server, before it has a request or after it has
\* given one up.
LEMMA ServerMoves ==
  ASSUME IndInv, ServerStart \/ ServerMkfifo \/ ServerOpen \/ ServerOpenDummy
                   \/ ServerOpenClient \/ ServerGiveUp
  PROVE  IndInv'
<1> USE DEF IndInv, ServerStart, ServerMkfifo, ServerOpen, ServerOpenDummy, ServerOpenClient,
            ServerGiveUp, clientVars
<1>1. /\ UNCHANGED <<seqNum, req, epoch, seqLen, requests, answer, printed, grants>>
      /\ spc # "close" /\ spc' # "close"
  OBVIOUS
<1>2. \A c \in Clients : Sent(c) => Sent(c)'
  BY DEF TypeOK, Sent, OwnReading
<1>3. \A c \in Clients : cpc'[c] # "done" => cpc[c] # "done"
  BY DEF TypeOK, OwnReading
<1>4. TypeOK'
  BY <1>1 DEF TypeOK
<1>5. GrantsBelow'
  BY <1>1 DEF GrantsBelow, NextSeq
<1>6. RequestsOnce'
  <2>1. \A k \in 1..Len(requests) : Sent(requests[k].client)'
    BY <1>1, <1>2, Named DEF RequestsOnce
  <2>2. \A g \in grants : Sent(g.client)'
    BY <1>1, <1>2, Named DEF RequestsOnce
  <2>3. InService' => InService /\ Sent(req.client)'
    BY <1>1, <1>2, Named DEF RequestsOnce, InService
  <2> QED
    BY <1>1, <2>1, <2>2, <2>3 DEF RequestsOnce, InService
<1>7. AnswersGranted' /\ DummyOpen'
  BY <1>1, <1>3 DEF AnswersGranted, DummyOpen
<1>8. DisjointSequences'
  BY <1>1 DEF DisjointSequences, Allocator!DisjointIntervals, Allocator!Interval
<1> QED
  BY <1>4, <1>5, <1>6, <1>7, <1>8 DEF IndInv

\* read(): a request leaves the FIFO and is with the server.
LEMMA ServerReadPreserves ==
  ASSUME IndInv, ServerRead
  PROVE  IndInv'
<1> USE DEF IndInv
<1>1. /\ UNCHANGED <<seqNum, epoch, seqLen, cpc, answer, printed, grants, dummyFd>>
      /\ spc = "read" /\ spc' = "openClient"
  BY DEF ServerRead, clientVars
<1>2. /\ req' = requests[1] /\ requests # <<>> /\ Len(requests) > 0
      /\ requests' \in Seq(Request) /\ Len(requests') = Len(requests) - 1
      /\ \A k \in 1..Len(requests') : requests'[k] = requests[k + 1]
  BY HeadTailProperties, EmptySeq DEF TypeOK, ServerRead
<1>3. req' \in Request
  BY <1>2, Named
<1>4. TypeOK'
  BY <1>1, <1>2, <1>3 DEF TypeOK
<1>5. GrantsBelow'
  BY <1>1 DEF GrantsBelow, NextSeq
<1>6. RequestsOnce'
  <2>1. \A k \in 1..Len(requests') : k + 1 \in 1..Len(requests) /\ k + 1 # 1
    BY <1>2, Named
  <2>2. 1 \in 1..Len(requests)
    BY <1>2, Named
  <2>4. \A k, l \in 1..Len(requests') : requests'[k].client = requests'[l].client => k = l
    <3> SUFFICES ASSUME NEW k \in 1..Len(requests'), NEW l \in 1..Len(requests'),
                        requests'[k].client = requests'[l].client
                 PROVE  k = l
      OBVIOUS
    <3>1. k + 1 = l + 1
      BY <1>2, <2>1 DEF RequestsOnce
    <3> QED
      BY <3>1
  <2>5. \A k \in 1..Len(requests') :
          /\ Sent(requests[k].client)'
          /\ \A g \in grants' : g.client # requests'[k].client
          /\ requests'[k].client # req'.client
    <3> SUFFICES ASSUME NEW k \in 1..Len(requests')
                 PROVE  /\ Sent(requests[k].client)'
                        /\ \A g \in grants' : g.client # requests'[k].client
                        /\ requests'[k].client # req'.client
      OBVIOUS
    <3>1. requests'[k] = requests[k + 1] /\ k + 1 \in 1..Len(requests) /\ k + 1 # 1
      BY <1>2, <2>1
    <3>2. Sent(requests[k + 1].client) /\ \A g \in grants : g.client # requests[k + 1].client
      BY <3>1 DEF RequestsOnce
    <3>3. requests[k + 1].client # requests[1].client
      BY <2>2, <3>1 DEF RequestsOnce
    <3> QED
      BY <1>1, <1>2, <3>1, <3>2, <3>3 DEF Sent
  <2>6. /\ \A g \in grants' : g.client # req'.client /\ Sent(g.client)'
        /\ Sent(req.client)'
    <3>1. Sent(requests[1].client) /\ \A g \in grants : g.client # requests[1].client /\ Sent(g.client)
      BY <2>2 DEF RequestsOnce
    <3> QED
      BY <1>1, <1>2, <3>1 DEF Sent
  <2> QED
    BY <2>4, <2>5, <2>6 DEF RequestsOnce, Sent
<1>7. AnswersGranted' /\ DummyOpen'
  BY <1>1 DEF AnswersGranted, DummyOpen
<1>8. DisjointSequences'
  BY <1>1 DEF DisjointSequences, Allocator!DisjointIntervals, Allocator!Interval
<1> QED
  BY <1>4, <1>5, <1>6, <1>7, <1>8

Granted == [client |-> req.client, epoch |-> epoch, first |-> seqNum, len |-> req.len]

\* write(): the interval above all others of this server process is handed out.
LEMMA ServerWritePreserves ==
  ASSUME IndInv, ServerWrite
  PROVE  IndInv'
<1> USE DEF IndInv
<1>1. /\ UNCHANGED <<seqNum, req, epoch, seqLen, cpc, requests, printed, dummyFd>>
      /\ spc = "write" /\ spc' = "close"
      /\ grants' = grants \cup {Granted}
      /\ answer' = [answer EXCEPT ![req.client] =
                       IF OwnReading(req.client) THEN Append(@, seqNum) ELSE @]
  BY DEF ServerWrite, clientVars, Granted
<1>2. Granted \in [client : Clients, epoch : Nat, first : Nat, len : SeqLens]
  BY <1>1, Named DEF TypeOK, Granted
<1>3. TypeOK'
  <2>1. answer' \in [Clients -> Seq(Nat)]
    <3>1. Append(answer[req.client], seqNum) \in Seq(Nat)
      BY <1>1, Named, AppendProperties DEF TypeOK
    <3> QED
      BY <1>1, <3>1 DEF TypeOK
  <2> QED
    BY <1>1, <1>2, <2>1 DEF TypeOK
<1>4. req.len \in Nat \ {0} /\ seqNum \in Nat /\ epoch \in Nat
  BY <1>1, Named, SeqLensPositive DEF TypeOK
<1>5. \A g \in grants : g.epoch = epoch => g.first + g.len <= seqNum
  BY <1>1 DEF GrantsBelow, NextSeq
<1>6. GrantsBelow'
  <2> SUFFICES ASSUME NEW g \in grants'
               PROVE  g.epoch <= epoch /\ (g.epoch = epoch => g.first + g.len <= seqNum + req.len)
    BY <1>1 DEF GrantsBelow, NextSeq
  <2>1. CASE g \in grants
    <3>1. g.first \in Nat /\ g.len \in Nat
      BY <2>1, SeqLensPositive DEF TypeOK
    <3> QED
      BY <1>4, <1>5, <2>1, <3>1 DEF GrantsBelow
  <2>2. CASE g = Granted
    BY <1>4, <2>2 DEF Granted
  <2> QED
    BY <1>1, <2>1, <2>2
<1>7. RequestsOnce'
  <2>1. Granted.client = req.client
    BY DEF Granted
  <2> QED
    BY <1>1, <2>1 DEF RequestsOnce, InService, Sent
<1>8. AnswersGranted'
  <2> SUFFICES ASSUME NEW c \in Clients
               PROVE  \A k \in 1..Len(answer'[c]) : \E g \in grants' : g.client = c /\ g.first = answer'[c][k]
    BY <1>1 DEF AnswersGranted
  <2>1. CASE answer'[c] = answer[c]
    <3>1. \A k \in 1..Len(answer[c]) : \E g \in grants : g.client = c /\ g.first = answer[c][k]
      BY DEF AnswersGranted
    <3> QED
      BY <1>1, <2>1, <3>1
  <2>2. CASE c = req.client /\ answer'[c] = Append(answer[c], seqNum)
    <3>1. /\ answer[c] \in Seq(Nat) /\ Len(answer[c]) \in Nat
          /\ Len(answer'[c]) = Len(answer[c]) + 1
          /\ \A k \in 1..Len(answer[c]) : answer'[c][k] = answer[c][k]
          /\ answer'[c][Len(answer[c]) + 1] = seqNum
      BY <1>4, <2>2, AppendProperties, LenProperties DEF TypeOK
    <3>2. ASSUME NEW k \in 1..Len(answer'[c])
          PROVE  \E g \in grants' : g.client = c /\ g.first = answer'[c][k]
      <4>1. CASE k \in 1..Len(answer[c])
        BY <1>1, <3>1, <4>1 DEF AnswersGranted
      <4>2. CASE k = Len(answer[c]) + 1
        <5>1. Granted \in grants' /\ Granted.client = c /\ Granted.first = seqNum
          BY <1>1, <2>2 DEF Granted
        <5> QED
          BY <3>1, <4>2, <5>1
      <4> QED
        BY <3>1, <4>1, <4>2
    <3> QED
      BY <3>2
  <2> QED
    BY <1>1, <2>1, <2>2 DEF TypeOK
<1>9. DummyOpen'
  BY <1>1 DEF DummyOpen
<1>10. DisjointSequences'
  <2> SUFFICES ASSUME NEW g \in grants', NEW h \in grants', g # h, g.epoch = h.epoch
               PROVE  Allocator!Interval(g) \cap Allocator!Interval(h) = {}
    BY DEF DisjointSequences, Allocator!DisjointIntervals
  <2>1. ASSUME NEW a \in grants, a.epoch = epoch
        PROVE  Allocator!Interval(a) \cap Allocator!Interval(Granted) = {}
    <3>1. a.first \in Nat /\ a.len \in Nat
      BY SeqLensPositive DEF TypeOK
    <3>2. a.first + a.len <= Granted.first /\ Granted.first = seqNum /\ Granted.len = req.len
      BY <1>5, <2>1 DEF Granted
    <3> QED
      BY <1>4, <3>1, <3>2 DEF Allocator!Interval
  <2>2. Granted.epoch = epoch
    BY DEF Granted
  <2>3. CASE g \in grants /\ h \in grants
    BY <2>3 DEF DisjointSequences, Allocator!DisjointIntervals
  <2>4. CASE g \in grants /\ h = Granted
    BY <2>1, <2>2, <2>4
  <2>5. CASE g = Granted /\ h \in grants
    BY <2>1, <2>2, <2>5
  <2> QED
    BY <1>1, <2>3, <2>4, <2>5
<1> QED
  BY <1>3, <1>6, <1>7, <1>8, <1>9, <1>10

LEMMA ServerClosePreserves ==
  ASSUME IndInv, ServerClose
  PROVE  IndInv'
<1> USE DEF IndInv
<1>1. /\ UNCHANGED <<epoch, seqLen, cpc, requests, answer, printed, grants, dummyFd>>
      /\ spc = "close" /\ spc' = "read" /\ seqNum' = seqNum + req.len
  BY DEF ServerClose, clientVars
<1>2. \A c : Sent(c)' <=> Sent(c)
  BY <1>1 DEF Sent
<1>3. TypeOK'
  <2>1. req.len \in Nat /\ seqNum \in Nat
    BY <1>1, Named, SeqLensPositive DEF TypeOK
  <2> QED
    BY <1>1, <2>1 DEF TypeOK
<1>4. GrantsBelow'
  BY <1>1 DEF GrantsBelow, NextSeq
<1>5. RequestsOnce'
  BY <1>1, <1>2 DEF RequestsOnce, InService
<1>6. AnswersGranted' /\ DummyOpen'
  BY <1>1 DEF AnswersGranted, DummyOpen
<1>7. DisjointSequences'
  BY <1>1 DEF DisjointSequences, Allocator!DisjointIntervals, Allocator!Interval
<1> QED
  BY <1>3, <1>4, <1>5, <1>6, <1>7

\* A killed server: the next one begins an epoch of which nothing is granted.
LEMMA ServerKilledPreserves ==
  ASSUME IndInv, ServerKilled
  PROVE  IndInv'
<1> USE DEF IndInv
<1>1. /\ UNCHANGED <<seqLen, cpc, answer, printed, grants>>
      /\ spc' = "down" /\ seqNum' = 0 /\ epoch' = epoch + 1 /\ dummyFd' = FALSE
      /\ requests' = <<>> \/ requests' = requests
  BY DEF ServerKilled, clientVars
<1>2. \A c : Sent(c)' <=> Sent(c)
  BY <1>1 DEF Sent
<1>3. <<>> \in Seq(Request) /\ Len(<<>>) = 0
  BY EmptySeq
<1>4. TypeOK'
  <2>1. requests' \in Seq(Request)
    BY <1>1, <1>3 DEF TypeOK
  <2>2. epoch' \in Nat /\ seqNum' \in Nat
    BY <1>1 DEF TypeOK
  <2>3. UNCHANGED <<seqLen, cpc, answer, printed, grants>> /\ spc' = "down" /\ dummyFd' \in BOOLEAN
    BY <1>1
  <2> QED
    BY <2>1, <2>2, <2>3 DEF TypeOK
<1>5. GrantsBelow'
  BY <1>1 DEF GrantsBelow, NextSeq, TypeOK
<1>6. RequestsOnce'
  BY <1>1, <1>2, <1>3 DEF RequestsOnce, InService
<1>7. AnswersGranted' /\ DummyOpen'
  BY <1>1 DEF AnswersGranted, DummyOpen
<1>8. DisjointSequences'
  BY <1>1 DEF DisjointSequences, Allocator!DisjointIntervals, Allocator!Interval
<1> QED
  BY <1>4, <1>5, <1>6, <1>7, <1>8

(* The clients. *)

LEMMA ClientMoves ==
  ASSUME IndInv, NEW c \in Clients, ClientMkfifo(c) \/ ClientOpenServer(c) \/ ClientOpenOwn(c)
  PROVE  IndInv'
<1> USE DEF IndInv
<1>1. /\ UNCHANGED <<seqNum, req, epoch, seqLen, requests, answer, printed, grants, dummyFd>>
      /\ spc' = spc \/ (spc = "openingServer" /\ spc' = "openDummy")
      /\ cpc[c] \in {"mkfifo", "openServer", "openOwn"}
      /\ \E s \in {"openServer", "write", "openingServer", "openingOwn"} :
            cpc' = [cpc EXCEPT ![c] = s] /\ (cpc[c] = "openOwn" => s = "openingOwn")
  BY DEF ClientMkfifo, ClientOpenServer, ClientOpenOwn, serverVars
<1>2. \A d \in Clients : Sent(d) => Sent(d)'
  BY <1>1 DEF TypeOK, Sent
<1>3. \A d \in Clients : cpc'[d] # "done" => cpc[d] # "done"
  BY <1>1 DEF TypeOK
<1>4. TypeOK'
  BY <1>1 DEF TypeOK
<1>5. GrantsBelow'
  BY <1>1 DEF GrantsBelow, NextSeq
<1>6. RequestsOnce'
  <2>1. \A k \in 1..Len(requests) : Sent(requests[k].client)'
    BY <1>1, <1>2, Named DEF RequestsOnce
  <2>2. \A g \in grants : Sent(g.client)'
    BY <1>1, <1>2, Named DEF RequestsOnce
  <2>3. spc' \in {"openClient", "write", "close"} => spc' = spc /\ Sent(req.client)'
    BY <1>1, <1>2, Named DEF RequestsOnce
  <2> QED
    BY <1>1, <2>1, <2>2, <2>3 DEF RequestsOnce, InService
<1>7. AnswersGranted' /\ DummyOpen'
  BY <1>1, <1>3 DEF AnswersGranted, DummyOpen
<1>8. DisjointSequences'
  BY <1>1 DEF DisjointSequences, Allocator!DisjointIntervals, Allocator!Interval
<1> QED
  BY <1>4, <1>5, <1>6, <1>7, <1>8

\* write(): nothing of this client is in the FIFO, with the server or answered.
LEMMA ClientWritePreserves ==
  ASSUME IndInv, NEW c \in Clients, ClientWrite(c)
  PROVE  IndInv'
<1> USE DEF IndInv
<1> DEFINE r == [client |-> c, len |-> seqLen[c]]
<1>1. /\ UNCHANGED <<spc, seqNum, req, epoch, seqLen, answer, printed, grants, dummyFd>>
      /\ cpc[c] = "write" /\ cpc' = [cpc EXCEPT ![c] = "openOwn"]
      /\ requests' = Append(requests, r)
  BY DEF ClientWrite, serverVars
<1>2. r \in Request /\ r.client = c
  BY DEF TypeOK, Request
<1>3. /\ requests' \in Seq(Request) /\ Len(requests') = Len(requests) + 1
      /\ \A k \in 1..Len(requests) : requests'[k] = requests[k]
      /\ requests'[Len(requests) + 1] = r
      /\ Len(requests) \in Nat
  BY <1>1, <1>2, AppendProperties, LenProperties DEF TypeOK
<1>4. ~ Sent(c) /\ Sent(c)' /\ \A d \in Clients : Sent(d) => Sent(d)'
  BY <1>1 DEF Sent, TypeOK
<1>5. TypeOK'
  BY <1>1, <1>3 DEF TypeOK
<1>6. GrantsBelow'
  BY <1>1 DEF GrantsBelow, NextSeq
<1>7. RequestsOnce'
  <2>1. \A k \in 1..Len(requests) : requests[k].client # c
    BY <1>4 DEF RequestsOnce
  <2>2. \A g \in grants : g.client # c
    BY <1>4 DEF RequestsOnce
  <2>3. spc \in {"openClient", "write", "close"} => req.client # c
    BY <1>4 DEF RequestsOnce
  <2>4. \A k \in 1..Len(requests') :
          \/ k \in 1..Len(requests) /\ requests'[k] = requests[k]
          \/ k = Len(requests) + 1 /\ requests'[k].client = c
    BY <1>2, <1>3
  <2>5. ASSUME NEW k \in 1..Len(requests'), NEW l \in 1..Len(requests'),
               requests'[k].client = requests'[l].client
        PROVE  k = l
    BY <2>1, <2>4, <2>5 DEF RequestsOnce
  <2>6. ASSUME NEW k \in 1..Len(requests')
        PROVE  /\ Sent(requests[k].client)'
               /\ \A g \in grants : g.client # requests'[k].client
               /\ spc \in {"openClient", "write", "close"} => requests'[k].client # req.client
    <3>1. CASE k \in 1..Len(requests) /\ requests'[k] = requests[k]
      <4>1. requests[k].client \in Clients /\ Sent(requests[k].client)
        BY <3>1, Named DEF RequestsOnce
      <4>2. cpc'[requests[k].client] \in {"openOwn", "openingOwn", "read", "done", "failed", "killed"}
        BY <1>4, <4>1 DEF Sent
      <4> QED
        BY <3>1, <4>2 DEF RequestsOnce, Sent
    <3>2. CASE requests'[k].client = c
      BY <1>4, <2>2, <2>3, <3>2 DEF Sent
    <3> QED
      BY <2>4, <3>1, <3>2
  <2>7. \A g \in grants : Sent(g.client)'
    BY <1>4, Named DEF RequestsOnce
  <2>8. spc \in {"openClient", "write", "close"} => Sent(req.client)'
    BY <1>1, <1>4, Named DEF RequestsOnce
  <2> QED
    BY <1>1, <2>5, <2>6, <2>7, <2>8 DEF RequestsOnce, InService
<1>8. AnswersGranted' /\ DummyOpen'
  BY <1>1 DEF AnswersGranted, DummyOpen, TypeOK
<1>9. DisjointSequences'
  BY <1>1 DEF DisjointSequences, Allocator!DisjointIntervals, Allocator!Interval
<1> QED
  BY <1>5, <1>6, <1>7, <1>8, <1>9

\* A client ends: nothing of it is left in its own FIFO, and the server's FIFO
\* is as it was or empty.
LEMMA LeavePreserves ==
  ASSUME IndInv, NEW c \in Clients, NEW how \in {"done", "failed", "killed"}, NEW left \in BOOLEAN,
         Leave(c, how, left),
         \/ how # "done" /\ cpc[c] # "done" /\ UNCHANGED printed
         \/ how = "done" /\ printed' \in [Clients -> Nat \cup {NoSeq}]
              /\ \A d \in Clients \ {c} : printed'[d] = printed[d]
  PROVE  IndInv'
<1> USE DEF IndInv
<1>1. /\ UNCHANGED <<spc, seqNum, req, epoch, seqLen, grants, dummyFd>>
      /\ cpc' = [cpc EXCEPT ![c] = how]
      /\ answer' = [answer EXCEPT ![c] = <<>>]
      /\ requests' = <<>> \/ requests' = requests
  BY DEF Leave, serverVars
<1>2. <<>> \in Seq(Request) /\ <<>> \in Seq(Nat) /\ Len(<<>>) = 0
  BY EmptySeq
<1>3. \A d \in Clients : Sent(d) => Sent(d)'
  BY <1>1 DEF Sent, TypeOK
<1>4. TypeOK'
  <2>1. requests' \in Seq(Request)
    BY <1>1, <1>2 DEF TypeOK
  <2>2. answer' \in [Clients -> Seq(Nat)] /\ printed' \in [Clients -> Nat \cup {NoSeq}]
    BY <1>1, <1>2 DEF TypeOK
  <2>3. /\ UNCHANGED <<spc, seqNum, req, epoch, seqLen, grants, dummyFd>>
        /\ cpc' = [cpc EXCEPT ![c] = how]
    BY <1>1
  <2> QED
    BY <2>1, <2>2, <2>3 DEF TypeOK
<1>5. GrantsBelow'
  BY <1>1 DEF GrantsBelow, NextSeq
<1>6. RequestsOnce'
  <2>1. \A g \in grants : Sent(g.client)'
    BY <1>3, Named DEF RequestsOnce
  <2>2. spc \in {"openClient", "write", "close"} => Sent(req.client)'
    BY <1>1, <1>3, Named DEF RequestsOnce
  <2>3. CASE requests' = <<>>
    BY <1>1, <1>2, <2>1, <2>2, <2>3 DEF RequestsOnce, InService
  <2>4. CASE requests' = requests
    <3>1. \A k \in 1..Len(requests) : Sent(requests[k].client)'
      BY <1>3, <2>4, Named DEF RequestsOnce
    <3> QED
      BY <1>1, <2>1, <2>2, <2>4, <3>1 DEF RequestsOnce, InService
  <2> QED
    BY <1>1, <2>3, <2>4
<1>7. AnswersGranted'
  <2> SUFFICES ASSUME NEW d \in Clients
               PROVE  /\ \A k \in 1..Len(answer'[d]) : \E g \in grants : g.client = d /\ g.first = answer'[d][k]
                      /\ cpc'[d] # "done" => printed'[d] = NoSeq
    BY <1>1 DEF AnswersGranted
  <2>1. CASE d = c
    BY <1>1, <1>2, <2>1 DEF AnswersGranted, TypeOK
  <2>2. CASE d # c
    BY <1>1, <2>2 DEF AnswersGranted, TypeOK
  <2> QED
    BY <2>1, <2>2
<1>8. DummyOpen'
  BY <1>1 DEF DummyOpen
<1>9. DisjointSequences'
  BY <1>1 DEF DisjointSequences, Allocator!DisjointIntervals, Allocator!Interval
<1> QED
  BY <1>4, <1>5, <1>6, <1>7, <1>8, <1>9

\* What a client reads was granted to it.
LEMMA ReadsItsGrant ==
  ASSUME IndInv, NEW c \in Clients, ClientRead(c)
  PROVE  /\ Head(answer[c]) \in Nat
         /\ \E g \in grants : g.client = c /\ g.first = Head(answer[c])
         /\ printed[c] = NoSeq
<1>1. answer[c] \in Seq(Nat) /\ answer[c] # <<>>
  BY DEF IndInv, TypeOK, ClientRead
<1>2. Head(answer[c]) = answer[c][1] /\ 1 \in 1..Len(answer[c])
  BY <1>1, EmptySeq
<1>3. Head(answer[c]) \in Nat
  BY <1>1, HeadTailProperties
<1>4. \A k \in 1..Len(answer[c]) : \E g \in grants : g.client = c /\ g.first = answer[c][k]
  BY DEF IndInv, AnswersGranted
<1>5. printed[c] = NoSeq
  BY DEF IndInv, AnswersGranted, ClientRead
<1> QED
  BY <1>2, <1>3, <1>4, <1>5

LEMMA ClientEnds ==
  ASSUME IndInv, NEW c \in Clients,
         ClientNoServer(c) \/ ClientSigpipe(c) \/ ClientRead(c) \/ ClientReadEof(c) \/ ClientKilled(c)
  PROVE  IndInv'
<1>1. CASE ClientRead(c)
  <2>1. /\ printed' \in [Clients -> Nat \cup {NoSeq}]
        /\ \A d \in Clients \ {c} : printed'[d] = printed[d]
    BY <1>1, ReadsItsGrant DEF IndInv, TypeOK, ClientRead
  <2> QED
    BY <1>1, <2>1, LeavePreserves DEF ClientRead
<1>2. CASE ClientNoServer(c)
  BY <1>2, LeavePreserves DEF ClientNoServer
<1>3. CASE ClientSigpipe(c)
  BY <1>3, LeavePreserves DEF ClientSigpipe
<1>4. CASE ClientReadEof(c)
  BY <1>4, LeavePreserves DEF ClientReadEof
<1>5. CASE ClientKilled(c)
  BY <1>5, LeavePreserves DEF ClientKilled
<1> QED
  BY <1>1, <1>2, <1>3, <1>4, <1>5

LEMMA NextIndInv == IndInv /\ [Next]_vars => IndInv'
<1> SUFFICES ASSUME IndInv, [Next]_vars PROVE IndInv'
  OBVIOUS
<1>1. CASE ServerStart \/ ServerStep \/ ServerKilled
  BY <1>1, ServerMoves, ServerReadPreserves, ServerWritePreserves, ServerClosePreserves,
     ServerKilledPreserves DEF ServerStep
<1>2. ASSUME NEW c \in Clients, ClientStep(c) \/ ClientKilled(c) PROVE IndInv'
  BY <1>2, ClientMoves, ClientWritePreserves, ClientEnds DEF ClientStep
<1>3. CASE UNCHANGED vars
  BY <1>3 DEF vars, serverVars, clientVars, IndInv, TypeOK, GrantsBelow, NextSeq, RequestsOnce,
     InService, Sent, AnswersGranted, DummyOpen, DisjointSequences, Allocator!DisjointIntervals,
     Allocator!Interval
<1> QED
  BY <1>1, <1>2, <1>3 DEF Next

LEMMA IndInvInvariant == Spec => []IndInv
  BY InitIndInv, NextIndInv, PTL DEF Spec

-----------------------------------------------------------------------------

\* The intervals one server process hands out (fifo_seqnum_server.c:66, 73) never
\* overlap, whatever clients and servers die meanwhile.
THEOREM SequencesDisjoint == Spec => []DisjointSequences
  BY IndInvInvariant, PTL DEF IndInv

\* The server's read() never returns end of file: the extra write descriptor
\* is open whenever it reads.
THEOREM EofNeverSeen == Spec => []NeverSeesEof
<1>1. IndInv => NeverSeesEof
  BY DEF IndInv, DummyOpen, NeverSeesEof
<1> QED
  BY <1>1, IndInvInvariant, PTL

-----------------------------------------------------------------------------
(* The refinement. *)

LEMMA InitRefines == Init => Allocator!AInit
  BY DEF Init, Allocator!AInit, Allocator!NoSeq, NoSeq

\* The write of a response is the abstract step; that the client has no
\* interval yet is RequestsOnce.
LEMMA WriteRefines ==
  ASSUME IndInv, ServerWrite
  PROVE  Allocator!Grant(req.client, req.len) /\ req.client \in Clients /\ req.len \in SeqLens
<1>1. \A g \in grants : g.client # req.client
  BY DEF IndInv, RequestsOnce, InService, ServerWrite
<1> QED
  BY <1>1, Named DEF IndInv, ServerWrite, Allocator!Grant, clientVars

LEMMA ReadRefines ==
  ASSUME IndInv, NEW c \in Clients, ClientRead(c)
  PROVE  Allocator!Report(c)
  BY ReadsItsGrant DEF ClientRead, Leave, Allocator!Report, Allocator!NoSeq, NoSeq, serverVars

LEMMA KilledRefines ==
  ASSUME IndInv, ServerKilled
  PROVE  Allocator!Restart
  BY DEF ServerKilled, Allocator!Restart, clientVars

LEMMA NextRefines == IndInv /\ [Next]_vars => [Allocator!ANext]_(Allocator!avars)
<1> SUFFICES ASSUME IndInv, [Next]_vars PROVE [Allocator!ANext]_(Allocator!avars)
  OBVIOUS
<1>1. CASE ServerWrite
  BY <1>1, WriteRefines DEF Allocator!ANext
<1>2. ASSUME NEW c \in Clients, ClientRead(c) PROVE Allocator!ANext
  BY <1>2, ReadRefines DEF Allocator!ANext
<1>3. CASE ServerKilled
  BY <1>3, KilledRefines DEF Allocator!ANext
<1>4. CASE ServerStart \/ ServerMkfifo \/ ServerOpen \/ ServerOpenDummy \/ ServerRead
             \/ ServerOpenClient \/ ServerGiveUp \/ ServerClose
  BY <1>4 DEF ServerStart, ServerMkfifo, ServerOpen, ServerOpenDummy, ServerRead, ServerOpenClient,
     ServerGiveUp, ServerClose, clientVars, Allocator!avars
<1>5. ASSUME NEW c \in Clients,
             ClientMkfifo(c) \/ ClientOpenServer(c) \/ ClientOpenOwn(c) \/ ClientWrite(c)
               \/ ClientNoServer(c) \/ ClientSigpipe(c) \/ ClientReadEof(c) \/ ClientKilled(c)
      PROVE  UNCHANGED Allocator!avars
  BY <1>5 DEF ClientMkfifo, ClientOpenServer, ClientOpenOwn, ClientWrite, ClientNoServer, ClientSigpipe,
     ClientReadEof, ClientKilled, Leave, serverVars, Allocator!avars
<1>6. CASE UNCHANGED vars
  BY <1>6 DEF vars, serverVars, clientVars, Allocator!avars
<1> QED
  BY <1>1, <1>2, <1>3, <1>4, <1>5, <1>6 DEF Next, ServerStep, ClientStep

\* Every behaviour of the server and its clients, with all their crashes, is a
\* behaviour of one counter that hands each client at most one interval.
THEOREM ServiceRefinement == Spec => ImplementsAllocator
  BY InitRefines, NextRefines, IndInvInvariant, PTL DEF Spec, ImplementsAllocator, Allocator!ASpec

=============================================================================
