----------------------------- MODULE Dictionary -----------------------------
(***************************************************************************)
(* The dictionary clients and servers of homework/hw11: stream sockets in  *)
(* the Unix domain (11-1) and over TCP (11-2), where the server forks a    *)
(* child for each client, and UDP (11-3), where one process answers all.   *)
(*                                                                         *)
(* A Dictrec is a record of a word and a text.  The text of a known word w *)
(* is written w too; "XXXX" is the text the servers send for an unknown    *)
(* word.  A recv() on a TCP connection may return only the first part of a *)
(* Dictrec, which holds the word; what is left is a remainder, whose bytes *)
(* the next recv() puts in the wrong place.  A datagram may be lost,       *)
(* duplicated or overtaken.                                                *)
(***************************************************************************)
EXTENDS Integers, Sequences, FiniteSets, SequencesExt

CONSTANTS
    Transports,   \* which of "unix", "inet" and "udp" are considered
    Clients,
    Words,        \* the words that are typed
    Known,        \* those in the dictionary
    MaxQueries,   \* words typed by each client
    MaxFaults     \* short reads, lost and duplicated datagrams, and dying servers

ASSUME KnownAssumption == Known \subseteq Words
ASSUME TextAssumption == {"XXXX", "junk", "none"} \cap Words = {}
ASSUME ClientsAssumption == "none" \notin Clients

VARIABLES
    transport,
    cpc,      \* where each client is: "main", "connect", "send", "recv", "done" or "died"
    sought,   \* tryit of each client's main()
    conn,     \* each client's connection: "none", "backlog" or "accepted"
    query,    \* records on their way from each client
    reply,    \* records on their way to each client
    spc,      \* where the server is, or "dead"
    cd,       \* the client the server talks to: the descriptor, or the address
    kpc,      \* the child that serves each client: "none", "recv", "lookup" or "exited"
    tryit,    \* the record in the memory of each child, and of the UDP server
    asked,    \* history: the words each client typed
    answers,  \* history: the records each client printed
    faults    \* history: the faults so far

vars == <<transport, cpc, sought, conn, query, reply, spc, cd, kpc, tryit, asked, answers, faults>>
clientVars == <<cpc, sought, asked, answers>>
serverVars == <<spc, cd, kpc, tryit>>

NoClient == "none"
UDP == transport = "udp"
Rec(w, t) == [word |-> w, text |-> t]
NoRec == Rec("none", "none")
Remainder == Rec("junk", "junk")
Rest(s) == SubSeq(s, 2, Len(s))

Init ==
    /\ transport \in Transports
    /\ cpc = [c \in Clients |-> "main"]
    /\ sought = [c \in Clients |-> NoRec]
    /\ conn = [c \in Clients |-> "none"]
    /\ query = [c \in Clients |-> <<>>]
    /\ reply = [c \in Clients |-> <<>>]
    /\ spc = IF UDP THEN "recvfrom" ELSE "accept"
    /\ cd = NoClient
    /\ kpc = [c \in Clients |-> "none"]
    /\ tryit = [c \in Clients \cup {NoClient} |-> NoRec]
    /\ asked = [c \in Clients |-> <<>>]
    /\ answers = [c \in Clients |-> <<>>]
    /\ faults = [short |-> {}, lost |-> 0, dups |-> 0, kills |-> 0]

MoreFaults == Cardinality(faults.short) + faults.lost + faults.dups + faults.kills < MaxFaults

Gone(c) == cpc[c] \in {"done", "died"}

\* The server's side of the connection is open in the server or in the child.
PeerOpen(c) ==
    \/ conn[c] = "backlog" /\ spc # "dead"
    \/ cd = c /\ spc # "dead"
    \/ kpc[c] \in {"recv", "lookup"}

\* What recv() into record r may do when s has arrived: the record it leaves,
\* what remains, and whether it returned less than was sent.
Received(c, r, s) ==
    LET next(t) == [rec |-> Head(s), rest |-> t, short |-> FALSE]
        part == [rec |-> [r EXCEPT !.word = Head(s).word], rest |-> <<Remainder>> \o Rest(s), short |-> TRUE]
        mayBeShort == transport = "inet" /\ c \notin faults.short /\ MoreFaults
    IN IF UDP
       THEN {[rec |-> s[i], rest |-> RemoveAt(s, i), short |-> FALSE] : i \in DOMAIN s}
       ELSE CASE Head(s) = Remainder /\ Len(s) > 1 -> {next(Rest(s)), next(<<Remainder>> \o Rest(Rest(s)))}
              [] Head(s) # Remainder /\ mayBeShort -> {next(Rest(s)), part}
              [] OTHER -> {next(Rest(s))}

-----------------------------------------------------------------------------
(* The clients: main.c with lookup7.c, lookup8.c or lookup9.c. *)

\* A word is typed; the text field keeps what the last answer left in it.
Ask(c, w) ==
    /\ cpc[c] = "main"
    /\ Len(asked[c]) < MaxQueries
    /\ asked' = [asked EXCEPT ![c] = Append(@, w)]
    /\ sought' = [sought EXCEPT ![c].word = w]
    /\ cpc' = [cpc EXCEPT ![c] = IF UDP \/ conn[c] # "none" THEN "send" ELSE "connect"]
    /\ UNCHANGED <<transport, conn, query, reply, serverVars, answers, faults>>

\* The end of the input.
Done(c) ==
    /\ cpc[c] = "main"
    /\ cpc' = [cpc EXCEPT ![c] = "done"]
    /\ UNCHANGED <<transport, sought, conn, query, reply, serverVars, asked, answers, faults>>

\* connect(), on the first call only; DIE if nobody listens.
Connect(c) ==
    /\ cpc[c] = "connect"
    /\ IF spc = "dead"
       THEN cpc' = [cpc EXCEPT ![c] = "died"] /\ UNCHANGED conn
       ELSE cpc' = [cpc EXCEPT ![c] = "send"] /\ conn' = [conn EXCEPT ![c] = "backlog"]
    /\ UNCHANGED <<transport, sought, query, reply, serverVars, asked, answers, faults>>

\* send() or sendto(); a datagram may be lost on the way.
Send(c) ==
    /\ cpc[c] = "send"
    /\ UDP \/ PeerOpen(c) \/ transport = "inet"
    /\ cpc' = [cpc EXCEPT ![c] = "recv"]
    /\ query' = [query EXCEPT ![c] = Append(@, sought[c])]
    /\ UNCHANGED <<transport, sought, conn, reply, serverVars, asked, answers, faults>>

\* send() on a connection that the server has closed: SIGPIPE.
SendBroken(c) ==
    /\ cpc[c] = "send"
    /\ ~ UDP /\ ~ PeerOpen(c)
    /\ cpc' = [cpc EXCEPT ![c] = "died"]
    /\ UNCHANGED <<transport, sought, conn, query, reply, serverVars, asked, answers, faults>>

\* recv() overwrites the whole record, and main prints it.
Recv(c) ==
    /\ cpc[c] = "recv" /\ reply[c] # <<>>
    /\ \E m \in Received(c, sought[c], reply[c]) :
         /\ sought' = [sought EXCEPT ![c] = m.rec]
         /\ answers' = [answers EXCEPT ![c] = Append(@, m.rec)]
         /\ reply' = [reply EXCEPT ![c] = m.rest]
         /\ faults' = IF m.short THEN [faults EXCEPT !.short = @ \cup {c}] ELSE faults
    /\ cpc' = [cpc EXCEPT ![c] = "main"]
    /\ UNCHANGED <<transport, conn, query, serverVars, asked>>

\* The server's side is closed.  If it left a query unread the connection was
\* reset and recv() fails: DIE.
RecvReset(c) ==
    /\ cpc[c] = "recv" /\ reply[c] = <<>>
    /\ ~ UDP /\ ~ PeerOpen(c)
    /\ query[c] # <<>>
    /\ cpc' = [cpc EXCEPT ![c] = "died"]
    /\ UNCHANGED <<transport, sought, conn, query, reply, serverVars, asked, answers, faults>>

\* Otherwise, or when a TCP client sent after the close and the reset has not
\* arrived, recv() returns 0.  That is not an error to lookup(): the record
\* sent comes back as the answer.
RecvEof(c) ==
    /\ cpc[c] = "recv" /\ reply[c] = <<>>
    /\ ~ UDP /\ ~ PeerOpen(c)
    /\ query[c] = <<>> \/ transport = "inet"
    /\ answers' = [answers EXCEPT ![c] = Append(@, sought[c])]
    /\ cpc' = [cpc EXCEPT ![c] = "main"]
    /\ UNCHANGED <<transport, sought, conn, query, reply, serverVars, asked, faults>>

-----------------------------------------------------------------------------
(* usock_server.c and isock_server.c. *)

Accept(c) ==
    /\ spc = "accept" /\ conn[c] = "backlog"
    /\ conn' = [conn EXCEPT ![c] = "accepted"]
    /\ cd' = c
    /\ spc' = "fork"
    /\ UNCHANGED <<transport, clientVars, query, reply, kpc, tryit, faults>>

\* The child has a copy of cd, and of the memory of the parent.
Fork ==
    /\ spc = "fork"
    /\ kpc' = [kpc EXCEPT ![cd] = "recv"]
    /\ spc' = "close"
    /\ UNCHANGED <<transport, clientVars, conn, query, reply, cd, tryit, faults>>

\* Mistake: the parent keeps its copy of cd.
ParentCloseOmitted ==
    /\ spc = "close"
    /\ spc' = "accept"
    /\ UNCHANGED <<transport, clientVars, conn, query, reply, cd, kpc, tryit, faults>>

\* The parent closes its copy and waits for the next client.
ParentClose ==
    /\ spc = "close"
    /\ spc' = "accept"
    /\ cd' = NoClient
    /\ UNCHANGED <<transport, clientVars, conn, query, reply, kpc, tryit, faults>>

\* DIE("fork"), or the server is killed.
ServerDies ==
    /\ spc # "dead"
    /\ MoreFaults
    /\ faults' = [faults EXCEPT !.kills = @ + 1]
    /\ spc' = "dead"
    /\ UNCHANGED <<transport, clientVars, conn, query, reply, cd, kpc, tryit>>

ChildRecv(c) ==
    /\ kpc[c] = "recv" /\ query[c] # <<>>
    /\ \E m \in Received(c, tryit[c], query[c]) :
         /\ tryit' = [tryit EXCEPT ![c] = m.rec]
         /\ query' = [query EXCEPT ![c] = m.rest]
         /\ faults' = IF m.short THEN [faults EXCEPT !.short = @ \cup {c}] ELSE faults
    /\ kpc' = [kpc EXCEPT ![c] = "lookup"]
    /\ UNCHANGED <<transport, clientVars, conn, reply, spc, cd>>

\* Mistake: the text of an unknown word is left as it came.
AnswerUnmarked(r) == IF r.word \in Known THEN Rec(r.word, r.word) ELSE r

\* lookup() of lookup5.c, and the text for NOTFOUND.
Answer(r) == Rec(r.word, IF r.word \in Known THEN r.word ELSE "XXXX")

\* lookup() and send(); SIGPIPE if the client is gone.
ChildReply(c) ==
    /\ kpc[c] = "lookup"
    /\ IF Gone(c)
       THEN kpc' = [kpc EXCEPT ![c] = "exited"] /\ UNCHANGED <<tryit, reply>>
       ELSE /\ tryit' = [tryit EXCEPT ![c] = Answer(@)]
            /\ reply' = [reply EXCEPT ![c] = Append(@, Answer(tryit[c]))]
            /\ kpc' = [kpc EXCEPT ![c] = "recv"]
    /\ UNCHANGED <<transport, clientVars, conn, query, spc, cd, faults>>

\* Mistake: the loop goes on when recv() returns 0.
ChildEofIgnored(c) ==
    /\ kpc[c] = "recv" /\ query[c] = <<>> /\ Gone(c)
    /\ UNCHANGED vars

\* recv() returns 0: the client has closed its end.
ChildEof(c) ==
    /\ kpc[c] = "recv" /\ query[c] = <<>> /\ Gone(c)
    /\ kpc' = [kpc EXCEPT ![c] = "exited"]
    /\ UNCHANGED <<transport, clientVars, conn, query, reply, spc, cd, tryit, faults>>

\* The dictionary cannot be opened (DIE in lookup5.c), or the child is killed.
ChildDies(c) ==
    /\ kpc[c] \in {"recv", "lookup"}
    /\ MoreFaults
    /\ faults' = [faults EXCEPT !.kills = @ + 1]
    /\ kpc' = [kpc EXCEPT ![c] = "exited"]
    /\ UNCHANGED <<transport, clientVars, conn, query, reply, spc, cd, tryit>>

-----------------------------------------------------------------------------
(* udp_server.c, and the datagrams. *)

\* Mistake: the address is taken from the first datagram only.
UdpRecvStale(c) ==
    /\ spc = "recvfrom" /\ query[c] # <<>>
    /\ \E m \in Received(c, tryit[NoClient], query[c]) :
         /\ tryit' = [tryit EXCEPT ![NoClient] = m.rec]
         /\ query' = [query EXCEPT ![c] = m.rest]
    /\ cd' = IF cd = NoClient THEN c ELSE cd
    /\ spc' = "lookup"
    /\ UNCHANGED <<transport, clientVars, conn, reply, kpc, faults>>

\* recvfrom() stores the record and the sender's address.
UdpRecv(c) ==
    /\ spc = "recvfrom" /\ query[c] # <<>>
    /\ \E m \in Received(c, tryit[NoClient], query[c]) :
         /\ tryit' = [tryit EXCEPT ![NoClient] = m.rec]
         /\ query' = [query EXCEPT ![c] = m.rest]
    /\ cd' = c
    /\ spc' = "lookup"
    /\ UNCHANGED <<transport, clientVars, conn, reply, kpc, faults>>

\* lookup() and sendto() to that address.
UdpReply ==
    /\ spc = "lookup"
    /\ tryit' = [tryit EXCEPT ![NoClient] = Answer(@)]
    /\ reply' = [reply EXCEPT ![cd] = Append(@, Answer(tryit[NoClient]))]
    /\ spc' = "recvfrom"
    /\ UNCHANGED <<transport, clientVars, conn, query, cd, kpc, faults>>

Lose(c) ==
    /\ UDP /\ MoreFaults
    /\ faults' = [faults EXCEPT !.lost = @ + 1]
    /\ \/ query[c] # <<>> /\ query' = [query EXCEPT ![c] = Rest(@)] /\ UNCHANGED reply
       \/ reply[c] # <<>> /\ reply' = [reply EXCEPT ![c] = Rest(@)] /\ UNCHANGED query
    /\ UNCHANGED <<transport, clientVars, conn, serverVars>>

Duplicate(c) ==
    /\ UDP /\ MoreFaults
    /\ faults' = [faults EXCEPT !.dups = @ + 1]
    /\ \/ query[c] # <<>> /\ query' = [query EXCEPT ![c] = Append(@, Head(@))] /\ UNCHANGED reply
       \/ reply[c] # <<>> /\ reply' = [reply EXCEPT ![c] = Append(@, Head(@))] /\ UNCHANGED query
    /\ UNCHANGED <<transport, clientVars, conn, serverVars>>

-----------------------------------------------------------------------------

ClientStep(c) == Connect(c) \/ Send(c) \/ SendBroken(c) \/ Recv(c) \/ RecvReset(c) \/ RecvEof(c)
ServerStep == (\E c \in Clients : Accept(c) \/ UdpRecv(c)) \/ Fork \/ ParentClose \/ UdpReply
ChildStep(c) == ChildRecv(c) \/ ChildReply(c) \/ ChildEof(c)

Next ==
    \/ ServerStep \/ ServerDies
    \/ \E c \in Clients :
         \/ \E w \in Words : Ask(c, w)
         \/ Done(c) \/ ClientStep(c)
         \/ ChildStep(c) \/ ChildDies(c)
         \/ Lose(c) \/ Duplicate(c)

\* Every process is scheduled when it can take a step.
Spec ==
    /\ Init /\ [][Next]_vars
    /\ WF_vars(ServerStep)
    /\ \A c \in Clients : WF_vars(ClientStep(c)) /\ WF_vars(ChildStep(c))

-----------------------------------------------------------------------------
(* Properties. *)

\* What lookup() makes of the record: FOUND or NOTFOUND.
Found(a) == a.text # "XXXX"
True(a) == IF Found(a) THEN a.word \in Known /\ a.text = a.word ELSE a.word \notin Known

\* The connection is whole: no short read, and the server's side is not closed.
Whole(c) == c \notin faults.short /\ (UDP \/ conn[c] = "none" \/ PeerOpen(c))

\* What a client prints is true of the dictionary for the word it prints, as
\* long as its connection is whole; with datagrams always, whatever is lost,
\* duplicated or overtaken: an answer carries its word.
AnswersTrue == \A c \in Clients : Whole(c) => \A k \in DOMAIN answers[c] : True(answers[c][k])

\* An answer is for the word just asked, and no client sees another's answers,
\* unless the connection is broken or a datagram was duplicated.
AnswersInStep ==
    \A c \in Clients :
        /\ Whole(c) /\ faults.dups = 0 => \A k \in DOMAIN answers[c] : answers[c][k].word = asked[c][k]
        /\ UDP => \A k \in DOMAIN answers[c] : \E j \in 1..k : answers[c][k].word = asked[c][j]

\* lookup() comes back, even if the server or the child dies at any point; with
\* datagrams only if none is lost and the server lives, for nothing is resent.
LookupReturns ==
    \A c \in Clients :
        cpc[c] = "recv" ~> (cpc[c] # "recv" \/ (UDP /\ (faults.lost > 0 \/ spc = "dead")))

\* When its client is gone the child ends.
ChildrenEnd == \A c \in Clients : (Gone(c) /\ kpc[c] = "recv") ~> kpc[c] = "exited"

=============================================================================
