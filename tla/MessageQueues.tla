--------------------------- MODULE MessageQueues ----------------------------
(***************************************************************************)
(* The summing servers and their clients on System V message queues        *)
(* (homework/hw8/46-2) and on POSIX message queues (homework/hw9/52-3).    *)
(* A client sends one message, a number or "end"; a server adds up the     *)
(* numbers until it receives "end" and then removes the queue.  The sum is *)
(* left out: nothing the programs do depends on it.                        *)
(*                                                                         *)
(* Whoever comes first creates the queue under its well-known key or name. *)
(* A removed System V queue is gone at once: its messages are dropped, and *)
(* the calls of those who still use it fail.  A POSIX queue only loses its *)
(* name; those who have it open go on using it, and the next to open the   *)
(* name creates another queue.                                             *)
(***************************************************************************)
EXTENDS Integers, Sequences, FiniteSets, SequencesExt

CONSTANTS
    Apis,        \* which of "sysv" and "posix" are considered
    Servers,     \* servers that are started, at any time
    Clients,
    Numbers,     \* the texts that are not "end": any numbers, or no numbers at all
    MaxMsgs,     \* capacity of a queue
    MaxKills     \* servers that are killed

VARIABLES
    api,
    queues,    \* all queues so far: their messages and whether they exist
    name,      \* the index of the queue under the key or name, or 0
    spc,       \* where each server is
    sq,        \* the queue each server has open
    data,      \* data.text of each server
    cpc, cq,   \* the same of the clients
    text,      \* what each client sends
    got,       \* history: the messages each server received
    kills      \* history: servers killed

vars == <<api, queues, name, spc, sq, data, cpc, cq, text, got, kills>>
clientVars == <<cpc, cq, text>>

End == "end"      \* the message that ends a server
Unset == "unset"  \* data.text before the first message: it may hold anything

\* A message carries its sender, for the properties only.
Msg(c) == [from |-> c, text |-> text[c]]

Init ==
    /\ api \in Apis
    /\ queues = <<>>
    /\ name = 0
    /\ spc = [s \in Servers |-> "start"]
    /\ sq = [s \in Servers |-> 0]
    /\ data = [s \in Servers |-> Unset]
    /\ cpc = [c \in Clients |-> "start"]
    /\ cq = [c \in Clients |-> 0]
    /\ text \in [Clients -> Numbers \cup {End}]
    /\ got = [s \in Servers |-> <<>>]
    /\ kills = 0

\* msgget with IPC_CREAT, mq_open with O_CREAT: the queue that is opened.
OpenQueue(q) ==
    IF name # 0
    THEN q = name /\ UNCHANGED <<queues, name>>
    ELSE /\ q = Len(queues) + 1
         /\ queues' = Append(queues, [msgs |-> <<>>, exists |-> TRUE])
         /\ name' = q

-----------------------------------------------------------------------------
(* The servers. *)

\* Mistake: the server starts with a queue of its own.
OpenNew(s) ==
    /\ spc[s] = "start"
    /\ queues' = Append(queues, [msgs |-> <<>>, exists |-> TRUE])
    /\ name' = Len(queues) + 1
    /\ sq' = [sq EXCEPT ![s] = Len(queues) + 1]
    /\ spc' = [spc EXCEPT ![s] = "receive"]
    /\ UNCHANGED <<api, data, clientVars, got, kills>>

Open(s) ==
    /\ spc[s] = "start"
    /\ \E q \in 1..(Len(queues) + 1) : OpenQueue(q) /\ sq' = [sq EXCEPT ![s] = q]
    /\ spc' = [spc EXCEPT ![s] = "receive"]
    /\ UNCHANGED <<api, data, clientVars, got, kills>>

\* Mistake: data.text is compared before the message is copied into it.
HandleLate(s, t) ==
    /\ data' = [data EXCEPT ![s] = t]
    /\ spc' = [spc EXCEPT ![s] = IF data[s] = End THEN "remove" ELSE "receive"]

\* The body of the loop after a message: stop at "end", else add.
Handle(s, t) ==
    /\ data' = [data EXCEPT ![s] = t]
    /\ spc' = [spc EXCEPT ![s] = IF t = End THEN "remove" ELSE "receive"]

\* msgrcv with type 0, mq_receive: the oldest message.
Receive(s) ==
    LET q == sq[s] IN
    /\ spc[s] = "receive"
    /\ queues[q].exists /\ queues[q].msgs # <<>>
    /\ queues' = [queues EXCEPT ![q].msgs = Tail(@)]
    /\ got' = [got EXCEPT ![s] = Append(@, Head(queues[q].msgs))]
    /\ Handle(s, Head(queues[q].msgs).text)
    /\ UNCHANGED <<api, name, sq, clientVars, kills>>

\* msgrcv on a removed queue fails; the System V server goes on with the
\* message it had before, or with what happens to be in data.text.
ReceiveFails(s) ==
    /\ spc[s] = "receive"
    /\ ~ queues[sq[s]].exists
    /\ \E t \in IF data[s] = Unset THEN Numbers \cup {End} ELSE {data[s]} :
          Handle(s, t)
    /\ UNCHANGED <<api, queues, name, sq, clientVars, got, kills>>

\* Mistake: the server exits and leaves the queue.
RemoveQueueOmitted(s) ==
    /\ spc[s] = "remove"
    /\ spc' = [spc EXCEPT ![s] = "exited"]
    /\ UNCHANGED <<api, queues, name, sq, data, clientVars, got, kills>>

\* msgctl(IPC_RMID) removes the server's queue, if it still exists; mq_unlink
\* takes the name away from the queue that has it now.
RemoveQueue(s) ==
    /\ spc[s] = "remove"
    /\ spc' = [spc EXCEPT ![s] = "exited"]
    /\ IF api = "sysv"
       THEN /\ queues' = [queues EXCEPT ![sq[s]] = [msgs |-> <<>>, exists |-> FALSE]]
            /\ name' = IF name = sq[s] THEN 0 ELSE name
       ELSE name' = 0 /\ UNCHANGED queues
    /\ UNCHANGED <<api, sq, data, clientVars, got, kills>>

Kill(s) ==
    /\ spc[s] \in {"receive", "remove"}
    /\ kills < MaxKills
    /\ kills' = kills + 1
    /\ spc' = [spc EXCEPT ![s] = "killed"]
    /\ UNCHANGED <<api, queues, name, sq, data, clientVars, got>>

-----------------------------------------------------------------------------
(* The clients. *)

ClientOpen(c) ==
    /\ cpc[c] = "start"
    /\ \E q \in 1..(Len(queues) + 1) : OpenQueue(q) /\ cq' = [cq EXCEPT ![c] = q]
    /\ cpc' = [cpc EXCEPT ![c] = "send"]
    /\ UNCHANGED <<api, spc, sq, data, text, got, kills>>

\* msgsnd, mq_send: it waits while the queue is full.
Send(c) ==
    LET q == cq[c] IN
    /\ cpc[c] = "send"
    /\ queues[q].exists /\ Len(queues[q].msgs) < MaxMsgs
    /\ queues' = [queues EXCEPT ![q].msgs = Append(@, Msg(c))]
    /\ cpc' = [cpc EXCEPT ![c] = "success"]
    /\ UNCHANGED <<api, name, spc, sq, data, cq, text, got, kills>>

\* msgsnd on a removed queue, also while it waits.
SendFails(c) ==
    /\ cpc[c] = "send"
    /\ ~ queues[cq[c]].exists
    /\ cpc' = [cpc EXCEPT ![c] = "failure"]
    /\ UNCHANGED <<api, queues, name, spc, sq, data, cq, text, got, kills>>

-----------------------------------------------------------------------------

ServerStep(s) == Receive(s) \/ ReceiveFails(s) \/ RemoveQueue(s)
ClientStep(c) == Send(c) \/ SendFails(c)

Next ==
    \/ \E s \in Servers : Open(s) \/ ServerStep(s) \/ Kill(s)
    \/ \E c \in Clients : ClientOpen(c) \/ ClientStep(c)

\* A program that was started is scheduled; nothing makes anyone start it.
Spec ==
    /\ Init /\ [][Next]_vars
    /\ \A s \in Servers : WF_vars(ServerStep(s))
    /\ \A c \in Clients : WF_vars(ClientStep(c))

-----------------------------------------------------------------------------
(* Properties. *)

Received(c) == \E s \in Servers : Msg(c) \in ToSet(got[s])
EndReceived(q) == \E s \in Servers : sq[s] = q /\ \E i \in DOMAIN got[s] : got[s][i].text = End

OneServer == \A s, t \in Servers : spc[s] # "start" /\ spc[t] # "start" => s = t

\* What a client has sent is received, or it is still where the next server
\* will find it, across kills and restarts of the servers, until "end" is
\* received from that queue; for POSIX queues only as long as one server was
\* started, since mq_unlink of a second one may hit a newer queue.
SentNotLost ==
    api = "sysv" \/ OneServer =>
        \A c \in Clients :
            cpc[c] = "success" /\ ~ EndReceived(cq[c]) =>
                Received(c) \/ (cq[c] = name /\ Msg(c) \in ToSet(queues[cq[c]].msgs))

Served(q) == \E s \in Servers : sq[s] = q /\ spc[s] \in {"receive", "remove"}

\* A System V client does not wait forever for room in a queue that has a
\* server: the server makes room, or its end releases the client.
ClientsReleased ==
    \A c \in Clients :
        (api = "sysv" /\ cpc[c] = "send" /\ Served(cq[c])) ~> (cpc[c] # "send" \/ kills > 0)

\* An "end" that was sent to a queue with a server stops a server of that
\* queue, whatever is queued before it and whoever else receives; the others
\* go on, on a System V queue with a receive that fails forever.
EndStopsServer ==
    \A c \in Clients :
        (text[c] = End /\ cpc[c] = "success" /\ Served(cq[c])) ~>
            (\E s \in Servers : sq[s] = cq[c] /\ spc[s] \in {"exited", "killed"})

=============================================================================
