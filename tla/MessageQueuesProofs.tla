------------------------ MODULE MessageQueuesProofs -------------------------
(***************************************************************************)
(* What homework/hw8/46-2 and homework/hw9/52-3 guarantee to their clients *)
(* for any number of servers, clients, messages and kills: a message that  *)
(* was sent is received, or still where the next server looks for it,      *)
(* until "end" is received from its queue.                                 *)
(*                                                                         *)
(* The heart of the invariant is that a queue loses its key or name only   *)
(* after "end" was received from it.  For System V this holds although a   *)
(* server whose queue was removed by another may take an old "end" for a   *)
(* new one: it can only remove its own queue, which is gone already.       *)
(***************************************************************************)
EXTENDS MessageQueues, SequenceTheorems, TLAPS

Message == [from : Clients, text : Numbers \cup {End}]
Queue == [msgs : Seq(Message), exists : BOOLEAN]

TypeOK ==
    /\ queues \in Seq(Queue)
    /\ name \in 0..Len(queues)
    /\ spc \in [Servers -> {"start", "receive", "remove", "exited", "killed"}]
    /\ sq \in [Servers -> 0..Len(queues)]
    /\ cpc \in [Clients -> {"start", "send", "success", "failure"}]
    /\ cq \in [Clients -> 0..Len(queues)]
    /\ text \in [Clients -> Numbers \cup {End}]
    /\ got \in [Servers -> Seq(Message)]

\* Who has opened a queue, and who has not.
OpenInv ==
    /\ \A s \in Servers : IF spc[s] = "start" THEN sq[s] = 0 ELSE sq[s] # 0
    /\ \A c \in Clients : cpc[c] # "start" => cq[c] # 0

\* Queues are removed by IPC_RMID only, and then lose their key.
ExistsInv ==
    /\ name # 0 => queues[name].exists
    /\ api # "sysv" => \A q \in 1..Len(queues) : queues[q].exists

EndIn(s) == \E k \in DOMAIN got[s] : got[s][k].text = End

\* Why a server is about to remove its queue.
RemoveInv ==
    \A s \in Servers : spc[s] = "remove" => EndIn(s) \/ ~ queues[sq[s]].exists

Single == api = "sysv" \/ OneServer

\* The queue whose name a POSIX server unlinks is its own, if it is the only one.
NameInv ==
    Single /\ api # "sysv" =>
        \A s \in Servers : spc[s] \in {"receive", "remove"} => sq[s] = name

EndedInv ==
    Single => \A q \in 1..Len(queues) : q # name => EndReceived(q)

KeptInv ==
    \A c \in Clients :
        cpc[c] = "success" /\ ~ EndReceived(cq[c]) =>
            Received(c) \/ Msg(c) \in ToSet(queues[cq[c]].msgs)

IndInv == TypeOK /\ OpenInv /\ ExistsInv /\ RemoveInv /\ NameInv /\ EndedInv /\ KeptInv

-----------------------------------------------------------------------------

LEMMA InitIndInv == Init => IndInv
<1> SUFFICES ASSUME Init PROVE IndInv
  OBVIOUS
<1>1. TypeOK
  <2>1. queues \in Seq(Queue) /\ Len(queues) = 0
    <3>1. <<>> \in Seq(Queue) /\ Len(<<>>) = 0
      BY EmptySeq
    <3> QED
      BY <3>1 DEF Init
  <2>2. text \in [Clients -> Numbers \cup {End}]
    BY DEF Init
  <2>3. got \in [Servers -> Seq(Message)]
    <3>1. <<>> \in Seq(Message)
      BY EmptySeq
    <3> QED
      BY <3>1 DEF Init
  <2> QED
    BY <2>1, <2>2, <2>3 DEF Init, TypeOK
<1>2. OpenInv /\ ExistsInv /\ RemoveInv /\ NameInv /\ EndedInv /\ KeptInv
  BY EmptySeq DEF Init, OpenInv, ExistsInv, RemoveInv, NameInv, EndedInv, KeptInv
<1> QED
  BY <1>1, <1>2 DEF IndInv

(* What the operations do to the list of queues. *)

LEMMA AppendSet ==
  ASSUME NEW S, NEW t \in Seq(S), NEW e \in S
  PROVE  /\ Append(t, e) \in Seq(S) /\ ToSet(Append(t, e)) = ToSet(t) \cup {e}
         /\ \A k \in DOMAIN t : k \in DOMAIN Append(t, e) /\ Append(t, e)[k] = t[k]
<1>1. /\ Append(t, e) \in Seq(S) /\ Len(Append(t, e)) = Len(t) + 1
      /\ \A k \in 1..Len(t) : Append(t, e)[k] = t[k]
      /\ Append(t, e)[Len(t) + 1] = e
  BY AppendProperties
<1>2. DOMAIN t = 1..Len(t) /\ DOMAIN Append(t, e) = 1..(Len(t) + 1) /\ Len(t) \in Nat
  BY <1>1, LenProperties
<1> QED
  BY <1>1, <1>2 DEF ToSet

LEMMA TailSet ==
  ASSUME NEW S, NEW t \in Seq(S), t # <<>>
  PROVE  /\ Tail(t) \in Seq(S) /\ Head(t) \in S
         /\ ToSet(t) \subseteq ToSet(Tail(t)) \cup {Head(t)}
<1>1. /\ Tail(t) \in Seq(S) /\ Head(t) \in S /\ Head(t) = t[1]
      /\ Len(Tail(t)) = Len(t) - 1
      /\ \A k \in 1..(Len(t) - 1) : Tail(t)[k] = t[k + 1]
  BY HeadTailProperties
<1>2. DOMAIN t = 1..Len(t) /\ DOMAIN Tail(t) = 1..(Len(t) - 1) /\ Len(t) \in Nat
  BY <1>1, LenProperties
<1>3. ASSUME NEW k \in 1..Len(t) PROVE t[k] \in ToSet(Tail(t)) \cup {Head(t)}
  <2>1. CASE k = 1
    BY <1>1, <2>1
  <2>2. CASE k # 1
    <3>1. k - 1 \in 1..(Len(t) - 1) /\ (k - 1) + 1 = k
      BY <1>2, <2>2
    <3>2. Tail(t)[k - 1] = t[k]
      BY <1>1, <3>1
    <3> QED
      BY <1>2, <3>1, <3>2 DEF ToSet
  <2> QED
    BY <2>1, <2>2
<1> QED
  BY <1>1, <1>2, <1>3 DEF ToSet

LEMMA UpdateMsgs ==
  ASSUME NEW S, NEW x \in [msgs : S, exists : BOOLEAN], NEW y \in S
  PROVE  [x EXCEPT !.msgs = y] = [msgs |-> y, exists |-> x.exists]
  OBVIOUS

\* One queue is replaced.
LEMMA UpdateQueue ==
  ASSUME TypeOK, NEW q \in 1..Len(queues), NEW r \in Queue
  PROVE  /\ [queues EXCEPT ![q] = r] \in Seq(Queue)
         /\ Len([queues EXCEPT ![q] = r]) = Len(queues)
         /\ \A k \in 1..Len(queues) : [queues EXCEPT ![q] = r][k] = IF k = q THEN r ELSE queues[k]
  BY ExceptSeq DEF TypeOK

\* msgget or mq_open gives the queue that has the key or name.
LEMMA OpenResult ==
  ASSUME TypeOK, ExistsInv, NEW q, OpenQueue(q)
  PROVE  /\ queues' \in Seq(Queue) /\ Len(queues') \in Nat /\ Len(queues) <= Len(queues')
         /\ q \in 1..Len(queues') /\ name' = q /\ queues'[q].exists
         /\ \A r \in 1..Len(queues) : r \in 1..Len(queues') /\ queues'[r] = queues[r]
         /\ \A r \in 1..Len(queues') :
              r # q => r \in 1..Len(queues) /\ r # name
<1>1. queues \in Seq(Queue) /\ Len(queues) \in Nat /\ name \in 0..Len(queues)
  BY LenProperties DEF TypeOK
<1>2. CASE name # 0
  BY <1>1, <1>2 DEF OpenQueue, ExistsInv
<1>3. CASE name = 0
  <2> DEFINE e == [msgs |-> <<>>, exists |-> TRUE]
  <2>1. e \in Queue /\ e.exists
    BY EmptySeq DEF Queue
  <2>2. queues' = Append(queues, e) /\ q = Len(queues) + 1 /\ name' = q
    BY <1>3 DEF OpenQueue
  <2> HIDE DEF e
  <2>3. /\ queues' \in Seq(Queue) /\ Len(queues') = Len(queues) + 1
        /\ \A r \in 1..Len(queues) : queues'[r] = queues[r]
        /\ queues'[Len(queues) + 1] = e
    BY <1>1, <2>1, <2>2, AppendProperties
  <2> QED
    BY <1>1, <1>3, <2>1, <2>2, <2>3
<1> QED
  BY <1>2, <1>3

\* msgrcv or mq_receive takes the oldest message.
LEMMA ReceiveResult ==
  ASSUME TypeOK, OpenInv, NEW s \in Servers, Receive(s)
  PROVE  /\ queues' \in Seq(Queue) /\ Len(queues') = Len(queues) /\ sq[s] \in 1..Len(queues)
         /\ \A q \in 1..Len(queues) : queues'[q].exists = queues[q].exists
         /\ \A q \in 1..Len(queues) : q # sq[s] => queues'[q] = queues[q]
         /\ LET e == Head(queues[sq[s]].msgs) IN
              /\ e \in Message
              /\ ToSet(queues[sq[s]].msgs) \subseteq ToSet(queues'[sq[s]].msgs) \cup {e}
              /\ got' = [got EXCEPT ![s] = Append(@, e)]
              /\ spc'[s] = IF e.text = End THEN "remove" ELSE "receive"
<1> DEFINE q == sq[s]
           t == queues[q].msgs
           r == [msgs |-> Tail(t), exists |-> queues[q].exists]
<1>1. q \in 1..Len(queues)
  BY LenProperties DEF TypeOK, OpenInv, Receive
<1>2. queues \in Seq(Queue) /\ queues[q] \in Queue
  BY <1>1, ElementOfSeq DEF TypeOK
<1>3. t \in Seq(Message) /\ t # <<>> /\ queues[q].exists \in BOOLEAN
  BY <1>2 DEF Queue, Receive
<1>4. /\ Tail(t) \in Seq(Message) /\ Head(t) \in Message
      /\ ToSet(t) \subseteq ToSet(Tail(t)) \cup {Head(t)}
  BY <1>3, TailSet
<1>5. r \in Queue /\ r.msgs = Tail(t) /\ r.exists = queues[q].exists
  BY <1>3, <1>4 DEF Queue
<1>6. queues' = [queues EXCEPT ![q] = r]
  <2>1. queues' = [queues EXCEPT ![q].msgs = Tail(@)]
    BY DEF Receive
  <2>2. [queues[q] EXCEPT !.msgs = Tail(t)] = r
    <3> HIDE DEF q, t
    <3> QED
      BY <1>2, <1>4, UpdateMsgs DEF Queue
  <2> QED
    BY <2>1, <2>2
<1>7. /\ queues' \in Seq(Queue) /\ Len(queues') = Len(queues)
      /\ \A k \in 1..Len(queues) : queues'[k] = IF k = q THEN r ELSE queues[k]
  <2> HIDE DEF r, q
  <2> QED
    BY <1>1, <1>5, <1>6, UpdateQueue
<1>8. /\ got' = [got EXCEPT ![s] = Append(@, Head(t))]
      /\ spc'[s] = IF Head(t).text = End THEN "remove" ELSE "receive"
  BY DEF Receive, Handle, TypeOK
<1> HIDE DEF r
<1> QED
  BY <1>1, <1>4, <1>5, <1>7, <1>8

LEMMA SendResult ==
  ASSUME TypeOK, OpenInv, NEW c \in Clients, Send(c)
  PROVE  /\ queues' \in Seq(Queue) /\ Len(queues') = Len(queues) /\ cq[c] \in 1..Len(queues)
         /\ \A q \in 1..Len(queues) : queues'[q].exists = queues[q].exists
         /\ \A q \in 1..Len(queues) : q # cq[c] => queues'[q] = queues[q]
         /\ ToSet(queues'[cq[c]].msgs) = ToSet(queues[cq[c]].msgs) \cup {Msg(c)}
<1> DEFINE q == cq[c]
           t == queues[q].msgs
           r == [msgs |-> Append(t, Msg(c)), exists |-> queues[q].exists]
<1>1. q \in 1..Len(queues)
  BY LenProperties DEF TypeOK, OpenInv, Send
<1>2. queues \in Seq(Queue) /\ queues[q] \in Queue
  BY <1>1, ElementOfSeq DEF TypeOK
<1>3. t \in Seq(Message) /\ queues[q].exists \in BOOLEAN /\ Msg(c) \in Message
  BY <1>2 DEF Queue, Msg, Message, TypeOK
<1>4. Append(t, Msg(c)) \in Seq(Message) /\ ToSet(Append(t, Msg(c))) = ToSet(t) \cup {Msg(c)}
  BY <1>3, AppendSet
<1>5. r \in Queue /\ r.msgs = Append(t, Msg(c)) /\ r.exists = queues[q].exists
  BY <1>3, <1>4 DEF Queue
<1>6. queues' = [queues EXCEPT ![q] = r]
  <2>1. queues' = [queues EXCEPT ![q].msgs = Append(@, Msg(c))]
    BY DEF Send
  <2>2. [queues[q] EXCEPT !.msgs = Append(t, Msg(c))] = r
    <3> HIDE DEF q, t
    <3> QED
      BY <1>2, <1>4, UpdateMsgs DEF Queue
  <2> QED
    BY <2>1, <2>2
<1>7. /\ queues' \in Seq(Queue) /\ Len(queues') = Len(queues)
      /\ \A k \in 1..Len(queues) : queues'[k] = IF k = q THEN r ELSE queues[k]
  <2> HIDE DEF r, q
  <2> QED
    BY <1>1, <1>5, <1>6, UpdateQueue
<1> HIDE DEF r
<1> QED
  BY <1>1, <1>4, <1>5, <1>7

LEMMA RemoveResult ==
  ASSUME TypeOK, OpenInv, NEW s \in Servers, RemoveQueue(s)
  PROVE  /\ queues' \in Seq(Queue) /\ Len(queues') = Len(queues) /\ sq[s] \in 1..Len(queues)
         /\ \A q \in 1..Len(queues) : q # sq[s] \/ api # "sysv" => queues'[q] = queues[q]
         /\ api = "sysv" => ~ queues'[sq[s]].exists
         /\ name' = IF api # "sysv" \/ name = sq[s] THEN 0 ELSE name
<1> DEFINE q == sq[s]
           r == [msgs |-> <<>>, exists |-> FALSE]
<1>1. q \in 1..Len(queues) /\ queues \in Seq(Queue)
  BY LenProperties DEF TypeOK, OpenInv, RemoveQueue
<1>2. r \in Queue /\ ~ r.exists
  <2>1. <<>> \in Seq(Message)
    BY EmptySeq
  <2> QED
    BY <2>1 DEF Queue
<1>3. /\ api = "sysv" => queues' = [queues EXCEPT ![q] = r]
      /\ api # "sysv" => queues' = queues
      /\ name' = IF api # "sysv" \/ name = q THEN 0 ELSE name
  BY DEF RemoveQueue
<1> HIDE DEF r
<1>4. CASE api = "sysv"
  <2>1. /\ queues' \in Seq(Queue) /\ Len(queues') = Len(queues)
        /\ \A k \in 1..Len(queues) : queues'[k] = IF k = q THEN r ELSE queues[k]
    <3> HIDE DEF q
    <3> QED
      BY <1>1, <1>2, <1>3, <1>4, UpdateQueue
  <2> QED
    BY <1>1, <1>2, <1>3, <1>4, <2>1
<1>5. CASE api # "sysv"
  BY <1>1, <1>3, <1>5
<1> QED
  BY <1>4, <1>5

-----------------------------------------------------------------------------
(* The steps. *)

\* Every kind of step, by what it does to the queues.
LEMMA StepCases ==
  ASSUME [Next]_vars
  PROVE  \/ \E s \in Servers, q \in 1..(Len(queues) + 1) :
              /\ Open(s) /\ OpenQueue(q) /\ sq' = [sq EXCEPT ![s] = q]
         \/ \E c \in Clients, q \in 1..(Len(queues) + 1) :
              /\ ClientOpen(c) /\ OpenQueue(q) /\ cq' = [cq EXCEPT ![c] = q]
         \/ \E s \in Servers : Receive(s) \/ RemoveQueue(s) \/ ReceiveFails(s) \/ Kill(s)
         \/ \E c \in Clients : Send(c) \/ SendFails(c)
         \/ UNCHANGED vars
  BY DEF Next, ServerStep, ClientStep, Open, ClientOpen

LEMMA TypeNext == TypeOK /\ OpenInv /\ ExistsInv /\ [Next]_vars => TypeOK'
<1> SUFFICES ASSUME TypeOK, OpenInv, ExistsInv, [Next]_vars PROVE TypeOK'
  OBVIOUS
<1>1. Len(queues) \in Nat
  BY LenProperties DEF TypeOK
<1>2. ASSUME NEW s \in Servers, NEW q, Open(s), OpenQueue(q), sq' = [sq EXCEPT ![s] = q] PROVE TypeOK'
  <2>1. /\ queues' \in Seq(Queue) /\ Len(queues') \in Nat /\ Len(queues) <= Len(queues')
        /\ q \in 1..Len(queues') /\ name' = q
    BY <1>2, OpenResult
  <2>2. name' \in 0..Len(queues') /\ \A k \in 0..Len(queues) : k \in 0..Len(queues')
    BY <1>1, <2>1
  <2>3. sq' \in [Servers -> 0..Len(queues')] /\ cq' \in [Clients -> 0..Len(queues')]
    BY <1>2, <2>1, <2>2 DEF TypeOK, Open, clientVars
  <2> QED
    BY <1>2, <2>1, <2>2, <2>3 DEF TypeOK, Open, clientVars
<1>3. ASSUME NEW c \in Clients, NEW q, ClientOpen(c), OpenQueue(q), cq' = [cq EXCEPT ![c] = q] PROVE TypeOK'
  <2>1. /\ queues' \in Seq(Queue) /\ Len(queues') \in Nat /\ Len(queues) <= Len(queues')
        /\ q \in 1..Len(queues') /\ name' = q
    BY <1>3, OpenResult
  <2>2. name' \in 0..Len(queues') /\ \A k \in 0..Len(queues) : k \in 0..Len(queues')
    BY <1>1, <2>1
  <2>3. sq' \in [Servers -> 0..Len(queues')] /\ cq' \in [Clients -> 0..Len(queues')]
    BY <1>3, <2>1, <2>2 DEF TypeOK, ClientOpen
  <2> QED
    BY <1>3, <2>1, <2>2, <2>3 DEF TypeOK, ClientOpen
<1>4. ASSUME NEW s \in Servers, Receive(s) PROVE TypeOK'
  <2>1. /\ queues' \in Seq(Queue) /\ Len(queues') = Len(queues)
        /\ Head(queues[sq[s]].msgs) \in Message
        /\ got' = [got EXCEPT ![s] = Append(@, Head(queues[sq[s]].msgs))]
    BY <1>4, ReceiveResult
  <2>2. got' \in [Servers -> Seq(Message)]
    <3>1. Append(got[s], Head(queues[sq[s]].msgs)) \in Seq(Message)
      BY <2>1, AppendProperties DEF TypeOK
    <3> QED
      BY <2>1, <3>1 DEF TypeOK
  <2> QED
    BY <1>4, <2>1, <2>2 DEF TypeOK, Receive, Handle, clientVars
<1>5. ASSUME NEW s \in Servers, RemoveQueue(s) PROVE TypeOK'
  <2>1. queues' \in Seq(Queue) /\ Len(queues') = Len(queues) /\ name' \in 0..Len(queues)
    BY <1>1, <1>5, RemoveResult DEF TypeOK
  <2> QED
    BY <1>5, <2>1 DEF TypeOK, RemoveQueue, clientVars
<1>6. ASSUME NEW s \in Servers, ReceiveFails(s) \/ Kill(s) PROVE TypeOK'
  BY <1>6 DEF TypeOK, ReceiveFails, Handle, Kill, clientVars
<1>7. ASSUME NEW c \in Clients, Send(c) PROVE TypeOK'
  <2>1. queues' \in Seq(Queue) /\ Len(queues') = Len(queues)
    BY <1>7, SendResult
  <2> QED
    BY <1>7, <2>1 DEF TypeOK, Send
<1>8. ASSUME NEW c \in Clients, SendFails(c) PROVE TypeOK'
  BY <1>8 DEF TypeOK, SendFails
<1>9. CASE UNCHANGED vars
  BY <1>9 DEF TypeOK, vars
<1> QED
  BY <1>2, <1>3, <1>4, <1>5, <1>6, <1>7, <1>8, <1>9, StepCases

LEMMA OpenNext == TypeOK /\ OpenInv /\ [Next]_vars => OpenInv'
<1> SUFFICES ASSUME TypeOK, OpenInv, [Next]_vars PROVE OpenInv'
  OBVIOUS
<1> USE DEF TypeOK, OpenInv
<1>1. ASSUME NEW s \in Servers, NEW q \in 1..(Len(queues) + 1), Open(s), sq' = [sq EXCEPT ![s] = q] PROVE OpenInv'
  <2>1. q # 0
    BY LenProperties
  <2> QED
    BY <1>1, <2>1 DEF Open, clientVars
<1>2. ASSUME NEW c \in Clients, NEW q \in 1..(Len(queues) + 1), ClientOpen(c), cq' = [cq EXCEPT ![c] = q] PROVE OpenInv'
  <2>1. q # 0
    BY LenProperties
  <2> QED
    BY <1>2, <2>1 DEF ClientOpen
<1>3. ASSUME NEW s \in Servers, Receive(s) \/ RemoveQueue(s) \/ ReceiveFails(s) \/ Kill(s) PROVE OpenInv'
  BY <1>3 DEF Receive, RemoveQueue, ReceiveFails, Handle, Kill, clientVars
<1>4. ASSUME NEW c \in Clients, Send(c) \/ SendFails(c) PROVE OpenInv'
  BY <1>4 DEF Send, SendFails
<1>5. CASE UNCHANGED vars
  BY <1>5 DEF vars
<1> QED
  BY <1>1, <1>2, <1>3, <1>4, <1>5, StepCases

LEMMA ExistsNext == TypeOK /\ OpenInv /\ ExistsInv /\ [Next]_vars => ExistsInv'
<1> SUFFICES ASSUME TypeOK, OpenInv, ExistsInv, [Next]_vars PROVE ExistsInv'
  OBVIOUS
<1>1. name \in 0..Len(queues) /\ Len(queues) \in Nat
  BY LenProperties DEF TypeOK
<1>2. ASSUME NEW q, OpenQueue(q), api' = api PROVE ExistsInv'
  <2>1. /\ name' = q /\ queues'[q].exists /\ \A r \in 1..Len(queues) : queues'[r] = queues[r]
        /\ \A r \in 1..Len(queues') : r # q => r \in 1..Len(queues)
    BY <1>2, OpenResult
  <2> QED
    BY <1>2, <2>1 DEF ExistsInv
<1>3. ASSUME NEW s \in Servers, Receive(s) PROVE ExistsInv'
  <2>1. Len(queues') = Len(queues) /\ \A q \in 1..Len(queues) : queues'[q].exists = queues[q].exists
    BY <1>3, ReceiveResult
  <2>2. UNCHANGED <<api, name>>
    BY <1>3 DEF Receive
  <2> QED
    BY <1>1, <2>1, <2>2 DEF ExistsInv
<1>4. ASSUME NEW s \in Servers, RemoveQueue(s) PROVE ExistsInv'
  <2>1. api' = api
    BY <1>4 DEF RemoveQueue
  <2> QED
    BY <1>1, <1>4, <2>1, RemoveResult DEF ExistsInv
<1>5. ASSUME NEW c \in Clients, Send(c) PROVE ExistsInv'
  <2>1. Len(queues') = Len(queues) /\ \A q \in 1..Len(queues) : queues'[q].exists = queues[q].exists
    BY <1>5, SendResult
  <2>2. UNCHANGED <<api, name>>
    BY <1>5 DEF Send
  <2> QED
    BY <1>1, <2>1, <2>2 DEF ExistsInv
<1>6. CASE UNCHANGED <<api, queues, name>>
  BY <1>6 DEF ExistsInv
<1> QED
  BY <1>2, <1>3, <1>4, <1>5, <1>6, StepCases DEF Open, ClientOpen, ReceiveFails, Kill, SendFails, vars

\* Servers keep what they received and the queue they opened; nobody is
\* unstarted, and what a client sends was fixed when it was started.
LEMMA HistoryGrows ==
  ASSUME TypeOK, OpenInv, [Next]_vars
  PROVE  /\ UNCHANGED <<api, text>>
         /\ \A s \in Servers : spc[s] # "start" => spc'[s] # "start" /\ sq'[s] = sq[s]
         /\ \A s \in Servers : ToSet(got[s]) \subseteq ToSet(got'[s]) /\ (EndIn(s) => EndIn(s)')
<1>1. UNCHANGED <<api, text>>
  BY StepCases DEF Open, ClientOpen, Receive, RemoveQueue, ReceiveFails, Kill, Send, SendFails, vars, clientVars
<1>2. ASSUME NEW s \in Servers, spc[s] # "start" PROVE spc'[s] # "start" /\ sq'[s] = sq[s]
  BY <1>2, StepCases DEF Open, ClientOpen, Receive, RemoveQueue, ReceiveFails, Handle, Kill, Send, SendFails, vars,
     TypeOK
<1>3. ASSUME NEW s \in Servers, Receive(s), NEW t \in Servers
      PROVE  ToSet(got[t]) \subseteq ToSet(got'[t]) /\ (EndIn(t) => EndIn(t)')
  <2> DEFINE e == Head(queues[sq[s]].msgs)
  <2>1. e \in Message /\ got' = [got EXCEPT ![s] = Append(@, e)] /\ got[s] \in Seq(Message)
    BY <1>3, ReceiveResult DEF TypeOK
  <2> HIDE DEF e
  <2>2. CASE t = s
    <3>1. got'[t] = Append(got[s], e)
      BY <2>1, <2>2 DEF TypeOK
    <3>2. /\ ToSet(Append(got[s], e)) = ToSet(got[s]) \cup {e}
          /\ \A k \in DOMAIN got[s] : k \in DOMAIN Append(got[s], e) /\ Append(got[s], e)[k] = got[s][k]
      BY <2>1, AppendSet
    <3> QED
      BY <2>2, <3>1, <3>2 DEF EndIn
  <2>3. CASE t # s
    BY <2>1, <2>3 DEF TypeOK, EndIn
  <2> QED
    BY <2>2, <2>3
<1>4. CASE UNCHANGED got
  BY <1>1, <1>2, <1>4 DEF EndIn
<1> QED
  BY <1>1, <1>2, <1>3, <1>4, StepCases
     DEF Open, ClientOpen, RemoveQueue, ReceiveFails, Kill, Send, SendFails, vars

LEMMA EndReceivedGrows ==
  ASSUME TypeOK, OpenInv, [Next]_vars, NEW q, q # 0, EndReceived(q)
  PROVE  EndReceived(q)'
<1>1. PICK s \in Servers : sq[s] = q /\ EndIn(s)
  BY DEF EndReceived, EndIn
<1>2. sq'[s] = q /\ EndIn(s)'
  BY <1>1, HistoryGrows DEF OpenInv
<1> QED
  BY <1>2 DEF EndReceived, EndIn

LEMMA SingleStays ==
  ASSUME TypeOK, OpenInv, [Next]_vars, Single'
  PROVE  Single
  BY HistoryGrows DEF Single, OneServer

LEMMA RemoveNext == TypeOK /\ OpenInv /\ ExistsInv /\ RemoveInv /\ [Next]_vars => RemoveInv'
<1> SUFFICES ASSUME TypeOK, OpenInv, ExistsInv, RemoveInv, [Next]_vars,
                    NEW t \in Servers, spc'[t] = "remove", queues'[sq'[t]].exists
             PROVE  EndIn(t)'
  BY DEF RemoveInv
<1>1. EndIn(t) => EndIn(t)'
  BY HistoryGrows
\* A queue that is gone stays gone.
<1>2. ASSUME spc[t] = "remove" PROVE EndIn(t)'
  <2>1. sq'[t] = sq[t] /\ sq[t] \in 1..Len(queues)
    BY <1>2, HistoryGrows, LenProperties DEF TypeOK, OpenInv
  <2>2. ASSUME NEW q \in 1..Len(queues), ~ queues[q].exists PROVE ~ queues'[q].exists
    <3>1. ASSUME NEW r, OpenQueue(r) PROVE ~ queues'[q].exists
      BY <2>2, <3>1, OpenResult
    <3>2. ASSUME NEW s \in Servers, Receive(s) PROVE ~ queues'[q].exists
      BY <2>2, <3>2, ReceiveResult
    <3>3. ASSUME NEW s \in Servers, RemoveQueue(s) PROVE ~ queues'[q].exists
      BY <2>2, <3>3, RemoveResult
    <3>4. ASSUME NEW c \in Clients, Send(c) PROVE ~ queues'[q].exists
      BY <2>2, <3>4, SendResult
    <3>5. CASE UNCHANGED queues
      BY <2>2, <3>5
    <3> QED
      BY <3>1, <3>2, <3>3, <3>4, <3>5, StepCases DEF ReceiveFails, Kill, SendFails, vars
  <2>3. queues[sq[t]].exists
    BY <2>1, <2>2
  <2> QED
    BY <1>1, <1>2, <2>3 DEF RemoveInv
<1>3. ASSUME spc[t] # "remove", Receive(t) PROVE EndIn(t)'
  <2> DEFINE e == Head(queues[sq[t]].msgs)
  <2>1. e \in Message /\ got' = [got EXCEPT ![t] = Append(@, e)] /\ e.text = End
    BY <1>3, ReceiveResult
  <2> HIDE DEF e
  <2>2. got'[t] = Append(got[t], e) /\ got[t] \in Seq(Message)
    BY <2>1 DEF TypeOK
  <2>3. e \in ToSet(got'[t])
    BY <2>1, <2>2, AppendSet
  <2> QED
    BY <2>1, <2>3 DEF EndIn, ToSet
<1>4. ASSUME spc[t] # "remove", ReceiveFails(t) PROVE FALSE
  BY <1>4 DEF ReceiveFails
<1>5. spc[t] # "remove" => Receive(t) \/ ReceiveFails(t)
  BY StepCases DEF Open, ClientOpen, Receive, RemoveQueue, ReceiveFails, Handle, Kill, Send, SendFails, vars, TypeOK
<1> QED
  BY <1>2, <1>3, <1>4, <1>5

LEMMA NameNext == TypeOK /\ OpenInv /\ ExistsInv /\ NameInv /\ [Next]_vars => NameInv'
<1> SUFFICES ASSUME TypeOK, OpenInv, ExistsInv, NameInv, [Next]_vars, Single', api' # "sysv",
                    NEW t \in Servers, spc'[t] \in {"receive", "remove"}
             PROVE  sq'[t] = name'
  BY DEF NameInv
<1>1. Single /\ api # "sysv"
  BY SingleStays, HistoryGrows
<1>2. spc[t] \in {"receive", "remove"} => sq[t] = name /\ sq'[t] = name
  BY <1>1, HistoryGrows DEF NameInv
<1>3. \A s \in Servers : spc'[s] # "start" => s = t
  BY <1>1, HistoryGrows DEF Single, OneServer
<1>4. ASSUME NEW s \in Servers, NEW q, Open(s), OpenQueue(q), sq' = [sq EXCEPT ![s] = q] PROVE sq'[t] = name'
  <2>1. s = t
    BY <1>3, <1>4 DEF Open, TypeOK
  <2> QED
    BY <1>4, <2>1, OpenResult DEF TypeOK
<1>5. ASSUME NEW c \in Clients, NEW q, ClientOpen(c), OpenQueue(q) PROVE sq'[t] = name'
  <2>1. spc[t] \in {"receive", "remove"}
    BY <1>5 DEF ClientOpen
  <2>2. name # 0
    BY <1>2, <2>1 DEF OpenInv
  <2> QED
    BY <1>2, <1>5, <2>1, <2>2 DEF OpenQueue
<1>6. ASSUME NEW s \in Servers, RemoveQueue(s) PROVE FALSE
  <2>1. spc'[s] = "exited"
    BY <1>6 DEF RemoveQueue, TypeOK
  <2> QED
    BY <1>3, <2>1
<1>7. CASE UNCHANGED name /\ spc[t] \in {"receive", "remove"}
  BY <1>2, <1>7
<1>8. ASSUME NEW s \in Servers, Receive(s) \/ ReceiveFails(s) \/ Kill(s)
      PROVE  UNCHANGED name /\ spc[t] \in {"receive", "remove"}
  BY <1>8 DEF Receive, ReceiveFails, Handle, Kill, TypeOK
<1>9. ASSUME NEW c \in Clients, Send(c) \/ SendFails(c)
      PROVE  UNCHANGED name /\ spc[t] \in {"receive", "remove"}
  BY <1>9 DEF Send, SendFails
<1> QED
  BY <1>4, <1>5, <1>6, <1>7, <1>8, <1>9, StepCases DEF vars

\* A queue loses its key or name only to a server that received "end" from it.
LEMMA EndedNext == IndInv /\ [Next]_vars => EndedInv'
<1> SUFFICES ASSUME IndInv, [Next]_vars, Single', NEW q \in 1..Len(queues'), q # name'
             PROVE  EndReceived(q)'
  BY DEF EndedInv
<1> USE DEF IndInv
<1>1. Single /\ Len(queues) \in Nat
  BY SingleStays, LenProperties DEF TypeOK
<1>2. ASSUME q \in 1..Len(queues), q # name PROVE EndReceived(q)'
  BY <1>1, <1>2, EndReceivedGrows DEF EndedInv
<1>3. ASSUME NEW r, OpenQueue(r) PROVE EndReceived(q)'
  BY <1>2, <1>3, OpenResult
<1>4. ASSUME NEW s \in Servers, RemoveQueue(s) PROVE EndReceived(q)'
  <2>1. Len(queues') = Len(queues) /\ name' = IF api # "sysv" \/ name = sq[s] THEN 0 ELSE name
    BY <1>4, RemoveResult
  <2>2. CASE q = name
    <3>1. queues[q].exists /\ q # 0
      BY <1>1, <2>1, <2>2 DEF ExistsInv
    <3>2. sq[s] = q
      BY <1>1, <1>4, <2>1, <2>2 DEF NameInv, RemoveQueue
    <3>3. EndIn(s)
      BY <1>4, <3>1, <3>2 DEF RemoveInv, RemoveQueue
    <3>4. EndReceived(q)
      BY <3>2, <3>3 DEF EndReceived, EndIn
    <3> QED
      BY <3>1, <3>4, EndReceivedGrows
  <2>3. CASE q # name
    BY <1>2, <2>1, <2>3
  <2> QED
    BY <2>2, <2>3
<1>5. ASSUME NEW s \in Servers, Receive(s) PROVE EndReceived(q)'
  <2>1. Len(queues') = Len(queues) /\ name' = name
    BY <1>5, ReceiveResult DEF Receive
  <2> QED
    BY <1>2, <2>1
<1>6. ASSUME NEW c \in Clients, Send(c) PROVE EndReceived(q)'
  <2>1. Len(queues') = Len(queues) /\ name' = name
    BY <1>6, SendResult DEF Send
  <2> QED
    BY <1>2, <2>1
<1>7. CASE UNCHANGED <<queues, name>>
  BY <1>2, <1>7
<1> QED
  BY <1>3, <1>4, <1>5, <1>6, <1>7, StepCases DEF ReceiveFails, Kill, SendFails, vars

LEMMA KeptNext == IndInv /\ [Next]_vars => KeptInv'
<1> SUFFICES ASSUME IndInv, [Next]_vars, NEW c \in Clients, cpc'[c] = "success", ~ EndReceived(cq[c])',
                    cq'[c] = cq[c], ~ Received(c)'
             PROVE  Msg(c)' \in ToSet(queues'[cq[c]].msgs)
  <2>1. ASSUME IndInv, [Next]_vars, NEW c \in Clients, cpc'[c] = "success" PROVE cq'[c] = cq[c]
    BY <2>1, StepCases DEF Open, ClientOpen, Receive, RemoveQueue, ReceiveFails, Kill, Send, SendFails, vars,
       clientVars, IndInv, TypeOK
  <2> QED
    BY <2>1 DEF KeptInv, EndReceived
<1> USE DEF IndInv
<1>1. /\ cpc[c] = "success" \/ Send(c)
      /\ cq[c] \in 1..Len(queues)
  <2>1. cpc[c] = "success" \/ Send(c)
    BY StepCases DEF Open, ClientOpen, Receive, RemoveQueue, ReceiveFails, Kill, Send, SendFails, vars, clientVars, TypeOK
  <2>2. cq[c] # 0
    BY <2>1 DEF OpenInv, Send
  <2> QED
    BY <2>1, <2>2, LenProperties DEF TypeOK
<1>2. ~ EndReceived(cq[c])
  BY <1>1, EndReceivedGrows, LenProperties DEF TypeOK
<1>3. Msg(c)' = Msg(c)
  BY HistoryGrows DEF Msg
<1>4. ~ Received(c)
  <2> SUFFICES ASSUME NEW s \in Servers, Msg(c) \in ToSet(got[s]) PROVE FALSE
    BY DEF Received
  <2>1. Msg(c)' \in ToSet(got'[s])
    BY <1>3, HistoryGrows
  <2> QED
    BY <2>1 DEF Received
<1>5. CASE Send(c)
  BY <1>3, <1>5, SendResult
<1>6. ASSUME cpc[c] = "success" PROVE Msg(c) \in ToSet(queues'[cq[c]].msgs)
  <2>1. Msg(c) \in ToSet(queues[cq[c]].msgs)
    BY <1>2, <1>4, <1>6 DEF KeptInv
  <2>2. ASSUME NEW q, OpenQueue(q) PROVE Msg(c) \in ToSet(queues'[cq[c]].msgs)
    BY <1>1, <2>1, <2>2, OpenResult
  <2>3. ASSUME NEW s \in Servers, Receive(s) PROVE Msg(c) \in ToSet(queues'[cq[c]].msgs)
    <3> DEFINE e == Head(queues[sq[s]].msgs)
    <3>1. /\ \A q \in 1..Len(queues) : q # sq[s] => queues'[q] = queues[q]
          /\ e \in Message
          /\ ToSet(queues[sq[s]].msgs) \subseteq ToSet(queues'[sq[s]].msgs) \cup {e}
          /\ got' = [got EXCEPT ![s] = Append(@, e)]
      BY <2>3, ReceiveResult
    <3> HIDE DEF e
    <3>2. CASE sq[s] = cq[c] /\ Msg(c) = e
      <4>1. got'[s] = Append(got[s], e) /\ got[s] \in Seq(Message)
        BY <3>1 DEF TypeOK
      <4>2. e \in ToSet(got'[s])
        BY <3>1, <4>1, AppendSet
      <4>3. Received(c)'
        BY <1>3, <3>2, <4>2 DEF Received
      <4> QED
        BY <4>3
    <3> QED
      BY <1>1, <2>1, <3>1, <3>2
  <2>4. ASSUME NEW s \in Servers, RemoveQueue(s) PROVE Msg(c) \in ToSet(queues'[cq[c]].msgs)
    <3>1. ASSUME api = "sysv", sq[s] = cq[c] PROVE FALSE
      <4>1. ~ EndIn(s)
        BY <1>2, <3>1 DEF EndReceived, EndIn
      <4>2. ~ queues[cq[c]].exists
        BY <2>4, <3>1, <4>1 DEF RemoveInv, RemoveQueue
      <4>3. cq[c] # name
        BY <1>1, <4>2 DEF ExistsInv
      <4> QED
        BY <1>1, <1>2, <3>1, <4>3 DEF EndedInv, Single
    <3> QED
      BY <1>1, <2>1, <2>4, <3>1, RemoveResult
  <2>5. ASSUME NEW d \in Clients, Send(d) PROVE Msg(c) \in ToSet(queues'[cq[c]].msgs)
    BY <1>1, <2>1, <2>5, SendResult
  <2>6. CASE UNCHANGED queues
    BY <2>1, <2>6
  <2> QED
    BY <2>2, <2>3, <2>4, <2>5, <2>6, StepCases DEF ReceiveFails, Kill, SendFails, vars
<1> QED
  BY <1>1, <1>3, <1>5, <1>6

-----------------------------------------------------------------------------
(* The theorems. *)

LEMMA IndInvInvariant == Spec => []IndInv
<1>1. IndInv /\ [Next]_vars => IndInv'
  BY TypeNext, OpenNext, ExistsNext, RemoveNext, NameNext, EndedNext, KeptNext DEF IndInv
<1> QED
  BY <1>1, InitIndInv, PTL DEF Spec

\* What msgsnd or mq_send accepted is received, or it is in the queue that the
\* next msgget or mq_open will find, until some server receives "end" from that
\* queue: for any number of System V servers and clients, and for any number of
\* clients of one POSIX server, killed at any point or not.
THEOREM SentMessagesKept == Spec => []SentNotLost
<1>1. IndInv => SentNotLost
  <2> SUFFICES ASSUME IndInv, Single, NEW c \in Clients, cpc[c] = "success", ~ EndReceived(cq[c])
               PROVE  Received(c) \/ (cq[c] = name /\ Msg(c) \in ToSet(queues[cq[c]].msgs))
    BY DEF SentNotLost, Single
  <2>1. cq[c] \in 1..Len(queues)
    BY LenProperties DEF IndInv, TypeOK, OpenInv
  <2>2. cq[c] = name
    BY <2>1 DEF IndInv, EndedInv
  <2> QED
    BY <2>2 DEF IndInv, KeptInv
<1> QED
  BY <1>1, IndInvInvariant, PTL

=============================================================================
