-------------------------- MODULE DictionaryProofs --------------------------
(***************************************************************************)
(* What the clients of homework/hw11 print is true of the dictionary, and  *)
(* is the answer to the word just typed, for every number of clients,      *)
(* words, queries and faults, under the conditions of the properties.      *)
(*                                                                         *)
(* The invariant follows the one record that a client and its server pass  *)
(* back and forth: while the connection is whole and no datagram has been  *)
(* duplicated, it is in one place at most (the query, the server's memory, *)
(* or the reply), and carries the word the client waits for.               *)
(***************************************************************************)
EXTENDS Dictionary, SequenceTheorems, TLAPS

Dictrec == [word : Words \cup {"none", "junk"}, text : Words \cup {"none", "junk", "XXXX"}]

TypeOK ==
    /\ cpc \in [Clients -> {"main", "connect", "send", "recv", "done", "died"}]
    /\ sought \in [Clients -> Dictrec]
    /\ conn \in [Clients -> {"none", "backlog", "accepted"}]
    /\ query \in [Clients -> Seq(Dictrec)]
    /\ reply \in [Clients -> Seq(Dictrec)]
    /\ spc \in {"accept", "fork", "close", "recvfrom", "lookup", "dead"}
    /\ cd \in Clients \cup {NoClient}
    /\ kpc \in [Clients -> {"none", "recv", "lookup", "exited"}]
    /\ tryit \in [Clients \cup {NoClient} -> Dictrec]
    /\ asked \in [Clients -> Seq(Words)]
    /\ answers \in [Clients -> Seq(Dictrec)]
    /\ faults \in [short : SUBSET Clients, lost : Nat, dups : Nat, kills : Nat]

\* The three programs: forking servers have children and connections, the UDP
\* server has neither.
ModeInv ==
    /\ IF UDP
       THEN /\ spc \in {"recvfrom", "lookup", "dead"}
            /\ \A c \in Clients : kpc[c] = "none" /\ cpc[c] # "connect"
            /\ faults.short = {}
       ELSE /\ spc \in {"accept", "fork", "close", "dead"}
            /\ faults.dups = 0
            /\ \A c \in Clients :
                 /\ cpc[c] = "connect" => conn[c] = "none"
                 /\ cpc[c] \in {"send", "recv"} => conn[c] # "none"
                 /\ kpc[c] # "none" \/ cd = c => conn[c] = "accepted"
    /\ spc \in {"fork", "close", "lookup"} => cd # NoClient

\* lookup() is called once for each word typed, and prints one record.
TurnInv ==
    \A c \in Clients :
        /\ cpc[c] \in {"main", "done"} => Len(answers[c]) = Len(asked[c])
        /\ cpc[c] \in {"connect", "send", "recv", "died"} => Len(answers[c]) + 1 = Len(asked[c])
        /\ cpc[c] \in {"connect", "send", "recv"} => sought[c].word = asked[c][Len(asked[c])]

InServer(c) == IF UDP THEN spc = "lookup" /\ cd = c ELSE kpc[c] = "lookup"
Held(c) == IF UDP THEN tryit[NoClient] ELSE tryit[c]

\* The record is in one place, and only while the client waits for it.
Token(c) ==
    /\ cpc[c] # "recv" => query[c] = <<>> /\ reply[c] = <<>> /\ ~ InServer(c)
    /\ query[c] # <<>> =>
         /\ reply[c] = <<>> /\ ~ InServer(c)
         /\ Len(query[c]) = 1 /\ query[c][1].word = sought[c].word
    /\ reply[c] # <<>> =>
         /\ query[c] = <<>> /\ ~ InServer(c)
         /\ Len(reply[c]) = 1 /\ reply[c][1].word = sought[c].word
    /\ InServer(c) => Held(c).word = sought[c].word

Clean(c) == Whole(c) /\ faults.dups = 0

TokenInv == \A c \in Clients : Clean(c) => Token(c)

\* All records that come from a server are true.
TruthInv ==
    \A c \in Clients : Whole(c) =>
        /\ \A k \in DOMAIN reply[c] : True(reply[c][k])
        /\ \A k \in DOMAIN answers[c] : True(answers[c][k])

\* With datagrams, every record on its way carries a word its client has typed.
Asked(c, r) == \E j \in 1..Len(asked[c]) : r.word = asked[c][j]

WordInv ==
    UDP => \A c \in Clients :
        /\ \A k \in DOMAIN query[c] : Asked(c, query[c][k])
        /\ \A k \in DOMAIN reply[c] : Asked(c, reply[c][k])
        /\ InServer(c) => Asked(c, Held(c))

IndInv == TypeOK /\ ModeInv /\ TurnInv /\ TokenInv /\ TruthInv /\ WordInv /\ AnswersInStep

-----------------------------------------------------------------------------

LEMMA NoRecType == NoRec \in Dictrec /\ Remainder \in Dictrec
  BY DEF NoRec, Remainder, Rec, Dictrec

LEMMA InitIndInv == Init => IndInv
<1> SUFFICES ASSUME Init PROVE IndInv
  OBVIOUS
<1>1. TypeOK
  <2>1. <<>> \in Seq(Dictrec) /\ <<>> \in Seq(Words)
    BY EmptySeq
  <2>2. /\ query \in [Clients -> Seq(Dictrec)] /\ reply \in [Clients -> Seq(Dictrec)]
        /\ answers \in [Clients -> Seq(Dictrec)] /\ asked \in [Clients -> Seq(Words)]
    BY <2>1 DEF Init
  <2>3. faults \in [short : SUBSET Clients, lost : Nat, dups : Nat, kills : Nat]
    BY DEF Init
  <2>4. sought \in [Clients -> Dictrec] /\ tryit \in [Clients \cup {NoClient} -> Dictrec]
    BY NoRecType DEF Init
  <2>5. spc \in {"accept", "recvfrom"}
    BY DEF Init
  <2> QED
    BY <2>2, <2>3, <2>4, <2>5 DEF Init, TypeOK
<1>2. ModeInv
  BY ClientsAssumption DEF Init, ModeInv, NoClient
<1>3. \A c \in Clients : /\ query[c] = <<>> /\ reply[c] = <<>> /\ answers[c] = <<>> /\ asked[c] = <<>>
                         /\ cpc[c] = "main" /\ ~ InServer(c)
  BY DEF Init, InServer
<1>4. TurnInv
  BY <1>3 DEF TurnInv
<1>5. TokenInv
  BY <1>3 DEF TokenInv, Token
<1>6. DOMAIN <<>> = {}
  BY EmptySeq
<1>7. TruthInv /\ WordInv /\ AnswersInStep
  BY <1>3, <1>6 DEF TruthInv, WordInv, AnswersInStep
<1> QED
  BY <1>1, <1>2, <1>4, <1>5, <1>7 DEF IndInv

(* Sequences. *)

\* t has only elements of s.
From(t, s) == \A k \in DOMAIN t : \E j \in DOMAIN s : t[k] = s[j]

LEMMA RestSeq ==
  ASSUME NEW S, NEW s \in Seq(S), s # <<>>
  PROVE  /\ Rest(s) \in Seq(S) /\ Len(Rest(s)) = Len(s) - 1 /\ From(Rest(s), s)
         /\ Len(s) = 1 => Rest(s) = <<>>
<1>1. Len(s) \in Nat /\ Len(s) > 0 /\ DOMAIN s = 1..Len(s)
  BY LenProperties, EmptySeq
<1>2. \A k \in 2..Len(s) : s[k] \in S
  BY <1>1, ElementOfSeq
<1>3. /\ Rest(s) \in Seq(S)
      /\ Len(Rest(s)) = IF 2 <= Len(s) THEN Len(s) - 2 + 1 ELSE 0
      /\ \A k \in 1..(Len(s) - 2 + 1) : Rest(s)[k] = s[2 + k - 1]
  BY <1>1, <1>2, SubSeqProperties DEF Rest
<1>4. Len(Rest(s)) = Len(s) - 1 /\ DOMAIN Rest(s) = 1..(Len(s) - 1)
  <2>0. \A n \in Nat : n > 0 => (IF 2 <= n THEN n - 2 + 1 ELSE 0) = n - 1
    OBVIOUS
  <2>1. Len(Rest(s)) = Len(s) - 1
    BY <1>1, <1>3, <2>0
  <2> QED
    BY <1>3, <2>1, LenProperties
<1>5. From(Rest(s), s)
  <2> SUFFICES ASSUME NEW k \in 1..(Len(s) - 1) PROVE \E j \in 1..Len(s) : Rest(s)[k] = s[j]
    BY <1>1, <1>4 DEF From
  <2>1. 2 + k - 1 \in 1..Len(s) /\ k \in 1..(Len(s) - 2 + 1)
    BY <1>1
  <2> QED
    BY <1>3, <2>1
<1>6. Len(s) = 1 => Rest(s) = <<>>
  BY <1>3, <1>4, EmptySeq
<1> QED
  BY <1>3, <1>4, <1>5, <1>6

LEMMA RemoveAtSeq ==
  ASSUME NEW S, NEW s \in Seq(S), NEW i \in DOMAIN s
  PROVE  /\ RemoveAt(s, i) \in Seq(S) /\ From(RemoveAt(s, i), s)
         /\ Len(s) = 1 => RemoveAt(s, i) = <<>> /\ i = 1
<1>1. Len(s) \in Nat /\ DOMAIN s = 1..Len(s) /\ i \in 1..Len(s)
  BY LenProperties
<1> DEFINE a == SubSeq(s, 1, i - 1)
           b == SubSeq(s, i + 1, Len(s))
<1>2. \A k \in 1..Len(s) : s[k] \in S
  BY ElementOfSeq
<1>3. a \in Seq(S) /\ Len(a) = i - 1 /\ \A k \in 1..(i - 1) : a[k] = s[k]
  <2>1. \A k \in 1..(i - 1) : s[k] \in S
    BY <1>1, <1>2
  <2>2. /\ a \in Seq(S) /\ Len(a) = IF 1 <= i - 1 THEN i - 1 - 1 + 1 ELSE 0
        /\ \A k \in 1..(i - 1 - 1 + 1) : a[k] = s[1 + k - 1]
    BY <1>1, <2>1, SubSeqProperties
  <2> QED
    BY <1>1, <2>2
<1>4. b \in Seq(S) /\ Len(b) = Len(s) - i /\ \A k \in 1..(Len(s) - i) : b[k] = s[i + k]
  <2>1. \A k \in (i + 1)..Len(s) : s[k] \in S
    BY <1>1, <1>2
  <2>2. /\ b \in Seq(S) /\ Len(b) = IF i + 1 <= Len(s) THEN Len(s) - (i + 1) + 1 ELSE 0
        /\ \A k \in 1..(Len(s) - (i + 1) + 1) : b[k] = s[(i + 1) + k - 1]
    BY <1>1, <2>1, SubSeqProperties
  <2> QED
    BY <1>1, <2>2
<1>5. RemoveAt(s, i) = a \o b
  BY DEF RemoveAt
<1> HIDE DEF a, b
<1>6. /\ a \o b \in Seq(S) /\ Len(a \o b) = Len(s) - 1
      /\ \A k \in 1..(Len(s) - 1) : (a \o b)[k] = IF k <= i - 1 THEN a[k] ELSE b[k - (i - 1)]
  <2>1. Len(a) + Len(b) = Len(s) - 1
    BY <1>1, <1>3, <1>4
  <2>2. /\ a \o b \in Seq(S) /\ Len(a \o b) = Len(a) + Len(b)
        /\ \A k \in 1..(Len(a) + Len(b)) : (a \o b)[k] = IF k <= Len(a) THEN a[k] ELSE b[k - Len(a)]
    BY <1>3, <1>4, ConcatProperties
  <2>3. Len(a) = i - 1
    BY <1>3
  <2> QED
    BY <2>1, <2>2, <2>3
<1>7. DOMAIN (a \o b) = 1..(Len(s) - 1)
  BY <1>6, LenProperties
<1>8. From(a \o b, s)
  <2> SUFFICES ASSUME NEW k \in 1..(Len(s) - 1) PROVE \E j \in 1..Len(s) : (a \o b)[k] = s[j]
    BY <1>1, <1>7 DEF From
  <2>1. CASE k <= i - 1
    <3>1. k \in 1..(i - 1) /\ k \in 1..Len(s)
      BY <1>1, <2>1
    <3> QED
      BY <1>3, <1>6, <2>1, <3>1
  <2>2. CASE ~ (k <= i - 1)
    <3>1. k - (i - 1) \in 1..(Len(s) - i) /\ i + (k - (i - 1)) \in 1..Len(s)
      BY <1>1, <2>2
    <3> QED
      BY <1>4, <1>6, <2>2, <3>1
  <2> QED
    BY <2>1, <2>2
<1>9. Len(s) = 1 => a \o b = <<>> /\ i = 1
  BY <1>1, <1>6, EmptySeq
<1> QED
  BY <1>5, <1>6, <1>8, <1>9

LEMMA AppendSeq ==
  ASSUME NEW S, NEW s \in Seq(S), NEW e \in S
  PROVE  /\ Append(s, e) \in Seq(S) /\ Append(s, e) # <<>> /\ Len(Append(s, e)) = Len(s) + 1
         /\ Append(s, e)[Len(s) + 1] = e
         /\ \A k \in 1..Len(s) : Append(s, e)[k] = s[k]
         /\ DOMAIN s = 1..Len(s) /\ Len(s) \in Nat /\ DOMAIN Append(s, e) = 1..(Len(s) + 1)
<1>1. /\ Append(s, e) \in Seq(S) /\ Len(Append(s, e)) = Len(s) + 1
      /\ Append(s, e)[Len(s) + 1] = e
      /\ \A k \in 1..Len(s) : Append(s, e)[k] = s[k]
  BY AppendProperties
<1> QED
  BY <1>1, LenProperties, EmptySeq

(* What recv() does to the record and the stream. *)

LEMMA ReceivedCases ==
  ASSUME NEW c, NEW r, NEW s, NEW m \in Received(c, r, s)
  PROVE  IF UDP
         THEN \E i \in DOMAIN s : m = [rec |-> s[i], rest |-> RemoveAt(s, i), short |-> FALSE]
         ELSE \/ m = [rec |-> Head(s), rest |-> Rest(s), short |-> FALSE]
              \/ /\ Len(s) > 1
                 /\ m = [rec |-> Head(s), rest |-> <<Remainder>> \o Rest(Rest(s)), short |-> FALSE]
              \/ m = [rec |-> [r EXCEPT !.word = Head(s).word], rest |-> <<Remainder>> \o Rest(s), short |-> TRUE]
<1>1. CASE UDP
  <2>1. Received(c, r, s) = {[rec |-> s[i], rest |-> RemoveAt(s, i), short |-> FALSE] : i \in DOMAIN s}
    BY <1>1 DEF Received
  <2> QED
    BY <1>1, <2>1
<1>2. CASE ~ UDP
  <2> DEFINE next(t) == [rec |-> Head(s), rest |-> t, short |-> FALSE]
             part == [rec |-> [r EXCEPT !.word = Head(s).word], rest |-> <<Remainder>> \o Rest(s), short |-> TRUE]
  <2>1. CASE Head(s) = Remainder /\ Len(s) > 1
    <3>1. Received(c, r, s) = {next(Rest(s)), next(<<Remainder>> \o Rest(Rest(s)))}
      BY <1>2, <2>1 DEF Received
    <3> QED
      BY <1>2, <2>1, <3>1
  <2>2. CASE ~ (Head(s) = Remainder /\ Len(s) > 1)
    <3>1. Received(c, r, s) \in {{next(Rest(s)), part}, {next(Rest(s))}}
      BY <1>2, <2>2 DEF Received
    <3> QED
      BY <1>2, <3>1
  <2> QED
    BY <2>1, <2>2
<1> QED
  BY <1>1, <1>2

LEMMA ReceivedResult ==
  ASSUME NEW c, NEW r \in Dictrec, NEW s \in Seq(Dictrec), s # <<>>, NEW m \in Received(c, r, s)
  PROVE  /\ m.rec \in Dictrec /\ m.rest \in Seq(Dictrec) /\ m.short \in BOOLEAN
         /\ UDP => ~ m.short /\ From(m.rest, s) /\ \E i \in DOMAIN s : m.rec = s[i]
         /\ Len(s) = 1 /\ ~ m.short => m.rec = s[1] /\ m.rest = <<>>
<1>1. CASE UDP
  <2>1. PICK i \in DOMAIN s : m = [rec |-> s[i], rest |-> RemoveAt(s, i), short |-> FALSE]
    BY <1>1, ReceivedCases
  <2>2. m.rec = s[i] /\ m.rest = RemoveAt(s, i) /\ m.short = FALSE
    BY <2>1
  <2>3. s[i] \in Dictrec
    BY ElementOfSeq, LenProperties
  <2> QED
    BY <2>2, <2>3, RemoveAtSeq
<1>2. CASE ~ UDP
  <2>1. Head(s) = s[1] /\ Head(s) \in Dictrec
    BY HeadTailProperties
  <2>2. Rest(s) \in Seq(Dictrec) /\ Len(Rest(s)) = Len(s) - 1 /\ (Len(s) = 1 => Rest(s) = <<>>) /\ Len(s) \in Nat
    BY RestSeq, LenProperties
  <2>3. <<Remainder>> \in Seq(Dictrec)
    BY NoRecType
  <2>4. CASE m = [rec |-> Head(s), rest |-> Rest(s), short |-> FALSE]
    BY <1>2, <2>1, <2>2, <2>4
  <2>5. CASE Len(s) > 1 /\ m = [rec |-> Head(s), rest |-> <<Remainder>> \o Rest(Rest(s)), short |-> FALSE]
    <3>1. Rest(s) # <<>>
      BY <2>2, <2>5, EmptySeq
    <3>2. Rest(Rest(s)) \in Seq(Dictrec)
      BY <2>2, <3>1, RestSeq
    <3>3. <<Remainder>> \o Rest(Rest(s)) \in Seq(Dictrec)
      BY <2>3, <3>2, ConcatProperties
    <3> QED
      BY <1>2, <2>1, <2>2, <2>5, <3>3
  <2>6. CASE m = [rec |-> [r EXCEPT !.word = Head(s).word], rest |-> <<Remainder>> \o Rest(s), short |-> TRUE]
    <3>1. <<Remainder>> \o Rest(s) \in Seq(Dictrec)
      BY <2>2, <2>3, ConcatProperties
    <3>2. [r EXCEPT !.word = Head(s).word] \in Dictrec
      BY <2>1 DEF Dictrec
    <3> QED
      BY <1>2, <2>6, <3>1, <3>2
  <2> QED
    BY <1>2, <2>4, <2>5, <2>6, ReceivedCases
<1> QED
  BY <1>1, <1>2

LEMMA AnswerResult ==
  ASSUME NEW r \in Dictrec
  PROVE  Answer(r) \in Dictrec /\ Answer(r).word = r.word /\ True(Answer(r))
<1>1. Answer(r).word = r.word /\ Answer(r).text = IF r.word \in Known THEN r.word ELSE "XXXX"
  BY DEF Answer, Rec
<1>2. "XXXX" \notin Known
  BY KnownAssumption, TextAssumption
<1>3. Answer(r) \in Dictrec
  BY KnownAssumption DEF Answer, Rec, Dictrec
<1> QED
  BY <1>1, <1>2, <1>3 DEF True, Found

-----------------------------------------------------------------------------
(* The steps. *)

LEMMA CountFault ==
  ASSUME NEW S, NEW f \in [short : S, lost : Nat, dups : Nat, kills : Nat]
  PROVE  /\ [f EXCEPT !.kills = @ + 1] \in [short : S, lost : Nat, dups : Nat, kills : Nat]
         /\ [f EXCEPT !.lost = @ + 1] \in [short : S, lost : Nat, dups : Nat, kills : Nat]
         /\ [f EXCEPT !.dups = @ + 1] \in [short : S, lost : Nat, dups : Nat, kills : Nat]
<1>1. [f EXCEPT !.kills = @ + 1] \in [short : S, lost : Nat, dups : Nat, kills : Nat]
  OBVIOUS
<1>2. [f EXCEPT !.lost = @ + 1] \in [short : S, lost : Nat, dups : Nat, kills : Nat]
  OBVIOUS
<1>3. [f EXCEPT !.dups = @ + 1] \in [short : S, lost : Nat, dups : Nat, kills : Nat]
  OBVIOUS
<1> QED
  BY <1>1, <1>2, <1>3

LEMMA TypeNext == TypeOK /\ ModeInv /\ [Next]_vars => TypeOK'
<1> SUFFICES ASSUME TypeOK, ModeInv, [Next]_vars PROVE TypeOK'
  OBVIOUS
<1> USE DEF TypeOK, clientVars, serverVars
<1>1. ASSUME NEW c \in Clients, NEW w \in Words, Ask(c, w) PROVE TypeOK'
  <2>1. asked' \in [Clients -> Seq(Words)]
    BY <1>1, AppendSeq DEF Ask
  <2>2. ASSUME NEW r \in Dictrec PROVE [r EXCEPT !.word = w] \in Dictrec
    BY DEF Dictrec
  <2>3. sought' \in [Clients -> Dictrec]
    BY <1>1, <2>2 DEF Ask
  <2> QED
    BY <1>1, <2>1, <2>3 DEF Ask
<1>2. ASSUME NEW c \in Clients, Done(c) \/ Connect(c) \/ SendBroken(c) \/ RecvReset(c) PROVE TypeOK'
  BY <1>2 DEF Done, Connect, SendBroken, RecvReset
<1>3. ASSUME NEW c \in Clients, Send(c) PROVE TypeOK'
  <2>1. query' \in [Clients -> Seq(Dictrec)]
    BY <1>3, AppendSeq DEF Send
  <2> QED
    BY <1>3, <2>1 DEF Send
<1>4. ASSUME NEW c \in Clients, RecvEof(c) PROVE TypeOK'
  <2>1. answers' \in [Clients -> Seq(Dictrec)]
    BY <1>4, AppendSeq DEF RecvEof
  <2> QED
    BY <1>4, <2>1 DEF RecvEof
<1>5. ASSUME NEW c \in Clients, Recv(c) PROVE TypeOK'
  <2>1. PICK m \in Received(c, sought[c], reply[c]) :
           /\ sought' = [sought EXCEPT ![c] = m.rec]
           /\ answers' = [answers EXCEPT ![c] = Append(@, m.rec)]
           /\ reply' = [reply EXCEPT ![c] = m.rest]
           /\ faults' = IF m.short THEN [faults EXCEPT !.short = @ \cup {c}] ELSE faults
    BY <1>5 DEF Recv
  <2>2. m.rec \in Dictrec /\ m.rest \in Seq(Dictrec)
    BY <1>5, ReceivedResult DEF Recv
  <2>3. answers' \in [Clients -> Seq(Dictrec)]
    BY <2>1, <2>2, AppendSeq
  <2>4. faults' \in [short : SUBSET Clients, lost : Nat, dups : Nat, kills : Nat]
    BY <2>1
  <2> QED
    BY <1>5, <2>1, <2>2, <2>3, <2>4 DEF Recv
<1>6. ASSUME NEW c \in Clients, Accept(c) \/ UdpRecv(c) PROVE TypeOK'
  <2>1. CASE Accept(c)
    BY <2>1 DEF Accept
  <2>2. CASE UdpRecv(c)
    <3>1. PICK m \in Received(c, tryit[NoClient], query[c]) :
             /\ tryit' = [tryit EXCEPT ![NoClient] = m.rec]
             /\ query' = [query EXCEPT ![c] = m.rest]
      BY <2>2 DEF UdpRecv
    <3>2. m.rec \in Dictrec /\ m.rest \in Seq(Dictrec)
      BY <2>2, ReceivedResult DEF UdpRecv
    <3> QED
      BY <2>2, <3>1, <3>2 DEF UdpRecv
  <2> QED
    BY <1>6, <2>1, <2>2
<1>7. CASE Fork \/ ParentClose
  BY <1>7 DEF Fork, ParentClose
<1>8. CASE UdpReply
  <2>1. Answer(tryit[NoClient]) \in Dictrec /\ cd \in Clients
    BY <1>8, AnswerResult DEF UdpReply, ModeInv
  <2>2. reply' \in [Clients -> Seq(Dictrec)]
    BY <1>8, <2>1, AppendSeq DEF UdpReply
  <2> QED
    BY <1>8, <2>1, <2>2 DEF UdpReply
<1>9. /\ [faults EXCEPT !.kills = @ + 1] \in [short : SUBSET Clients, lost : Nat, dups : Nat, kills : Nat]
      /\ [faults EXCEPT !.lost = @ + 1] \in [short : SUBSET Clients, lost : Nat, dups : Nat, kills : Nat]
      /\ [faults EXCEPT !.dups = @ + 1] \in [short : SUBSET Clients, lost : Nat, dups : Nat, kills : Nat]
  BY CountFault
<1>10. CASE ServerDies
  BY <1>9, <1>10 DEF ServerDies
<1>11. ASSUME NEW c \in Clients, ChildRecv(c) PROVE TypeOK'
  <2>1. PICK m \in Received(c, tryit[c], query[c]) :
           /\ tryit' = [tryit EXCEPT ![c] = m.rec]
           /\ query' = [query EXCEPT ![c] = m.rest]
           /\ faults' = IF m.short THEN [faults EXCEPT !.short = @ \cup {c}] ELSE faults
    BY <1>11 DEF ChildRecv
  <2>2. m.rec \in Dictrec /\ m.rest \in Seq(Dictrec)
    BY <1>11, ReceivedResult DEF ChildRecv
  <2>3. faults' \in [short : SUBSET Clients, lost : Nat, dups : Nat, kills : Nat]
    BY <2>1
  <2> QED
    BY <1>11, <2>1, <2>2, <2>3 DEF ChildRecv
<1>12. ASSUME NEW c \in Clients, ChildReply(c) PROVE TypeOK'
  <2>1. Answer(tryit[c]) \in Dictrec
    BY AnswerResult
  <2>2. Append(reply[c], Answer(tryit[c])) \in Seq(Dictrec)
    BY <2>1, AppendSeq
  <2>3. /\ reply' = reply \/ reply' = [reply EXCEPT ![c] = Append(@, Answer(tryit[c]))]
        /\ tryit' = tryit \/ tryit' = [tryit EXCEPT ![c] = Answer(@)]
    BY <1>12 DEF ChildReply
  <2>4. reply' \in [Clients -> Seq(Dictrec)]
    BY <2>2, <2>3
  <2>5. tryit' \in [Clients \cup {NoClient} -> Dictrec]
    BY <2>1, <2>3
  <2> QED
    BY <1>12, <2>4, <2>5 DEF ChildReply
<1>13. ASSUME NEW c \in Clients, ChildEof(c) PROVE TypeOK'
  BY <1>13 DEF ChildEof
<1>14. ASSUME NEW c \in Clients, ChildDies(c) PROVE TypeOK'
  BY <1>9, <1>14 DEF ChildDies
<1>15. ASSUME NEW c \in Clients, Lose(c) PROVE TypeOK'
  <2>1. query' \in [Clients -> Seq(Dictrec)] /\ reply' \in [Clients -> Seq(Dictrec)]
    <3>1. CASE query[c] # <<>> /\ query' = [query EXCEPT ![c] = Rest(@)] /\ UNCHANGED reply
      BY <3>1, RestSeq
    <3>2. CASE reply[c] # <<>> /\ reply' = [reply EXCEPT ![c] = Rest(@)] /\ UNCHANGED query
      BY <3>2, RestSeq
    <3> QED
      BY <1>15, <3>1, <3>2 DEF Lose
  <2> QED
    BY <1>9, <1>15, <2>1 DEF Lose
<1>16. ASSUME NEW c \in Clients, Duplicate(c) PROVE TypeOK'
  <2>1. ASSUME NEW s \in Seq(Dictrec), s # <<>> PROVE Append(s, Head(s)) \in Seq(Dictrec)
    BY <2>1, HeadTailProperties, AppendSeq
  <2>2. query' \in [Clients -> Seq(Dictrec)] /\ reply' \in [Clients -> Seq(Dictrec)]
    <3>1. CASE query[c] # <<>> /\ query' = [query EXCEPT ![c] = Append(@, Head(@))] /\ UNCHANGED reply
      BY <2>1, <3>1
    <3>2. CASE reply[c] # <<>> /\ reply' = [reply EXCEPT ![c] = Append(@, Head(@))] /\ UNCHANGED query
      BY <2>1, <3>2
    <3> QED
      BY <1>16, <3>1, <3>2 DEF Duplicate
  <2> QED
    BY <1>9, <1>16, <2>2 DEF Duplicate
<1>17. CASE UNCHANGED vars
  BY <1>17 DEF vars
<1> QED
  BY <1>1, <1>2, <1>3, <1>4, <1>5, <1>6, <1>7, <1>8, <1>10, <1>11, <1>12, <1>13, <1>14, <1>15, <1>16, <1>17
     DEF Next, ServerStep, ClientStep, ChildStep

\* recv() of the client, of the child and of the UDP server.
LEMMA RecvResult ==
  ASSUME TypeOK, NEW c \in Clients, Recv(c)
  PROVE  \E m :
           /\ sought' = [sought EXCEPT ![c] = m.rec]
           /\ answers' = [answers EXCEPT ![c] = Append(@, m.rec)]
           /\ reply' = [reply EXCEPT ![c] = m.rest]
           /\ faults' = IF m.short THEN [faults EXCEPT !.short = @ \cup {c}] ELSE faults
           /\ m.rec \in Dictrec /\ m.rest \in Seq(Dictrec) /\ m.short \in BOOLEAN
           /\ UDP => ~ m.short /\ From(m.rest, reply[c]) /\ \E k \in DOMAIN reply[c] : m.rec = reply[c][k]
           /\ Len(reply[c]) = 1 /\ ~ m.short => m.rec = reply[c][1] /\ m.rest = <<>>
<1>1. PICK m \in Received(c, sought[c], reply[c]) :
         /\ sought' = [sought EXCEPT ![c] = m.rec]
         /\ answers' = [answers EXCEPT ![c] = Append(@, m.rec)]
         /\ reply' = [reply EXCEPT ![c] = m.rest]
         /\ faults' = IF m.short THEN [faults EXCEPT !.short = @ \cup {c}] ELSE faults
  BY DEF Recv
<1>2. sought[c] \in Dictrec /\ reply[c] \in Seq(Dictrec) /\ reply[c] # <<>>
  BY DEF Recv, TypeOK
<1> QED
  BY <1>1, <1>2, ReceivedResult

LEMMA ChildRecvResult ==
  ASSUME TypeOK, NEW c \in Clients, ChildRecv(c)
  PROVE  \E m :
           /\ tryit' = [tryit EXCEPT ![c] = m.rec]
           /\ query' = [query EXCEPT ![c] = m.rest]
           /\ faults' = IF m.short THEN [faults EXCEPT !.short = @ \cup {c}] ELSE faults
           /\ m.rec \in Dictrec /\ m.rest \in Seq(Dictrec) /\ m.short \in BOOLEAN
           /\ UDP => ~ m.short
           /\ Len(query[c]) = 1 /\ ~ m.short => m.rec = query[c][1] /\ m.rest = <<>>
<1>1. PICK m \in Received(c, tryit[c], query[c]) :
         /\ tryit' = [tryit EXCEPT ![c] = m.rec]
         /\ query' = [query EXCEPT ![c] = m.rest]
         /\ faults' = IF m.short THEN [faults EXCEPT !.short = @ \cup {c}] ELSE faults
  BY DEF ChildRecv
<1>2. tryit[c] \in Dictrec /\ query[c] \in Seq(Dictrec) /\ query[c] # <<>>
  BY DEF ChildRecv, TypeOK
<1> QED
  BY <1>1, <1>2, ReceivedResult

LEMMA UdpRecvResult ==
  ASSUME TypeOK, NEW c \in Clients, UdpRecv(c), UDP
  PROVE  \E m :
           /\ tryit' = [tryit EXCEPT ![NoClient] = m.rec]
           /\ query' = [query EXCEPT ![c] = m.rest]
           /\ m.rec \in Dictrec /\ m.rest \in Seq(Dictrec)
           /\ From(m.rest, query[c]) /\ \E k \in DOMAIN query[c] : m.rec = query[c][k]
           /\ Len(query[c]) = 1 => m.rec = query[c][1] /\ m.rest = <<>>
<1>1. PICK m \in Received(c, tryit[NoClient], query[c]) :
         /\ tryit' = [tryit EXCEPT ![NoClient] = m.rec]
         /\ query' = [query EXCEPT ![c] = m.rest]
  BY DEF UdpRecv
<1>2. tryit[NoClient] \in Dictrec /\ query[c] \in Seq(Dictrec) /\ query[c] # <<>>
  BY DEF UdpRecv, TypeOK
<1>3. /\ m.rec \in Dictrec /\ m.rest \in Seq(Dictrec)
      /\ ~ m.short /\ From(m.rest, query[c]) /\ \E k \in DOMAIN query[c] : m.rec = query[c][k]
      /\ Len(query[c]) = 1 /\ ~ m.short => m.rec = query[c][1] /\ m.rest = <<>>
  BY <1>1, <1>2, ReceivedResult
<1> QED
  BY <1>1, <1>3

\* Faults are never forgotten.
LEMMA FaultsGrow ==
  ASSUME TypeOK, ModeInv, [Next]_vars
  PROVE  /\ transport' = transport
         /\ faults.short \subseteq faults'.short
         /\ UDP => faults'.short = faults.short
         /\ faults'.dups = 0 => faults.dups = 0
         /\ ~ UDP => faults'.dups = faults.dups
<1>1. transport' = transport
  BY DEF Next, ServerStep, ClientStep, ChildStep, vars, Ask, Done, Connect, Send, SendBroken, Recv, RecvReset, RecvEof,
     Accept, Fork, ParentClose, ServerDies, ChildRecv, ChildReply, ChildEof, ChildDies, UdpRecv, UdpReply, Lose, Duplicate
<1>2. \/ UNCHANGED faults
      \/ \E c \in Clients : faults' = [faults EXCEPT !.short = @ \cup {c}] /\ ~ UDP
      \/ faults' = [faults EXCEPT !.kills = @ + 1]
      \/ faults' = [faults EXCEPT !.lost = @ + 1]
      \/ faults' = [faults EXCEPT !.dups = @ + 1] /\ UDP
  <2>1. ASSUME NEW c \in Clients, Recv(c)
        PROVE  UNCHANGED faults \/ (faults' = [faults EXCEPT !.short = @ \cup {c}] /\ ~ UDP)
    <3>1. PICK m : /\ faults' = IF m.short THEN [faults EXCEPT !.short = @ \cup {c}] ELSE faults
                   /\ m.short \in BOOLEAN /\ (UDP => ~ m.short)
      BY <2>1, RecvResult
    <3> QED
      BY <3>1
  <2>2. ASSUME NEW c \in Clients, ChildRecv(c)
        PROVE  UNCHANGED faults \/ (faults' = [faults EXCEPT !.short = @ \cup {c}] /\ ~ UDP)
    <3>1. PICK m : /\ faults' = IF m.short THEN [faults EXCEPT !.short = @ \cup {c}] ELSE faults
                   /\ m.short \in BOOLEAN /\ (UDP => ~ m.short)
      BY <2>2, ChildRecvResult
    <3> QED
      BY <3>1
  <2> QED
    BY <2>1, <2>2 DEF Next, ServerStep, ClientStep, ChildStep, vars, Ask, Done, Connect, Send, SendBroken, RecvReset,
       RecvEof, Accept, Fork, ParentClose, ServerDies, ChildReply, ChildEof, ChildDies, UdpRecv, UdpReply, Lose, Duplicate
<1>3. faults \in [short : SUBSET Clients, lost : Nat, dups : Nat, kills : Nat]
  BY DEF TypeOK
<1> QED
  BY <1>1, <1>2, <1>3

LEMMA ModeNext == TypeOK /\ ModeInv /\ [Next]_vars => ModeInv'
<1> SUFFICES ASSUME TypeOK, ModeInv, [Next]_vars PROVE ModeInv'
  OBVIOUS
<1>1. /\ UDP' = UDP
      /\ UDP => faults'.short = faults.short
      /\ ~ UDP => faults'.dups = faults.dups
  BY FaultsGrow DEF UDP
<1> USE DEF ModeInv, TypeOK, clientVars, serverVars
<1>2. ASSUME NEW c \in Clients, NEW w \in Words, Ask(c, w) PROVE ModeInv'
  BY <1>1, <1>2 DEF Ask
<1>3. ASSUME NEW c \in Clients, Done(c) \/ SendBroken(c) \/ RecvReset(c) \/ RecvEof(c) \/ Recv(c) PROVE ModeInv'
  BY <1>1, <1>3 DEF Done, SendBroken, RecvReset, RecvEof, Recv
<1>4. ASSUME NEW c \in Clients, Connect(c) PROVE ModeInv'
  BY <1>1, <1>4 DEF Connect
<1>5. ASSUME NEW c \in Clients, Send(c) PROVE ModeInv'
  BY <1>1, <1>5 DEF Send
<1>6. ASSUME NEW c \in Clients, Accept(c) PROVE ModeInv'
  BY <1>1, <1>6, ClientsAssumption DEF Accept, NoClient
<1>7. CASE Fork
  BY <1>1, <1>7 DEF Fork
<1>8. CASE ParentClose
  BY <1>1, <1>8, ClientsAssumption DEF ParentClose, NoClient
<1>9. CASE ServerDies
  BY <1>1, <1>9 DEF ServerDies
<1>10. ASSUME NEW c \in Clients, ChildRecv(c) PROVE ModeInv'
  BY <1>1, <1>10 DEF ChildRecv
<1>11. ASSUME NEW c \in Clients, ChildReply(c) \/ ChildEof(c) \/ ChildDies(c) PROVE ModeInv'
  BY <1>1, <1>11 DEF ChildReply, ChildEof, ChildDies
<1>12. ASSUME NEW c \in Clients, UdpRecv(c) PROVE ModeInv'
  BY <1>1, <1>12, ClientsAssumption DEF UdpRecv, NoClient
<1>13. CASE UdpReply
  BY <1>1, <1>13 DEF UdpReply
<1>14. ASSUME NEW c \in Clients, Lose(c) \/ Duplicate(c) PROVE ModeInv'
  BY <1>1, <1>14 DEF Lose, Duplicate
<1>15. CASE UNCHANGED vars
  BY <1>1, <1>15 DEF vars
<1> QED
  BY <1>2, <1>3, <1>4, <1>5, <1>6, <1>7, <1>8, <1>9, <1>10, <1>11, <1>12, <1>13, <1>14, <1>15
     DEF Next, ServerStep, ClientStep, ChildStep

\* A connection that is broken stays broken.
LEMMA WholeBack ==
  ASSUME TypeOK, ModeInv, [Next]_vars, NEW d \in Clients, Whole(d)'
  PROVE  Whole(d)
<1>1. UDP' = UDP /\ d \notin faults.short
  BY FaultsGrow DEF UDP, Whole
<1>2. SUFFICES ASSUME ~ UDP, conn[d] # "none", ~ PeerOpen(d) PROVE conn'[d] # "none" /\ ~ PeerOpen(d)'
  BY <1>1 DEF Whole
<1> USE DEF TypeOK, ModeInv, PeerOpen, clientVars, serverVars
<1>3. ASSUME NEW c \in Clients, Connect(c) PROVE conn'[d] # "none" /\ ~ PeerOpen(d)'
  BY <1>2, <1>3 DEF Connect
<1>4. ASSUME NEW c \in Clients, Accept(c) PROVE conn'[d] # "none" /\ ~ PeerOpen(d)'
  BY <1>2, <1>4 DEF Accept
<1>5. CASE Fork
  BY <1>2, <1>5 DEF Fork
<1>6. CASE ParentClose
  BY <1>2, <1>6, ClientsAssumption DEF ParentClose, NoClient
<1>7. CASE ServerDies
  BY <1>2, <1>7 DEF ServerDies
<1>8. ASSUME NEW c \in Clients, ChildRecv(c) \/ ChildReply(c) \/ ChildEof(c) \/ ChildDies(c)
      PROVE  conn'[d] # "none" /\ ~ PeerOpen(d)'
  BY <1>2, <1>8 DEF ChildRecv, ChildReply, ChildEof, ChildDies
<1>9. ASSUME NEW c \in Clients, UdpRecv(c) PROVE FALSE
  BY <1>2, <1>9 DEF UdpRecv
<1>10. CASE UdpReply
  BY <1>2, <1>10 DEF UdpReply
<1>11. CASE UNCHANGED <<conn, serverVars>>
  BY <1>2, <1>11
<1> QED
  BY <1>3, <1>4, <1>5, <1>6, <1>7, <1>8, <1>9, <1>10, <1>11 DEF Next, ServerStep, ClientStep, ChildStep, vars, Ask, Done,
     Send, SendBroken, Recv, RecvReset, RecvEof, Lose, Duplicate

LEMMA TurnNext == TypeOK /\ ModeInv /\ TurnInv /\ [Next]_vars => TurnInv'
<1> SUFFICES ASSUME TypeOK, ModeInv, TurnInv, [Next]_vars PROVE TurnInv'
  OBVIOUS
<1> USE DEF TypeOK, TurnInv, clientVars
<1>1. \A c \in Clients : Len(answers[c]) \in Nat /\ Len(asked[c]) \in Nat
  BY LenProperties
<1>2. ASSUME NEW c \in Clients, NEW w \in Words, Ask(c, w) PROVE TurnInv'
  <2>1. asked' = [asked EXCEPT ![c] = Append(@, w)] /\ cpc[c] = "main" /\ UNCHANGED answers
    BY <1>2 DEF Ask
  <2>2. Len(asked'[c]) = Len(asked[c]) + 1 /\ asked'[c][Len(asked'[c])] = w
    BY <2>1, AppendProperties
  <2>3. sought'[c].word = w
    BY <1>2 DEF Ask, Dictrec
  <2>4. cpc'[c] \in {"send", "connect"} /\ Len(answers'[c]) + 1 = Len(asked'[c])
    BY <1>1, <1>2, <2>1, <2>2 DEF Ask
  <2>5. ASSUME NEW d \in Clients, d # c
        PROVE  cpc'[d] = cpc[d] /\ asked'[d] = asked[d] /\ sought'[d] = sought[d]
    BY <1>2, <2>5 DEF Ask
  <2>6. ASSUME NEW d \in Clients
        PROVE  /\ cpc'[d] \in {"main", "done"} => Len(answers'[d]) = Len(asked'[d])
               /\ cpc'[d] \in {"connect", "send", "recv", "died"} => Len(answers'[d]) + 1 = Len(asked'[d])
               /\ cpc'[d] \in {"connect", "send", "recv"} => sought'[d].word = asked'[d][Len(asked'[d])]
    <3>1. CASE d = c
      BY <2>2, <2>3, <2>4, <3>1
    <3>2. CASE d # c
      BY <2>1, <2>5, <3>2
    <3> QED
      BY <3>1, <3>2
  <2> QED
    BY <2>6
<1>3. ASSUME NEW c \in Clients, Done(c) \/ Connect(c) \/ Send(c) \/ SendBroken(c) \/ RecvReset(c) PROVE TurnInv'
  BY <1>3 DEF Done, Connect, Send, SendBroken, RecvReset
<1>4. ASSUME NEW c \in Clients, NEW r \in Dictrec, answers' = [answers EXCEPT ![c] = Append(@, r)],
             cpc[c] = "recv", cpc' = [cpc EXCEPT ![c] = "main"], UNCHANGED asked,
             \A d \in Clients : d # c => sought'[d] = sought[d]
      PROVE  TurnInv'
  <2>1. Len(answers'[c]) = Len(answers[c]) + 1
    BY <1>4, AppendProperties
  <2>2. Len(answers'[c]) = Len(asked'[c]) /\ cpc'[c] = "main"
    BY <1>1, <1>4, <2>1
  <2>3. ASSUME NEW d \in Clients, d # c
        PROVE  cpc'[d] = cpc[d] /\ answers'[d] = answers[d] /\ sought'[d] = sought[d]
    BY <1>4, <2>3
  <2> QED
    BY <1>4, <2>2, <2>3
<1>5. ASSUME NEW c \in Clients, RecvEof(c) PROVE TurnInv'
  <2>1. sought[c] \in Dictrec
    OBVIOUS
  <2> QED
    BY <1>4, <1>5, <2>1 DEF RecvEof
<1>6. ASSUME NEW c \in Clients, Recv(c) PROVE TurnInv'
  <2>1. PICK m : /\ sought' = [sought EXCEPT ![c] = m.rec]
                 /\ answers' = [answers EXCEPT ![c] = Append(@, m.rec)]
                 /\ m.rec \in Dictrec
    BY <1>6, RecvResult
  <2> QED
    BY <1>4, <1>6, <2>1 DEF Recv
<1>7. CASE UNCHANGED clientVars
  BY <1>7
<1> QED
  BY <1>2, <1>3, <1>5, <1>6, <1>7 DEF Next, ServerStep, ClientStep, ChildStep, vars, Accept, Fork, ParentClose,
     ServerDies, ChildRecv, ChildReply, ChildEof, ChildDies, UdpRecv, UdpReply, Lose, Duplicate

LEMMA TokenNext == IndInv /\ [Next]_vars => TokenInv'
<1> SUFFICES ASSUME IndInv, [Next]_vars, NEW d \in Clients, Clean(d)' PROVE Token(d)'
  BY DEF TokenInv
<1> USE DEF IndInv, TypeOK
<1>1. UDP' = UDP
  BY FaultsGrow DEF UDP
<1>2. Whole(d) /\ faults.dups = 0
  BY FaultsGrow, WholeBack DEF Clean
<1>3. Token(d)
  BY <1>2 DEF TokenInv, Clean
<1>4. ASSUME NEW c \in Clients, NEW w \in Words, Ask(c, w) PROVE Token(d)'
  <2>1. UNCHANGED <<transport, query, reply, serverVars>> /\ cpc[c] = "main"
    BY <1>4 DEF Ask
  <2>2. InServer(d)' = InServer(d) /\ Held(d)' = Held(d)
    BY <1>1, <2>1 DEF InServer, Held, serverVars
  <2>3. cpc'[d] # "recv" => cpc[d] # "recv"
    BY <1>4 DEF Ask
  <2>4. cpc[d] = "recv" => sought'[d] = sought[d] /\ cpc'[d] = "recv"
    BY <1>4 DEF Ask
  <2> QED
    BY <1>3, <2>1, <2>2, <2>3, <2>4 DEF Token
<1>5. ASSUME NEW c \in Clients, Done(c) \/ Connect(c) \/ SendBroken(c) PROVE Token(d)'
  <2>1. UNCHANGED <<transport, query, reply, sought, serverVars>> /\ (cpc'[d] = "recv" <=> cpc[d] = "recv")
    BY <1>5 DEF Done, Connect, SendBroken
  <2>2. InServer(d)' = InServer(d) /\ Held(d)' = Held(d)
    BY <1>1, <2>1 DEF InServer, Held, serverVars
  <2> QED
    BY <1>3, <2>1, <2>2 DEF Token
<1>6. ASSUME NEW c \in Clients, Send(c) PROVE Token(d)'
  <2>1. UNCHANGED <<transport, reply, sought, serverVars>>
    BY <1>6 DEF Send
  <2>2. InServer(d)' = InServer(d) /\ Held(d)' = Held(d)
    BY <1>1, <2>1 DEF InServer, Held, serverVars
  <2>3. CASE d # c
    BY <1>3, <1>6, <2>1, <2>2, <2>3 DEF Send, Token
  <2>4. CASE d = c
    <3>1. query[d] = <<>> /\ reply[d] = <<>> /\ ~ InServer(d) /\ cpc'[d] = "recv"
      BY <1>3, <1>6, <2>4 DEF Send, Token
    <3>2. query'[d] = <<sought[d]>>
      BY <1>6, <2>4, <3>1 DEF Send
    <3> QED
      BY <2>1, <2>2, <3>1, <3>2 DEF Token
  <2> QED
    BY <2>3, <2>4
<1>7. ASSUME NEW c \in Clients, Recv(c) PROVE Token(d)'
  <2>1. UNCHANGED <<transport, query, serverVars>>
    BY <1>7 DEF Recv
  <2>2. InServer(d)' = InServer(d) /\ Held(d)' = Held(d)
    BY <1>1, <2>1 DEF InServer, Held, serverVars
  <2>3. PICK m : /\ sought' = [sought EXCEPT ![c] = m.rec]
                 /\ reply' = [reply EXCEPT ![c] = m.rest]
                 /\ faults' = IF m.short THEN [faults EXCEPT !.short = @ \cup {c}] ELSE faults
                 /\ Len(reply[c]) = 1 /\ ~ m.short => m.rec = reply[c][1] /\ m.rest = <<>>
    <3> HIDE DEF TypeOK
    <3> QED
      BY <1>7, RecvResult
  <2>4. CASE d # c
    BY <1>3, <1>7, <2>1, <2>2, <2>3, <2>4 DEF Recv, Token
  <2>5. CASE d = c
    <3>1. query[d] = <<>> /\ Len(reply[d]) = 1 /\ ~ InServer(d) /\ cpc'[d] = "main"
      BY <1>3, <1>7, <2>5 DEF Recv, Token
    <3>2. ~ m.short
      BY <2>3, <2>5 DEF Clean, Whole
    <3>3. reply'[d] = <<>>
      BY <2>3, <2>5, <3>1, <3>2
    <3> QED
      BY <2>1, <2>2, <3>1, <3>3 DEF Token
  <2> QED
    BY <2>4, <2>5
<1>8. ASSUME NEW c \in Clients, RecvReset(c) \/ RecvEof(c) PROVE Token(d)'
  <2>1. UNCHANGED <<transport, query, reply, sought, conn, serverVars>> /\ ~ UDP /\ ~ PeerOpen(c) /\ conn[c] # "none"
    BY <1>8 DEF RecvReset, RecvEof, ModeInv
  <2>2. d # c
    BY <1>2, <2>1 DEF Whole
  <2>3. InServer(d)' = InServer(d) /\ Held(d)' = Held(d)
    BY <1>1, <2>1 DEF InServer, Held, serverVars
  <2>4. cpc'[d] = cpc[d]
    BY <1>8, <2>2 DEF RecvReset, RecvEof
  <2> QED
    BY <1>3, <2>1, <2>3, <2>4 DEF Token
\* The forking servers.
<1>9. ASSUME NEW c \in Clients, Accept(c) PROVE Token(d)'
  <2>1. UNCHANGED <<transport, query, reply, clientVars, kpc, tryit>> /\ ~ UDP
    BY <1>9 DEF Accept, ModeInv
  <2>2. InServer(d)' = InServer(d) /\ Held(d)' = Held(d)
    BY <1>1, <2>1 DEF InServer, Held
  <2> QED
    BY <1>3, <2>1, <2>2 DEF Token, clientVars
<1>10. CASE Fork \/ ParentClose
  <2>1. UNCHANGED <<transport, query, reply, clientVars, tryit>> /\ ~ UDP
    BY <1>10 DEF Fork, ParentClose, ModeInv
  <2>2. InServer(d)' => InServer(d)
    BY <1>1, <1>10, <2>1 DEF Fork, ParentClose, InServer
  <2>3. Held(d)' = Held(d)
    BY <1>1, <2>1 DEF Held
  <2> QED
    BY <1>3, <2>1, <2>2, <2>3 DEF Token, clientVars
<1>11. CASE ServerDies
  <2>1. UNCHANGED <<transport, query, reply, clientVars, kpc, tryit>> /\ spc' = "dead"
    BY <1>11 DEF ServerDies
  <2>2. InServer(d)' => InServer(d)
    BY <1>1, <2>1 DEF InServer
  <2>3. Held(d)' = Held(d)
    BY <1>1, <2>1 DEF Held
  <2> QED
    BY <1>3, <2>1, <2>2, <2>3 DEF Token, clientVars
<1>12. ASSUME NEW c \in Clients, ChildRecv(c) PROVE Token(d)'
  <2>1. UNCHANGED <<transport, reply, clientVars>> /\ ~ UDP /\ kpc' = [kpc EXCEPT ![c] = "lookup"]
    BY <1>12 DEF ChildRecv, ModeInv
  <2>2. PICK m : /\ tryit' = [tryit EXCEPT ![c] = m.rec]
                 /\ query' = [query EXCEPT ![c] = m.rest]
                 /\ faults' = IF m.short THEN [faults EXCEPT !.short = @ \cup {c}] ELSE faults
                 /\ Len(query[c]) = 1 /\ ~ m.short => m.rec = query[c][1] /\ m.rest = <<>>
    <3> HIDE DEF TypeOK
    <3> QED
      BY <1>12, ChildRecvResult
  <2>3. CASE d # c
    <3>1. InServer(d)' = InServer(d) /\ Held(d)' = Held(d) /\ query'[d] = query[d]
      BY <1>1, <2>1, <2>2, <2>3 DEF InServer, Held
    <3> QED
      BY <1>3, <2>1, <3>1 DEF Token, clientVars
  <2>4. CASE d = c
    <3>1. /\ reply[d] = <<>> /\ Len(query[d]) = 1 /\ cpc[d] = "recv"
          /\ query[d][1].word = sought[d].word
      BY <1>3, <1>12, <2>4 DEF ChildRecv, Token
    <3>2. ~ m.short
      BY <2>2, <2>4 DEF Clean, Whole
    <3>3. query'[d] = <<>> /\ tryit'[d] = query[d][1]
      BY <2>2, <2>4, <3>1, <3>2
    <3>4. Held(d)' = query[d][1]
      BY <1>1, <2>1, <3>3 DEF Held
    <3> QED
      BY <2>1, <3>1, <3>3, <3>4 DEF Token, clientVars
  <2> QED
    BY <2>3, <2>4
<1>13. ASSUME NEW c \in Clients, ChildReply(c) PROVE Token(d)'
  <2>1. UNCHANGED <<transport, query, clientVars>> /\ ~ UDP
    BY <1>13 DEF ChildReply, ModeInv
  <2>2. CASE d # c
    <3>1. kpc'[d] = kpc[d] /\ tryit'[d] = tryit[d] /\ reply'[d] = reply[d]
      BY <1>13, <2>2 DEF ChildReply
    <3>2. InServer(d)' = InServer(d) /\ Held(d)' = Held(d)
      BY <1>1, <2>1, <3>1 DEF InServer, Held
    <3> QED
      BY <1>3, <2>1, <3>1, <3>2 DEF Token, clientVars
  <2>3. CASE d = c
    <3>1. InServer(d)
      BY <1>13, <2>1, <2>3 DEF ChildReply, InServer
    <3>2. query[d] = <<>> /\ reply[d] = <<>> /\ cpc[d] = "recv" /\ tryit[d].word = sought[d].word
      BY <1>3, <2>1, <3>1 DEF Token, Held
    <3>3. ~ Gone(d)
      BY <3>2 DEF Gone
    <3>4. kpc'[d] = "recv" /\ reply'[d] = Append(reply[d], Answer(tryit[d]))
      BY <1>13, <2>3, <3>3 DEF ChildReply
    <3>5. reply'[d] = <<Answer(tryit[d])>> /\ ~ InServer(d)'
      BY <1>1, <2>1, <3>2, <3>4 DEF InServer
    <3>6. Answer(tryit[d]).word = sought[d].word
      BY <3>2, AnswerResult
    <3> QED
      BY <2>1, <3>2, <3>5, <3>6 DEF Token, clientVars
  <2> QED
    BY <2>2, <2>3
<1>14. ASSUME NEW c \in Clients, ChildEof(c) \/ ChildDies(c) PROVE Token(d)'
  <2>1. UNCHANGED <<transport, query, reply, clientVars, tryit>> /\ ~ UDP
    BY <1>14 DEF ChildEof, ChildDies, ModeInv
  <2>2. InServer(d)' => InServer(d)
    BY <1>1, <1>14, <2>1 DEF ChildEof, ChildDies, InServer
  <2>3. Held(d)' = Held(d)
    BY <1>1, <2>1 DEF Held
  <2> QED
    BY <1>3, <2>1, <2>2, <2>3 DEF Token, clientVars
\* Datagrams.
<1>15. ASSUME NEW c \in Clients, UdpRecv(c) PROVE Token(d)'
  <2>1. UNCHANGED <<transport, reply, clientVars>> /\ UDP /\ cd' = c /\ spc' = "lookup" /\ spc = "recvfrom"
    BY <1>15 DEF UdpRecv, ModeInv
  <2>2. PICK m : /\ tryit' = [tryit EXCEPT ![NoClient] = m.rec]
                 /\ query' = [query EXCEPT ![c] = m.rest]
                 /\ Len(query[c]) = 1 => m.rec = query[c][1] /\ m.rest = <<>>
    <3> HIDE DEF TypeOK
    <3> QED
      BY <1>15, <2>1, UdpRecvResult
  <2>3. CASE d # c
    <3>1. ~ InServer(d)' /\ ~ InServer(d) /\ query'[d] = query[d]
      BY <1>1, <2>1, <2>2, <2>3 DEF InServer
    <3> QED
      BY <1>3, <2>1, <3>1 DEF Token, clientVars
  <2>4. CASE d = c
    <3>1. /\ reply[d] = <<>> /\ Len(query[d]) = 1 /\ cpc[d] = "recv"
          /\ query[d][1].word = sought[d].word
      BY <1>3, <1>15, <2>4 DEF UdpRecv, Token
    <3>2. query'[d] = <<>> /\ tryit'[NoClient] = query[d][1]
      BY <2>2, <2>4, <3>1
    <3>3. Held(d)' = query[d][1]
      BY <1>1, <2>1, <3>2 DEF Held
    <3> QED
      BY <2>1, <3>1, <3>2, <3>3 DEF Token, clientVars
  <2> QED
    BY <2>3, <2>4
<1>16. CASE UdpReply
  <2>1. UNCHANGED <<transport, query, clientVars, cd>> /\ UDP /\ cd \in Clients /\ spc = "lookup" /\ spc' = "recvfrom"
    BY <1>16 DEF UdpReply, ModeInv
  <2>2. ~ InServer(d)'
    BY <1>1, <2>1 DEF InServer
  <2>3. CASE d # cd
    <3>1. reply'[d] = reply[d]
      BY <1>16, <2>1, <2>3 DEF UdpReply
    <3> QED
      BY <1>3, <2>1, <2>2, <3>1 DEF Token, clientVars
  <2>4. CASE d = cd
    <3>1. InServer(d)
      BY <2>1, <2>4 DEF InServer
    <3>2. query[d] = <<>> /\ reply[d] = <<>> /\ cpc[d] = "recv" /\ tryit[NoClient].word = sought[d].word
      BY <1>3, <2>1, <3>1 DEF Token, Held
    <3>3. reply'[d] = <<Answer(tryit[NoClient])>>
      BY <1>16, <2>1, <2>4, <3>2 DEF UdpReply
    <3>4. Answer(tryit[NoClient]).word = sought[d].word
      BY <3>2, AnswerResult
    <3> QED
      BY <2>1, <2>2, <3>2, <3>3, <3>4 DEF Token, clientVars
  <2> QED
    BY <2>3, <2>4
<1>17. ASSUME NEW c \in Clients, Lose(c) PROVE Token(d)'
  <2>1. UNCHANGED <<transport, clientVars, serverVars>>
    BY <1>17 DEF Lose
  <2>2. InServer(d)' = InServer(d) /\ Held(d)' = Held(d)
    BY <1>1, <2>1 DEF InServer, Held, serverVars
  <2>3. CASE d # c
    <3>1. query'[d] = query[d] /\ reply'[d] = reply[d]
      BY <1>17, <2>3 DEF Lose
    <3> QED
      BY <1>3, <2>1, <2>2, <3>1 DEF Token, clientVars
  <2>4. CASE d = c
    <3>1. ASSUME NEW s \in Seq(Dictrec), s # <<>>, Len(s) = 1 PROVE Rest(s) = <<>>
      BY <3>1, RestSeq
    <3>2. \/ query[d] # <<>> /\ query'[d] = Rest(query[d]) /\ reply'[d] = reply[d]
          \/ reply[d] # <<>> /\ reply'[d] = Rest(reply[d]) /\ query'[d] = query[d]
      BY <1>17, <2>4 DEF Lose
    <3>3. query'[d] = <<>> /\ reply'[d] = <<>>
      BY <1>3, <3>1, <3>2 DEF Token
    <3> QED
      BY <1>3, <2>1, <2>2, <3>3 DEF Token, clientVars
  <2> QED
    BY <2>3, <2>4
<1>18. ASSUME NEW c \in Clients, Duplicate(c) PROVE FALSE
  <2>1. faults' = [faults EXCEPT !.dups = @ + 1] /\ faults'.dups = 0
    BY <1>18 DEF Duplicate, Clean
  <2> QED
    BY <1>2, <2>1
<1>19. CASE UNCHANGED vars
  <2>1. InServer(d)' = InServer(d) /\ Held(d)' = Held(d)
    BY <1>19 DEF vars, InServer, Held, UDP
  <2> QED
    BY <1>3, <1>19, <2>1 DEF Token, vars
<1> QED
  BY <1>4, <1>5, <1>6, <1>7, <1>8, <1>9, <1>10, <1>11, <1>12, <1>13, <1>14, <1>15, <1>16, <1>17, <1>18, <1>19
     DEF Next, ServerStep, ClientStep, ChildStep

\* What a client receives over a whole connection is one of the records sent.
LEMMA RecvWhole ==
  ASSUME IndInv, [Next]_vars, NEW c \in Clients, Recv(c), Whole(c)'
  PROVE  \E r \in Dictrec, k \in DOMAIN reply[c] :
           /\ answers' = [answers EXCEPT ![c] = Append(@, r)]
           /\ r = reply[c][k]
           /\ From(reply'[c], reply[c])
           /\ faults.dups = 0 => k = 1
           /\ \A d \in Clients : d # c => reply'[d] = reply[d]
<1>1. TypeOK /\ Whole(c)
  BY WholeBack DEF IndInv
<1>2. PICK m :
        /\ answers' = [answers EXCEPT ![c] = Append(@, m.rec)]
        /\ reply' = [reply EXCEPT ![c] = m.rest]
        /\ faults' = IF m.short THEN [faults EXCEPT !.short = @ \cup {c}] ELSE faults
        /\ m.rec \in Dictrec
        /\ UDP => ~ m.short /\ From(m.rest, reply[c]) /\ \E k \in DOMAIN reply[c] : m.rec = reply[c][k]
        /\ Len(reply[c]) = 1 /\ ~ m.short => m.rec = reply[c][1] /\ m.rest = <<>>
  BY <1>1, RecvResult
<1>3. ~ m.short
  BY <1>1, <1>2 DEF Whole, TypeOK
<1>4. reply'[c] = m.rest /\ \A d \in Clients : d # c => reply'[d] = reply[d]
  BY <1>1, <1>2 DEF TypeOK
<1>5. ASSUME faults.dups = 0 PROVE Len(reply[c]) = 1
  BY <1>1, <1>5 DEF IndInv, TokenInv, Token, Clean, Recv
<1>6. From(<<>>, reply[c])
  BY EmptySeq DEF From
<1>7. DOMAIN reply[c] = 1..Len(reply[c])
  BY <1>1, LenProperties DEF TypeOK
<1>8. CASE faults.dups = 0
  <2>1. 1 \in DOMAIN reply[c] /\ m.rec = reply[c][1] /\ m.rest = <<>>
    BY <1>2, <1>3, <1>5, <1>7, <1>8
  <2> QED
    BY <1>2, <1>4, <1>6, <2>1
<1>9. CASE faults.dups # 0
  <2>1. UDP
    BY <1>9 DEF IndInv, ModeInv
  <2> QED
    BY <1>2, <1>4, <1>9, <2>1
<1> QED
  BY <1>8, <1>9

LEMMA TruthNext == IndInv /\ [Next]_vars => TruthInv'
<1> SUFFICES ASSUME IndInv, [Next]_vars, NEW d \in Clients, Whole(d)'
             PROVE  /\ \A k \in DOMAIN reply'[d] : True(reply'[d][k])
                    /\ \A k \in DOMAIN answers'[d] : True(answers'[d][k])
  BY DEF TruthInv, True, Found
<1>1. TypeOK /\ ModeInv /\ Whole(d)
  BY WholeBack DEF IndInv
<1>2. /\ \A k \in DOMAIN reply[d] : True(reply[d][k])
      /\ \A k \in DOMAIN answers[d] : True(answers[d][k])
  BY <1>1 DEF IndInv, TruthInv
<1>3. reply[d] \in Seq(Dictrec) /\ answers[d] \in Seq(Dictrec)
  BY <1>1 DEF TypeOK
<1>4. ASSUME NEW s \in Seq(Dictrec), NEW r \in Dictrec, True(r), \A k \in DOMAIN s : True(s[k])
      PROVE  \A k \in DOMAIN Append(s, r) : True(Append(s, r)[k])
  <2>1. DOMAIN s = 1..Len(s) /\ Len(s) \in Nat /\ DOMAIN Append(s, r) = 1..(Len(s) + 1)
    BY AppendSeq
  <2> SUFFICES ASSUME NEW k \in 1..(Len(s) + 1) PROVE True(Append(s, r)[k])
    BY <2>1
  <2>2. CASE k = Len(s) + 1
    BY <1>4, <2>2, AppendSeq
  <2>3. CASE k # Len(s) + 1
    <3>1. k \in 1..Len(s)
      BY <2>1, <2>3
    <3> QED
      BY <1>4, <2>1, <3>1, AppendSeq
  <2> QED
    BY <2>2, <2>3
<1>5. CASE reply'[d] = reply[d] /\ answers'[d] = answers[d]
  BY <1>2, <1>5
<1>6. CASE Recv(d)
  <2>1. PICK r \in Dictrec, k \in DOMAIN reply[d] :
           /\ answers' = [answers EXCEPT ![d] = Append(@, r)]
           /\ r = reply[d][k]
           /\ From(reply'[d], reply[d])
    BY <1>6, RecvWhole
  <2>2. answers'[d] = Append(answers[d], r) /\ True(r)
    BY <1>1, <1>2, <2>1 DEF TypeOK
  <2> QED
    BY <1>2, <1>3, <1>4, <2>1, <2>2 DEF From
<1>7. CASE RecvReset(d) \/ RecvEof(d)
  <2>1. ~ UDP /\ ~ PeerOpen(d) /\ conn[d] # "none"
    BY <1>1, <1>7 DEF RecvReset, RecvEof, ModeInv
  <2> QED
    BY <1>1, <2>1 DEF Whole
<1>8. CASE ChildReply(d)
  <2>1. tryit[d] \in Dictrec
    BY <1>1 DEF TypeOK
  <2>2. Answer(tryit[d]) \in Dictrec /\ True(Answer(tryit[d]))
    BY <2>1, AnswerResult
  <2>3. answers'[d] = answers[d] /\ reply'[d] \in {reply[d], Append(reply[d], Answer(tryit[d]))}
    BY <1>1, <1>8 DEF ChildReply, clientVars, TypeOK
  <2> QED
    BY <1>2, <1>3, <1>4, <2>2, <2>3
<1>9. CASE UdpReply
  <2>1. tryit[NoClient] \in Dictrec /\ cd \in Clients
    BY <1>1, <1>9 DEF TypeOK, UdpReply, ModeInv
  <2>2. Answer(tryit[NoClient]) \in Dictrec /\ True(Answer(tryit[NoClient]))
    BY <2>1, AnswerResult
  <2>3. answers'[d] = answers[d] /\ reply'[d] \in {reply[d], Append(reply[d], Answer(tryit[NoClient]))}
    BY <1>1, <1>9, <2>1 DEF UdpReply, clientVars, TypeOK
  <2> QED
    BY <1>2, <1>3, <1>4, <2>2, <2>3
<1>10. CASE Lose(d)
  <2>1. answers'[d] = answers[d]
    BY <1>10 DEF Lose, clientVars
  <2>2. reply'[d] = reply[d] \/ (reply[d] # <<>> /\ reply'[d] = Rest(reply[d]))
    BY <1>1, <1>10 DEF Lose, TypeOK
  <2> QED
    BY <1>2, <1>3, <2>1, <2>2, RestSeq DEF From
<1>11. CASE Duplicate(d)
  <2>1. answers'[d] = answers[d]
    BY <1>11 DEF Duplicate, clientVars
  <2>2. reply'[d] = reply[d] \/ (reply[d] # <<>> /\ reply'[d] = Append(reply[d], Head(reply[d])))
    BY <1>1, <1>11 DEF Duplicate, TypeOK
  <2>3. reply[d] # <<>> => Head(reply[d]) \in Dictrec /\ Head(reply[d]) = reply[d][1] /\ 1 \in DOMAIN reply[d]
    BY <1>3, HeadTailProperties, LenProperties, EmptySeq
  <2> QED
    BY <1>2, <1>3, <1>4, <2>1, <2>2, <2>3
<1>12. ASSUME NEW c \in Clients, c # d, ClientStep(c) \/ ChildStep(c) \/ Lose(c) \/ Duplicate(c)
       PROVE  reply'[d] = reply[d] /\ answers'[d] = answers[d]
  <2>1. CASE Recv(c)
    BY <1>1, <1>12, <2>1 DEF Recv, TypeOK
  <2>2. CASE Lose(c) \/ Duplicate(c)
    BY <1>1, <1>12, <2>2 DEF Lose, Duplicate, clientVars, TypeOK
  <2> QED
    BY <1>1, <1>12, <2>1, <2>2 DEF ClientStep, ChildStep, Connect, Send, SendBroken, RecvReset, RecvEof, ChildRecv,
       ChildReply, ChildEof, clientVars, TypeOK
<1>13. ASSUME NEW c \in Clients, \/ \E w \in Words : Ask(c, w)
                                 \/ Done(c) \/ Connect(c) \/ Send(c) \/ SendBroken(c) \/ Accept(c) \/ UdpRecv(c)
                                 \/ ChildRecv(c) \/ ChildEof(c) \/ ChildDies(c)
       PROVE  reply'[d] = reply[d] /\ answers'[d] = answers[d]
  BY <1>13 DEF Ask, Done, Connect, Send, SendBroken, Accept, UdpRecv, ChildRecv, ChildEof, ChildDies, clientVars
<1>14. CASE Fork \/ ParentClose \/ ServerDies \/ UNCHANGED vars
  BY <1>2, <1>14 DEF Fork, ParentClose, ServerDies, vars, clientVars
<1> QED
  BY <1>5, <1>6, <1>7, <1>8, <1>9, <1>10, <1>11, <1>12, <1>13, <1>14 DEF Next, ServerStep, ClientStep, ChildStep

\* t has only elements of s and perhaps one more, for a word that c has typed.
Grown(c, t, s) == From(t, s) \/ \E r \in Dictrec : Asked(c, r) /\ t = Append(s, r)

\* What a step does to the datagrams of a client: none carries a new word.
LEMMA DatagramsGrow ==
  ASSUME IndInv, UDP, [Next]_vars, NEW d \in Clients
  PROVE  /\ Grown(d, query'[d], query[d])
         /\ Grown(d, reply'[d], reply[d])
         /\ spc' = "lookup" /\ cd' = d => Asked(d, tryit'[NoClient])
<1>1. TypeOK /\ ModeInv
  BY DEF IndInv
<1>2. /\ \A k \in DOMAIN query[d] : Asked(d, query[d][k])
      /\ \A k \in DOMAIN reply[d] : Asked(d, reply[d][k])
      /\ spc = "lookup" /\ cd = d => Asked(d, tryit[NoClient])
  BY DEF IndInv, WordInv, InServer, Held
<1>3. query[d] \in Seq(Dictrec) /\ reply[d] \in Seq(Dictrec) /\ tryit[NoClient] \in Dictrec /\ sought[d] \in Dictrec
  BY <1>1 DEF TypeOK
<1>4. ASSUME NEW s PROVE Grown(d, s, s)
  BY DEF Grown, From
<1>5. ASSUME NEW s \in Seq(Dictrec), s # <<>>, \A k \in DOMAIN s : Asked(d, s[k])
      PROVE  Grown(d, Rest(s), s) /\ Grown(d, Append(s, Head(s)), s)
  <2>1. From(Rest(s), s)
    BY <1>5, RestSeq
  <2>2. Head(s) \in Dictrec /\ Head(s) = s[1] /\ 1 \in DOMAIN s
    BY <1>5, HeadTailProperties, LenProperties, EmptySeq
  <2> QED
    BY <1>5, <2>1, <2>2 DEF Grown
<1>6. CASE Send(d)
  <2>1. query'[d] = Append(query[d], sought[d]) /\ reply' = reply /\ UNCHANGED serverVars
    BY <1>1, <1>6 DEF Send, TypeOK
  <2>2. asked[d] \in Seq(Words) /\ Len(answers[d]) \in Nat /\ Len(asked[d]) \in Nat
    BY <1>1, LenProperties DEF TypeOK
  <2>3. Len(answers[d]) + 1 = Len(asked[d]) /\ sought[d].word = asked[d][Len(asked[d])]
    BY <1>6 DEF IndInv, TurnInv, Send
  <2>4. Len(asked[d]) \in 1..Len(asked[d])
    BY <2>2, <2>3
  <2>5. Asked(d, sought[d])
    BY <2>3, <2>4 DEF Asked
  <2> QED
    BY <1>2, <1>3, <1>4, <2>1, <2>5 DEF Grown, serverVars
<1>7. CASE Recv(d)
  <2>1. PICK m : reply' = [reply EXCEPT ![d] = m.rest] /\ From(m.rest, reply[d])
    BY <1>1, <1>7, RecvResult
  <2>2. reply'[d] = m.rest /\ query' = query /\ UNCHANGED serverVars
    BY <1>1, <1>7, <2>1 DEF Recv, TypeOK
  <2> QED
    BY <1>2, <1>4, <2>1, <2>2 DEF Grown, serverVars
<1>8. ASSUME NEW c \in Clients, UdpRecv(c)
      PROVE  /\ Grown(d, query'[d], query[d])
             /\ Grown(d, reply'[d], reply[d])
             /\ spc' = "lookup" /\ cd' = d => Asked(d, tryit'[NoClient])
  <2>1. PICK m : /\ tryit' = [tryit EXCEPT ![NoClient] = m.rec]
                 /\ query' = [query EXCEPT ![c] = m.rest]
                 /\ From(m.rest, query[c]) /\ \E k \in DOMAIN query[c] : m.rec = query[c][k]
    BY <1>1, <1>8, UdpRecvResult
  <2>2. tryit'[NoClient] = m.rec /\ cd' = c /\ reply' = reply
    BY <1>1, <1>8, <2>1 DEF UdpRecv, TypeOK
  <2>3. CASE c = d
    <3>1. query'[d] = m.rest /\ Asked(d, m.rec)
      BY <1>1, <1>2, <2>1, <2>3 DEF TypeOK
    <3> QED
      BY <1>4, <2>1, <2>2, <2>3, <3>1 DEF Grown
  <2>4. CASE c # d
    <3>1. query'[d] = query[d]
      BY <1>1, <2>1, <2>4 DEF TypeOK
    <3> QED
      BY <1>4, <2>2, <2>4, <3>1
  <2> QED
    BY <2>3, <2>4
<1>9. CASE UdpReply
  <2>1. /\ spc' = "recvfrom" /\ query' = query /\ cd \in Clients /\ spc = "lookup"
        /\ reply' = [reply EXCEPT ![cd] = Append(@, Answer(tryit[NoClient]))]
    BY <1>1, <1>9 DEF UdpReply, TypeOK, ModeInv
  <2>2. Answer(tryit[NoClient]) \in Dictrec /\ Answer(tryit[NoClient]).word = tryit[NoClient].word
    BY <1>3, AnswerResult
  <2>3. CASE d = cd
    <3>1. reply'[d] = Append(reply[d], Answer(tryit[NoClient])) /\ Asked(d, tryit[NoClient])
      BY <1>1, <1>2, <2>1, <2>3 DEF TypeOK
    <3>2. Asked(d, Answer(tryit[NoClient]))
      BY <2>2, <3>1 DEF Asked
    <3> QED
      BY <1>4, <2>1, <2>2, <3>1, <3>2 DEF Grown
  <2>4. CASE d # cd
    <3>1. reply'[d] = reply[d]
      BY <1>1, <2>1, <2>4 DEF TypeOK
    <3> QED
      BY <1>4, <2>1, <3>1
  <2> QED
    BY <2>3, <2>4
<1>10. CASE Lose(d) \/ Duplicate(d)
  <2>1. /\ UNCHANGED serverVars
        /\ \/ query'[d] = query[d]
           \/ query[d] # <<>> /\ query'[d] \in {Rest(query[d]), Append(query[d], Head(query[d]))}
        /\ \/ reply'[d] = reply[d]
           \/ reply[d] # <<>> /\ reply'[d] \in {Rest(reply[d]), Append(reply[d], Head(reply[d]))}
    BY <1>1, <1>10 DEF Lose, Duplicate, TypeOK
  <2>2. Grown(d, query'[d], query[d])
    BY <1>2, <1>3, <1>4, <1>5, <2>1
  <2>3. Grown(d, reply'[d], reply[d])
    BY <1>2, <1>3, <1>4, <1>5, <2>1
  <2> QED
    BY <1>2, <2>1, <2>2, <2>3 DEF serverVars
<1>11. CASE ServerDies
  BY <1>4, <1>11 DEF ServerDies
<1>12. CASE query'[d] = query[d] /\ reply'[d] = reply[d] /\ UNCHANGED serverVars
  BY <1>2, <1>4, <1>12 DEF serverVars
<1>13. ASSUME NEW c \in Clients, c # d, Send(c) \/ Recv(c) \/ Lose(c) \/ Duplicate(c)
       PROVE  query'[d] = query[d] /\ reply'[d] = reply[d] /\ UNCHANGED serverVars
  <2>1. CASE Send(c)
    BY <1>1, <1>13, <2>1 DEF Send, TypeOK
  <2>2. CASE Recv(c)
    BY <1>1, <1>13, <2>2 DEF Recv, TypeOK
  <2>3. CASE Lose(c) \/ Duplicate(c)
    BY <1>1, <1>13, <2>3 DEF Lose, Duplicate, TypeOK
  <2> QED
    BY <1>13, <2>1, <2>2, <2>3
<1>14. ASSUME NEW c \in Clients, \/ \E w \in Words : Ask(c, w)
                                 \/ Done(c) \/ Connect(c) \/ SendBroken(c) \/ RecvReset(c) \/ RecvEof(c)
       PROVE  query'[d] = query[d] /\ reply'[d] = reply[d] /\ UNCHANGED serverVars
  BY <1>14 DEF Ask, Done, Connect, SendBroken, RecvReset, RecvEof
<1>15. ASSUME NEW c \in Clients, ChildStep(c) \/ ChildDies(c) \/ Accept(c) PROVE FALSE
  BY <1>1, <1>15 DEF ChildStep, ChildRecv, ChildReply, ChildEof, ChildDies, Accept, ModeInv
<1>16. ~ Fork /\ ~ ParentClose
  BY <1>1 DEF Fork, ParentClose, ModeInv
<1>17. CASE UNCHANGED vars
  BY <1>12, <1>17 DEF vars, serverVars
<1> QED
  BY <1>6, <1>7, <1>8, <1>9, <1>10, <1>11, <1>12, <1>13, <1>14, <1>15, <1>16, <1>17 DEF Next, ServerStep, ClientStep

\* The words typed only grow.
LEMMA AskedGrow ==
  ASSUME IndInv, [Next]_vars, NEW d \in Clients
  PROVE  \/ UNCHANGED asked
         \/ asked'[d] = asked[d]
         \/ /\ \E w \in Words : asked'[d] = Append(asked[d], w)
            /\ UNCHANGED answers /\ cpc[d] = "main"
<1>1. ASSUME NEW c \in Clients, NEW w \in Words, Ask(c, w)
      PROVE  \/ asked'[d] = asked[d]
             \/ /\ \E v \in Words : asked'[d] = Append(asked[d], v)
                /\ UNCHANGED answers /\ cpc[d] = "main"
  BY <1>1 DEF Ask, IndInv, TypeOK
<1> QED
  BY <1>1 DEF Next, ServerStep, ClientStep, ChildStep, vars, clientVars, Done, Connect, Send, SendBroken, Recv, RecvReset,
     RecvEof, Accept, Fork, ParentClose, ServerDies, ChildRecv, ChildReply, ChildEof, ChildDies, UdpRecv, UdpReply, Lose,
     Duplicate

LEMMA WordNext == IndInv /\ [Next]_vars => WordInv'
<1> SUFFICES ASSUME IndInv, [Next]_vars, UDP', NEW d \in Clients
             PROVE  (/\ \A k \in DOMAIN query[d] : Asked(d, query[d][k])
                     /\ \A k \in DOMAIN reply[d] : Asked(d, reply[d][k])
                     /\ InServer(d) => Asked(d, Held(d)))'
  BY DEF WordInv
<1>1. UDP /\ TypeOK
  BY FaultsGrow DEF UDP, IndInv
<1>2. /\ Grown(d, query'[d], query[d])
      /\ Grown(d, reply'[d], reply[d])
      /\ spc' = "lookup" /\ cd' = d => Asked(d, tryit'[NoClient])
  BY <1>1, DatagramsGrow
<1> DEFINE A(r) == \E j \in 1..Len(asked'[d]) : r.word = asked'[d][j]
<1>3. ASSUME NEW r, Asked(d, r) PROVE A(r)
  <2>1. CASE asked'[d] = asked[d]
    BY <1>3, <2>1 DEF Asked
  <2>2. ASSUME NEW w \in Words, asked'[d] = Append(asked[d], w) PROVE A(r)
    <3>1. asked[d] \in Seq(Words)
      BY <1>1 DEF TypeOK
    <3>2. /\ Len(asked'[d]) = Len(asked[d]) + 1 /\ Len(asked[d]) \in Nat
          /\ \A k \in 1..Len(asked[d]) : asked'[d][k] = asked[d][k]
      BY <2>2, <3>1, AppendSeq
    <3>3. PICK j \in 1..Len(asked[d]) : r.word = asked[d][j]
      BY <1>3 DEF Asked
    <3>4. j \in 1..Len(asked'[d]) /\ r.word = asked'[d][j]
      BY <3>2, <3>3
    <3> QED
      BY <3>4
  <2> QED
    BY <2>1, <2>2, AskedGrow
<1>4. ASSUME NEW s \in Seq(Dictrec), NEW t, Grown(d, t, s), \A k \in DOMAIN s : Asked(d, s[k])
      PROVE  \A k \in DOMAIN t : A(t[k])
  <2> HIDE DEF A
  <2>1. CASE From(t, s)
    BY <1>3, <1>4, <2>1 DEF From
  <2>2. ASSUME NEW r \in Dictrec, Asked(d, r), t = Append(s, r) PROVE \A k \in DOMAIN t : A(t[k])
    <3>1. /\ DOMAIN s = 1..Len(s) /\ Len(s) \in Nat /\ DOMAIN t = 1..(Len(s) + 1)
          /\ t[Len(s) + 1] = r /\ \A k \in 1..Len(s) : t[k] = s[k]
      BY <2>2, AppendSeq
    <3> SUFFICES ASSUME NEW k \in 1..(Len(s) + 1) PROVE A(t[k])
      BY <3>1
    <3>2. CASE k = Len(s) + 1
      BY <1>3, <2>2, <3>1, <3>2
    <3>3. CASE k # Len(s) + 1
      <4>1. k \in 1..Len(s)
        BY <3>1, <3>3
      <4> QED
        BY <1>3, <1>4, <3>1, <4>1
    <3> QED
      BY <3>2, <3>3
  <2> QED
    BY <1>4, <2>1, <2>2 DEF Grown
<1>5. /\ \A k \in DOMAIN query[d] : Asked(d, query[d][k])
      /\ \A k \in DOMAIN reply[d] : Asked(d, reply[d][k])
  BY <1>1 DEF IndInv, WordInv
<1>6. query[d] \in Seq(Dictrec) /\ reply[d] \in Seq(Dictrec)
  BY <1>1 DEF TypeOK
<1> HIDE DEF A
<1>7. \A k \in DOMAIN query'[d] : A(query'[d][k])
  BY <1>2, <1>4, <1>5, <1>6
<1>8. \A k \in DOMAIN reply'[d] : A(reply'[d][k])
  BY <1>2, <1>4, <1>5, <1>6
<1>9. spc' = "lookup" /\ cd' = d => A(tryit'[NoClient])
  BY <1>2, <1>3
<1> QED
  BY <1>7, <1>8, <1>9 DEF A, Asked, InServer, Held

LEMMA StepNext == IndInv /\ [Next]_vars => AnswersInStep'
<1> SUFFICES ASSUME IndInv, [Next]_vars, NEW d \in Clients
             PROVE  /\ Whole(d)' /\ faults'.dups = 0 => \A k \in DOMAIN answers'[d] : answers'[d][k].word = asked'[d][k]
                    /\ UDP' => \A k \in DOMAIN answers'[d] : \E j \in 1..k : answers'[d][k].word = asked'[d][j]
  BY DEF AnswersInStep
<1>1. TypeOK /\ ModeInv /\ TurnInv /\ UDP' = UDP
  BY FaultsGrow DEF UDP, IndInv
<1>2. /\ answers[d] \in Seq(Dictrec) /\ asked[d] \in Seq(Words)
      /\ DOMAIN answers[d] = 1..Len(answers[d]) /\ Len(answers[d]) \in Nat /\ Len(asked[d]) \in Nat
  BY <1>1, LenProperties DEF TypeOK
<1>3. Len(answers[d]) <= Len(asked[d])
  <2>1. cpc[d] \in {"main", "connect", "send", "recv", "done", "died"}
    BY <1>1 DEF TypeOK
  <2>2. Len(answers[d]) = Len(asked[d]) \/ Len(answers[d]) + 1 = Len(asked[d])
    BY <1>1, <2>1 DEF TurnInv
  <2> QED
    BY <1>2, <2>2
<1>4. /\ Whole(d)' /\ faults'.dups = 0 => \A k \in DOMAIN answers[d] : answers[d][k].word = asked[d][k]
      /\ UDP => \A k \in DOMAIN answers[d] : \E j \in 1..k : answers[d][k].word = asked[d][j]
  <2>1. Whole(d)' /\ faults'.dups = 0 => Whole(d) /\ faults.dups = 0
    BY <1>1, WholeBack, FaultsGrow
  <2> QED
    BY <2>1 DEF IndInv, AnswersInStep
<1>5. CASE answers'[d] = answers[d]
  <2>1. \A k \in 1..Len(asked[d]) : asked'[d][k] = asked[d][k]
    <3>1. ASSUME NEW w \in Words, asked'[d] = Append(asked[d], w)
          PROVE  \A k \in 1..Len(asked[d]) : asked'[d][k] = asked[d][k]
      BY <1>2, <3>1, AppendSeq
    <3> QED
      BY <3>1, AskedGrow
  <2>2. \A k \in DOMAIN answers[d] : k \in 1..Len(asked[d]) /\ \A j \in 1..k : j \in 1..Len(asked[d])
    BY <1>2, <1>3
  <2> QED
    BY <1>1, <1>4, <1>5, <2>1, <2>2
<1>6. CASE Recv(d)
  <2>1. asked' = asked /\ Len(answers[d]) + 1 = Len(asked[d]) /\ sought[d].word = asked[d][Len(asked[d])]
    BY <1>1, <1>6 DEF Recv, TurnInv
  <2> DEFINE n == Len(answers[d]) + 1
  <2>2. n \in Nat /\ \A k \in 1..n : k = n \/ k \in 1..Len(answers[d])
    BY <1>2
  <2>3. CASE Whole(d)'
    <3>1. PICK r \in Dictrec, i \in DOMAIN reply[d] :
           /\ answers' = [answers EXCEPT ![d] = Append(@, r)]
           /\ r = reply[d][i]
           /\ faults.dups = 0 => i = 1
      BY <1>6, <2>3, RecvWhole
    <3>2. answers'[d] = Append(answers[d], r)
      BY <1>1, <3>1 DEF TypeOK
    <3>3. /\ DOMAIN answers'[d] = 1..n /\ answers'[d][n] = r
          /\ \A k \in 1..Len(answers[d]) : answers'[d][k] = answers[d][k]
      BY <1>2, <3>2, AppendSeq
    <3> HIDE DEF n
    <3>4. ASSUME faults'.dups = 0 PROVE r.word = asked[d][n]
      <4>1. Whole(d) /\ faults.dups = 0
        BY <1>1, <2>3, <3>4, WholeBack, FaultsGrow
      <4>2. reply[d][1].word = sought[d].word
        BY <1>6, <4>1 DEF IndInv, TokenInv, Token, Clean, Recv
      <4> QED
        BY <2>1, <3>1, <4>1, <4>2 DEF n
    <3>5. faults'.dups = 0 => \A k \in DOMAIN answers'[d] : answers'[d][k].word = asked'[d][k]
      BY <1>2, <1>4, <2>1, <2>2, <2>3, <3>3, <3>4
    <3>6. ASSUME UDP PROVE \E j \in 1..n : r.word = asked[d][j]
      BY <2>1, <3>1, <3>6 DEF IndInv, WordInv, Asked, n
    <3>7. UDP => \A k \in DOMAIN answers'[d] : \E j \in 1..k : answers'[d][k].word = asked'[d][j]
      BY <1>2, <1>4, <2>1, <2>2, <3>3, <3>6
    <3> QED
      BY <1>1, <3>5, <3>7
  <2>4. CASE ~ Whole(d)'
    <3>1. ~ UDP
      BY <1>1, <2>4, FaultsGrow DEF Whole, ModeInv
    <3> QED
      BY <1>1, <2>4, <3>1
  <2> QED
    BY <2>3, <2>4
<1>7. CASE RecvEof(d)
  <2>1. ~ UDP /\ ~ PeerOpen(d) /\ conn[d] # "none"
    BY <1>1, <1>7 DEF RecvEof, ModeInv
  <2>2. ~ Whole(d)
    BY <2>1 DEF Whole
  <2> QED
    BY <1>1, <2>1, <2>2, WholeBack
<1>8. ASSUME NEW c \in Clients, c # d, Recv(c) \/ RecvEof(c) PROVE answers'[d] = answers[d]
  <2>1. CASE Recv(c)
    BY <1>1, <1>8, <2>1 DEF Recv, TypeOK
  <2> QED
    BY <1>1, <1>8, <2>1 DEF RecvEof, TypeOK
<1>9. ASSUME NEW c \in Clients, \/ \E w \in Words : Ask(c, w)
                                \/ Done(c) \/ Connect(c) \/ Send(c) \/ SendBroken(c) \/ RecvReset(c)
                                \/ Accept(c) \/ UdpRecv(c) \/ ChildStep(c) \/ ChildDies(c) \/ Lose(c) \/ Duplicate(c)
      PROVE  answers' = answers
  BY <1>9 DEF Ask, Done, Connect, Send, SendBroken, RecvReset, Accept, UdpRecv, ChildStep, ChildRecv, ChildReply, ChildEof,
     ChildDies, Lose, Duplicate, clientVars
<1>10. CASE Fork \/ ParentClose \/ ServerDies \/ UdpReply \/ UNCHANGED vars
  BY <1>5, <1>10 DEF Fork, ParentClose, ServerDies, UdpReply, vars, clientVars
<1> QED
  BY <1>5, <1>6, <1>7, <1>8, <1>9, <1>10 DEF Next, ServerStep, ClientStep

LEMMA IndInvInvariant == Spec => []IndInv
<1>1. IndInv /\ [Next]_vars => IndInv'
  BY TypeNext, ModeNext, TurnNext, TokenNext, TruthNext, WordNext, StepNext DEF IndInv
<1> QED
  BY <1>1, InitIndInv, PTL DEF Spec

-----------------------------------------------------------------------------

\* What lookup() prints is what the dictionary file says of the printed word,
\* for as long as the connection is whole, and with datagrams whatever is lost,
\* duplicated or overtaken: the servers of 11-1, 11-2 and 11-3 write word and
\* text together and nobody takes them apart.
THEOREM TrueAnswers == Spec => []AnswersTrue
<1>1. IndInv => AnswersTrue
  BY DEF IndInv, TruthInv, AnswersTrue
<1> QED
  BY <1>1, IndInvInvariant, PTL

\* The clients number nothing, and match answers to questions only by sending
\* the next word after the last answer.  That is enough on a whole connection,
\* and for datagrams as long as none is duplicated: the answer is for the word
\* just typed.  Even with duplicates it is for a word this client has typed.
THEOREM InStepAnswers == Spec => []AnswersInStep
<1>1. IndInv => AnswersInStep
  BY DEF IndInv
<1> QED
  BY <1>1, IndInvInvariant, PTL

=============================================================================
