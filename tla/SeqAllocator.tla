---------------------------- MODULE SeqAllocator ----------------------------
(***************************************************************************)
(* What the sequence-number service of homework/hw8/44-6 promises, with no *)
(* FIFOs and no processes: one counter hands out consecutive intervals,    *)
(* one per client, and a client prints the start of the interval that was  *)
(* granted to it.  Restarting the server starts the counter again, so the  *)
(* promise holds within one epoch.                                         *)
(***************************************************************************)
EXTENDS Integers

CONSTANTS Clients, SeqLens

VARIABLES next, epoch, grants, printed

avars == <<next, epoch, grants, printed>>

NoSeq == -1

Grants == [client : Clients, epoch : Nat, first : Nat, len : SeqLens]

AInit ==
    /\ next = 0
    /\ epoch = 0
    /\ grants = {}
    /\ printed = [c \in Clients |-> NoSeq]

\* The server hands the next len numbers to a client that has none.
Grant(c, len) ==
    /\ \A g \in grants : g.client # c
    /\ grants' = grants \union
                 {[client |-> c, epoch |-> epoch, first |-> next, len |-> len]}
    /\ next' = next + len
    /\ UNCHANGED <<epoch, printed>>

\* A client prints the start of its own interval.
Report(c) ==
    /\ printed[c] = NoSeq
    /\ \E g \in grants : g.client = c /\ printed' = [printed EXCEPT ![c] = g.first]
    /\ UNCHANGED <<next, epoch, grants>>

\* The server dies, and its counter with it.
Restart ==
    /\ epoch' = epoch + 1
    /\ next' = 0
    /\ UNCHANGED <<grants, printed>>

ANext ==
    \/ \E c \in Clients, len \in SeqLens : Grant(c, len)
    \/ \E c \in Clients : Report(c)
    \/ Restart

ASpec == AInit /\ [][ANext]_avars

-----------------------------------------------------------------------------

ATypeOK ==
    /\ next \in Nat
    /\ epoch \in Nat
    /\ grants \subseteq Grants
    /\ printed \in [Clients -> Nat \union {NoSeq}]

Interval(g) == g.first .. (g.first + g.len - 1)

\* No number is handed out twice by the same server process: the intervals of
\* one epoch are pairwise disjoint.
DisjointIntervals ==
    \A g, h \in grants : g # h /\ g.epoch = h.epoch => Interval(g) \cap Interval(h) = {}

\* No client is handed two intervals, and what it prints is its own.
OwnInterval ==
    \A c \in Clients : printed[c] # NoSeq =>
        \E g \in grants : g.client = c /\ g.first = printed[c]

=============================================================================
