------------------------- MODULE InotifyDtreeProofs -------------------------
(***************************************************************************)
(* The cache of inotify_dtree.c, the watches of the kernel and the trees,  *)
(* for any trees, any processes that change them, any commands and any     *)
(* size of the queue.                                                      *)
(*                                                                         *)
(* The first part is about the cache and the watches alone: every watch    *)
(* has its entry, and an entry whose watch is gone has an event on its way *)
(* that will remove it.  How paths are resolved plays no part in this.     *)
(*                                                                         *)
(* The second part is about the tree as well: while directories are only   *)
(* created, each one without a watch is about to be found by somebody.     *)
(***************************************************************************)
EXTENDS InotifyDtree, FiniteSetTheorems, SequenceTheorems, WellFoundedInduction, TLAPS

AllNames == Names \cup Roots \cup {"", "none", "unused"}
Places == Inodes \cup {Top, "none", "unused"}
Changes == {"CREATE", "MOVED_FROM", "MOVED_TO", "MOVE_SELF"}
NoteType == [mask : Changes, dir : Places, name : AllNames, cookie : Nat]
EventType == [mask : Changes \cup {"DELETE_SELF", "IGNORED", "Q_OVERFLOW"}, wd : Int, name : AllNames, cookie : Nat]
Evs == Range(buf) \cup Range(queue)

\* What fsnotify has to tell, and the events it makes of it.
NotesInv ==
    /\ at \in [Inodes -> Places \X AllNames]
    /\ notes \in [Users -> Seq(NoteType)]
    /\ ops \in Nat

EventsInv == queue \in Seq(EventType) /\ buf \in Seq(EventType)

\* Watch descriptors are not used again.
WdInv ==
    /\ nextWd \in Nat \ {0}
    /\ DOMAIN watches \subseteq 1 .. nextWd - 1
    /\ DOMAIN cache \subseteq 1 .. nextWd - 1

\* A directory has one watch, however often inotify_add_watch() is called.
UniqueInv == \A v, w \in DOMAIN watches : watches[v].dir = watches[w].dir => v = w

\* An event that tells of the end of a watch is told when it has ended.
GoneInv == \A e \in Evs : e.mask = "DELETE_SELF" => e.wd \in 1 .. nextWd - 1 /\ e.wd \notin DOMAIN watches

WatchInv == EventsInv /\ WdInv /\ UniqueInv /\ GoneInv /\ WatchesCached /\ StaleEntriesFound

IndInv == NotesInv /\ WatchInv

-----------------------------------------------------------------------------
(* Sequences. *)

LEMMA RangeEmpty == Range(<< >>) = {}
  BY EmptySeq DEF Range

LEMMA FunctionSeq ==
  ASSUME NEW S, NEW n \in Nat, NEW f \in [1 .. n -> S]
  PROVE  f \in Seq(S)
  BY SeqDef

LEMMA RangeAppend ==
  ASSUME NEW S, NEW s \in Seq(S), NEW e \in S
  PROVE  Append(s, e) \in Seq(S) /\ Range(Append(s, e)) = Range(s) \cup {e}
<1>1. /\ Append(s, e) \in Seq(S) /\ Len(Append(s, e)) = Len(s) + 1
      /\ Append(s, e)[Len(s) + 1] = e
      /\ \A k \in 1 .. Len(s) : Append(s, e)[k] = s[k]
  BY AppendProperties
<1>2. Len(s) \in Nat /\ DOMAIN s = 1 .. Len(s) /\ DOMAIN Append(s, e) = 1 .. (Len(s) + 1)
  BY <1>1, LenProperties
<1>3. 1 .. (Len(s) + 1) = (1 .. Len(s)) \cup {Len(s) + 1}
  BY <1>2
<1> QED
  BY <1>1, <1>2, <1>3 DEF Range

\* A sequence cut in two.
LEMMA Cut ==
  ASSUME NEW S, NEW s \in Seq(S), NEW n \in 0 .. Len(s)
  PROVE  /\ SubSeq(s, 1, n) \in Seq(S) /\ Range(SubSeq(s, 1, n)) = {s[i] : i \in 1 .. n}
         /\ Len(SubSeq(s, 1, n)) = n
         /\ SubSeq(s, n + 1, Len(s)) \in Seq(S)
         /\ Range(s) = {s[i] : i \in 1 .. n} \cup Range(SubSeq(s, n + 1, Len(s)))
<1> DEFINE a == SubSeq(s, 1, n)
           b == SubSeq(s, n + 1, Len(s))
<1>1. Len(s) \in Nat /\ n \in Nat /\ DOMAIN s = 1 .. Len(s) /\ \A k \in 1 .. Len(s) : s[k] \in S
  BY LenProperties, ElementOfSeq
<1>2. a \in Seq(S) /\ Len(a) = n /\ \A k \in 1 .. n : a[k] = s[k]
  <2>1. \A k \in 1 .. n : s[k] \in S
    BY <1>1
  <2>2. /\ a \in Seq(S) /\ Len(a) = IF 1 <= n THEN n - 1 + 1 ELSE 0
        /\ \A k \in 1 .. (n - 1 + 1) : a[k] = s[1 + k - 1]
    BY <1>1, <2>1, SubSeqProperties
  <2>3. (IF 1 <= n THEN n - 1 + 1 ELSE 0) = n /\ n - 1 + 1 = n /\ \A k \in 1 .. n : 1 + k - 1 = k
    BY <1>1
  <2> QED
    BY <2>2, <2>3
<1>3. b \in Seq(S) /\ Len(b) = Len(s) - n /\ \A k \in 1 .. (Len(s) - n) : b[k] = s[n + k]
  <2>1. \A k \in (n + 1) .. Len(s) : s[k] \in S
    BY <1>1
  <2>2. /\ b \in Seq(S) /\ Len(b) = IF n + 1 <= Len(s) THEN Len(s) - (n + 1) + 1 ELSE 0
        /\ \A k \in 1 .. (Len(s) - (n + 1) + 1) : b[k] = s[(n + 1) + k - 1]
    BY <1>1, <2>1, SubSeqProperties
  <2>3. ASSUME NEW l \in Nat, NEW m \in 0 .. l
        PROVE  /\ (IF m + 1 <= l THEN l - (m + 1) + 1 ELSE 0) = l - m
               /\ l - (m + 1) + 1 = l - m
               /\ \A k \in 1 .. (l - m) : (m + 1) + k - 1 = m + k
    OBVIOUS
  <2>4. /\ (IF n + 1 <= Len(s) THEN Len(s) - (n + 1) + 1 ELSE 0) = Len(s) - n
        /\ Len(s) - (n + 1) + 1 = Len(s) - n
        /\ \A k \in 1 .. (Len(s) - n) : (n + 1) + k - 1 = n + k
    BY <1>1, <2>3
  <2> QED
    BY <2>2, <2>4
<1>4. DOMAIN a = 1 .. n /\ DOMAIN b = 1 .. (Len(s) - n)
  BY <1>2, <1>3, LenProperties
<1> HIDE DEF a, b
<1>5. Range(a) = {s[i] : i \in 1 .. n}
  BY <1>2, <1>4 DEF Range
<1>6. Range(b) = {s[i] : i \in (n + 1) .. Len(s)}
  <2>1. ASSUME NEW i \in (n + 1) .. Len(s) PROVE i - n \in 1 .. (Len(s) - n) /\ n + (i - n) = i
    BY <1>1
  <2>2. ASSUME NEW k \in 1 .. (Len(s) - n) PROVE n + k \in (n + 1) .. Len(s)
    BY <1>1
  <2>3. ASSUME NEW i \in (n + 1) .. Len(s) PROVE s[i] \in Range(b)
    <3>1. b[i - n] = s[i] /\ i - n \in DOMAIN b
      BY <1>3, <1>4, <2>1
    <3> QED
      BY <3>1 DEF Range
  <2>4. ASSUME NEW x \in Range(b) PROVE \E i \in (n + 1) .. Len(s) : x = s[i]
    BY <1>3, <1>4, <2>2 DEF Range
  <2> QED
    BY <2>3, <2>4
<1>7. 1 .. Len(s) = (1 .. n) \cup ((n + 1) .. Len(s))
  BY <1>1
<1>8. Range(s) = {s[i] : i \in 1 .. n} \cup Range(b)
  BY <1>1, <1>6, <1>7 DEF Range
<1> QED
  BY <1>2, <1>3, <1>5, <1>8 DEF a, b

(* The queue of an inotify instance. *)

\* What was in the queue stays; what comes is added, or the overflow is noted.
Accepted(p, q, new) ==
    /\ p \in Seq(EventType)
    /\ Range(q) \subseteq Range(p)
    /\ Range(p) \subseteq Range(q) \cup new \cup {Overflow}
    /\ new \subseteq Range(p) \/ Overflow \in Range(p)

LEMMA OverflowType == Overflow \in EventType
  BY DEF Overflow, EventType, AllNames

LEMMA QueuedAllResult ==
  ASSUME NEW q \in Seq(EventType), NEW es \in Seq(EventType)
  PROVE  Accepted(QueuedAll(q, es), q, Range(es))
<1>1. Len(q) \in Nat /\ Len(es) \in Nat /\ QueueLimit \in Nat \ {0}
  BY LenProperties, InotifyAssumption
<1>2. ASSUME NEW s \in Seq(EventType)
      PROVE  q \o s \in Seq(EventType) /\ Range(q \o s) = Range(q) \cup Range(s) /\ Len(q \o s) = Len(q) + Len(s)
  BY ConcatProperties, RangeConcatenation
<1>3. CASE Len(es) <= QueueLimit - Len(q)
  <2>1. QueuedAll(q, es) = q \o es
    BY <1>3 DEF QueuedAll
  <2> QED
    BY <1>2, <2>1 DEF Accepted
<1>4. CASE ~ (Len(es) <= QueueLimit - Len(q))
  <2> DEFINE part == SubSeq(es, 1, QueueLimit - Len(q))
             fit == q \o part
  <2>1. QueuedAll(q, es) = MarkFull(fit)
    BY <1>4 DEF QueuedAll
  <2>2. part \in Seq(EventType) /\ Range(part) \subseteq Range(es) /\ Len(q) + Len(part) > 0
    <3>1. CASE QueueLimit - Len(q) \in 0 .. Len(es)
      <4>1. part \in Seq(EventType) /\ Len(part) = QueueLimit - Len(q) /\ Range(part) = {es[i] : i \in 1 .. QueueLimit - Len(q)}
        BY <3>1, Cut
      <4>2. \A i \in 1 .. QueueLimit - Len(q) : i \in DOMAIN es
        BY <1>1, <3>1, LenProperties
      <4>3. Len(q) + Len(part) > 0
        BY <1>1, <3>1, <4>1
      <4> QED
        BY <4>1, <4>2, <4>3 DEF Range
    <3>2. CASE ~ (QueueLimit - Len(q) \in 0 .. Len(es))
      <4>1. QueueLimit - Len(q) < 1 /\ QueueLimit - Len(q) \in Int /\ Len(q) > 0
        BY <1>1, <1>4, <3>2
      <4>2. part = << >>
        BY <4>1, SubSeqEmpty
      <4>3. << >> \in Seq(EventType) /\ Len(<< >>) = 0
        BY EmptySeq
      <4>4. part \in Seq(EventType) /\ Len(part) = 0 /\ Range(part) = {}
        BY <4>2, <4>3, RangeEmpty
      <4> HIDE DEF part
      <4> QED
        BY <1>1, <4>1, <4>4
    <3> QED
      BY <3>1, <3>2
  <2> HIDE DEF part
  <2>3. fit \in Seq(EventType) /\ Range(fit) = Range(q) \cup Range(part) /\ Len(fit) \in Nat /\ Len(fit) > 0
    BY <1>1, <1>2, <2>2, LenProperties
  <2> HIDE DEF fit
  <2>4. fit[Len(fit)] \in Range(fit)
    BY <2>3, LenProperties DEF Range
  <2>5. /\ MarkFull(fit) \in Seq(EventType)
        /\ Range(MarkFull(fit)) = Range(fit) \cup {Overflow}
    BY <2>3, <2>4, RangeAppend, OverflowType DEF MarkFull
  <2> QED
    BY <2>1, <2>2, <2>3, <2>5 DEF Accepted
<1> QED
  BY <1>3, <1>4

LEMMA QueuedResult ==
  ASSUME NEW q \in Seq(EventType), NEW e \in EventType
  PROVE  Accepted(Queued(q, e), q, {e})
<1>1. << e >> \in Seq(EventType) /\ Range(<< e >>) = {e}
  <2>1. << e >> \in Seq(EventType) /\ DOMAIN << e >> = {1} /\ << e >>[1] = e
    OBVIOUS
  <2> QED
    BY <2>1 DEF Range
<1>2. CASE q # << >> /\ q[Len(q)] = e
  <2>1. e \in Range(q)
    BY <1>2, LenProperties, EmptySeq DEF Range
  <2> QED
    BY <1>2, <2>1 DEF Queued, Accepted
<1>3. CASE ~ (q # << >> /\ q[Len(q)] = e)
  BY <1>1, <1>3, QueuedAllResult DEF Queued
<1> QED
  BY <1>2, <1>3

-----------------------------------------------------------------------------
(* What a step may do to the events, the watches and the cache. *)

\* No event of the end of a watch is made, and none is lost but of the slots.
Steady(slots) ==
    /\ queue' \in Seq(EventType) /\ buf' \in Seq(EventType)
    /\ \A e \in Evs' : e \in Evs \/ e.mask # "DELETE_SELF"
    /\ \A e \in Evs :
         (e.mask = "Q_OVERFLOW" \/ (e.mask = "DELETE_SELF" /\ e.wd \notin slots)) => e \in Evs'

\* The slots go from the watches and from the cache.
Removes(slots) ==
    /\ nextWd' = nextWd
    /\ DOMAIN watches' = DOMAIN watches \ slots
    /\ \A w \in DOMAIN watches' : watches'[w] = watches[w]
    /\ DOMAIN cache' = DOMAIN cache \ slots

\* A new inotify instance and an empty cache.
Reset == watches' = None /\ nextWd' = 1 /\ queue' = << >> /\ cache' = None /\ buf' = << >>

LEMMA SteadyStep ==
  ASSUME WatchInv, NEW slots, Steady(slots), Removes(slots), pc' # "done" => pc # "done"
  PROVE  WatchInv'
<1>1. EventsInv'
  BY DEF EventsInv, Steady
<1>2. WdInv' /\ UniqueInv'
  BY DEF WatchInv, WdInv, UniqueInv, Removes
<1>3. GoneInv'
  BY DEF WatchInv, GoneInv, Removes, Steady
<1>4. WatchesCached'
  BY DEF WatchInv, WatchesCached, Removes
<1>5. ASSUME pc' # "done", NEW w \in DOMAIN cache' \ DOMAIN watches'
      PROVE  \E e \in Evs' : (e.wd = w /\ e.mask = "DELETE_SELF") \/ e.mask = "Q_OVERFLOW"
  <2>1. w \in DOMAIN cache \ DOMAIN watches /\ w \notin slots
    BY <1>5 DEF Removes
  <2>2. PICK e \in Evs : (e.wd = w /\ e.mask = "DELETE_SELF") \/ e.mask = "Q_OVERFLOW"
    BY <1>5, <2>1 DEF WatchInv, StaleEntriesFound, Evs
  <2> QED
    BY <2>1, <2>2 DEF Steady
<1>6. StaleEntriesFound'
  BY <1>5 DEF StaleEntriesFound, Evs
<1> QED
  BY <1>1, <1>2, <1>3, <1>4, <1>6 DEF WatchInv

LEMMA ResetStep == Reset => WatchInv'
<1> SUFFICES ASSUME Reset PROVE WatchInv'
  OBVIOUS
<1>1. << >> \in Seq(EventType)
  BY EmptySeq
<1>2. EventsInv' /\ Evs' = {} /\ DOMAIN watches' = {} /\ DOMAIN cache' = {}
  BY <1>1, RangeEmpty DEF Reset, EventsInv, Evs, None
<1> QED
  BY <1>2 DEF Reset, WatchInv, WdInv, UniqueInv, GoneInv, WatchesCached, StaleEntriesFound

LEMMA NothingStep ==
  ASSUME WatchInv, UNCHANGED <<inotify, buf>>, DOMAIN cache' = DOMAIN cache, pc' # "done" => pc # "done"
  PROVE  WatchInv'
<1>1. UNCHANGED <<watches, nextWd, queue, buf>>
  BY DEF inotify
<1>2. Steady({}) /\ Removes({})
  BY <1>1 DEF WatchInv, EventsInv, Steady, Removes, Evs
<1> QED
  BY <1>2, SteadyStep

\* n events have been processed.
LEMMA Dropped ==
  ASSUME EventsInv, NEW n \in 0 .. Len(buf), Processed(n)
  PROVE  /\ buf' \in Seq(EventType)
         /\ Range(buf') \subseteq Range(buf)
         /\ \A e \in Range(buf) : e \in Range(buf') \/ \E i \in 1 .. n : e = buf[i]
<1>1. buf' = SubSeq(buf, n + 1, Len(buf)) /\ buf \in Seq(EventType)
  BY DEF Processed, EventsInv
<1>2. buf' \in Seq(EventType) /\ Range(buf) = {buf[i] : i \in 1 .. n} \cup Range(buf')
  BY <1>1, Cut
<1> QED
  BY <1>2

LEMMA ZapResult ==
  ASSUME WatchInv, NEW slots \in SUBSET DOMAIN cache, Zap(slots)
  PROVE  /\ Removes(slots)
         /\ queue' \in Seq(EventType) /\ Range(queue) \subseteq Range(queue')
         /\ \A e \in Range(queue') : e \in Range(queue) \/ e.mask # "DELETE_SELF"
<1>1. Removes(slots)
  BY DEF Zap, Removes, Restrict
<1>2. slots \subseteq Int /\ Cardinality(slots) \in Nat
  <2>1. nextWd - 1 \in Int /\ slots \subseteq 1 .. nextWd - 1
    BY DEF WatchInv, WdInv
  <2>2. IsFiniteSet(1 .. nextWd - 1)
    BY <2>1, FS_Interval
  <2> QED
    BY <2>1, <2>2, FS_Subset, FS_CardinalityType
<1>3. PICK order \in SetToSeqs(slots) :
         queue' = QueuedAll(queue, [i \in DOMAIN order |-> Event("IGNORED", order[i], "", 0)])
  BY DEF Zap
<1> DEFINE es == [i \in DOMAIN order |-> Event("IGNORED", order[i], "", 0)]
<1>4. order \in [1 .. Cardinality(slots) -> slots]
  BY <1>3 DEF SetToSeqs
<1>5. \A i \in 1 .. Cardinality(slots) :
         es[i] = Event("IGNORED", order[i], "", 0) /\ es[i] \in EventType /\ es[i].mask = "IGNORED"
  BY <1>2, <1>4 DEF Event, EventType, AllNames
<1>6. es \in [1 .. Cardinality(slots) -> EventType]
  BY <1>4, <1>5
<1>7. es \in Seq(EventType)
  BY <1>2, <1>6, FunctionSeq
<1>8. \A e \in Range(es) : e.mask = "IGNORED"
  BY <1>4, <1>5 DEF Range
<1>9. queue' = QueuedAll(queue, es)
  BY <1>3
<1> HIDE DEF es
<1>10. Accepted(queue', queue, Range(es))
  BY <1>7, <1>9, QueuedAllResult DEF WatchInv, EventsInv
<1>11. Overflow.mask # "DELETE_SELF"
  BY DEF Overflow
<1> QED
  BY <1>1, <1>8, <1>10, <1>11 DEF Accepted

-----------------------------------------------------------------------------

LEMMA InitIndInv == Init => IndInv
<1> SUFFICES ASSUME Init PROVE IndInv
  OBVIOUS
<1>1. << >> \in Seq(EventType) /\ << >> \in Seq(NoteType)
  BY EmptySeq
<1>2. at \in [Inodes -> Places \X AllNames]
  <2>1. ASSUME NEW d \in Inodes PROVE at[d] \in Places \X AllNames
    <3>1. CASE d \in Roots
      BY <3>1 DEF Init, Places, AllNames
    <3>2. CASE d \notin Roots
      <4>1. d \in Dirs /\ at[d] = Start[d]
        BY <3>2 DEF Init, Inodes
      <4>2. Start[d] \in ((Roots \cup Dirs) \X Names) \cup {<<"unused", "unused">>}
        BY <4>1, InotifyAssumption
      <4>3. (Roots \cup Dirs) \subseteq Places /\ Names \subseteq AllNames
        BY DEF Places, AllNames, Inodes
      <4>4. <<"unused", "unused">> \in Places \X AllNames
        BY DEF Places, AllNames
      <4> QED
        BY <4>1, <4>2, <4>3, <4>4
    <3> QED
      BY <3>1, <3>2
  <2> QED
    BY <2>1 DEF Init
<1>3. NotesInv /\ EventsInv
  BY <1>1, <1>2 DEF Init, NotesInv, EventsInv
<1>4. Evs = {} /\ DOMAIN watches = {} /\ DOMAIN cache = {}
  BY RangeEmpty DEF Init, Evs, None
<1> QED
  BY <1>3, <1>4 DEF Init, IndInv, WatchInv, WdInv, UniqueInv, GoneInv, WatchesCached, StaleEntriesFound

LEMMA NotesNext == NotesInv /\ [Next]_vars => NotesInv'
<1> SUFFICES ASSUME NotesInv, [Next]_vars PROVE NotesInv'
  OBVIOUS
<1> USE DEF NotesInv
<1>1. ASSUME NEW u \in Users, CanChange(u) PROVE ops' \in Nat
  BY <1>1 DEF CanChange
<1>2. ASSUME NEW u \in Users, Mkdir(u) PROVE NotesInv'
  <2>1. PICK p \in Inodes, n \in Names, d \in Dirs :
           /\ at' = [at EXCEPT ![d] = <<p, n>>]
           /\ notes' = [notes EXCEPT ![u] = << [mask |-> "CREATE", dir |-> p, name |-> n, cookie |-> 0] >>]
    BY <1>2 DEF Mkdir
  <2>2. at' \in [Inodes -> Places \X AllNames]
    BY <2>1 DEF Places, AllNames
  <2>3. [mask |-> "CREATE", dir |-> p, name |-> n, cookie |-> 0] \in NoteType
    BY DEF NoteType, Changes, Places, AllNames
  <2>4. << [mask |-> "CREATE", dir |-> p, name |-> n, cookie |-> 0] >> \in Seq(NoteType)
    BY <2>3
  <2> QED
    BY <1>1, <1>2, <2>1, <2>2, <2>4 DEF Mkdir
<1>3. ASSUME NEW u \in Users, Rmdir(u) PROVE NotesInv'
  <2>1. PICK d \in Inodes : at' = [at EXCEPT ![d] = Nowhere]
    BY <1>3 DEF Rmdir
  <2>2. Nowhere \in Places \X AllNames
    BY DEF Nowhere, Places, AllNames
  <2> QED
    BY <1>1, <1>3, <2>1, <2>2 DEF Rmdir
<1>4. ASSUME NEW u \in Users, Rename(u) PROVE NotesInv'
  <2>1. PICK d \in Inodes, p \in Inodes \cup {Top}, n \in Names :
         /\ at' = [at EXCEPT ![d] = <<p, n>>]
         /\ notes' = [notes EXCEPT ![u] =
              << [mask |-> "MOVED_FROM", dir |-> at[d][1], name |-> at[d][2], cookie |-> ops + 1],
                 [mask |-> "MOVED_TO", dir |-> p, name |-> n, cookie |-> ops + 1],
                 [mask |-> "MOVE_SELF", dir |-> d, name |-> "", cookie |-> 0] >>]
    BY <1>4 DEF Rename
  <2>2. at' \in [Inodes -> Places \X AllNames]
    BY <2>1 DEF Places, AllNames
  <2>3. at[d] \in Places \X AllNames
    OBVIOUS
  <2>4. at[d][1] \in Places /\ at[d][2] \in AllNames
    BY <2>3
  <2>5. /\ [mask |-> "MOVED_FROM", dir |-> at[d][1], name |-> at[d][2], cookie |-> ops + 1] \in NoteType
        /\ [mask |-> "MOVED_TO", dir |-> p, name |-> n, cookie |-> ops + 1] \in NoteType
        /\ [mask |-> "MOVE_SELF", dir |-> d, name |-> "", cookie |-> 0] \in NoteType
    <3>1. ASSUME NEW m \in Changes, NEW q \in Places, NEW x \in AllNames, NEW k \in Nat
          PROVE  [mask |-> m, dir |-> q, name |-> x, cookie |-> k] \in NoteType
      BY DEF NoteType
    <3>2. ops + 1 \in Nat /\ 0 \in Nat
      OBVIOUS
    <3>3. d \in Places /\ p \in Places /\ n \in AllNames /\ "" \in AllNames
      BY Zenon DEF Places, AllNames
    <3>4. "MOVED_FROM" \in Changes /\ "MOVED_TO" \in Changes /\ "MOVE_SELF" \in Changes
      BY DEF Changes
    <3> HIDE DEF NotesInv
    <3>5. [mask |-> "MOVED_FROM", dir |-> at[d][1], name |-> at[d][2], cookie |-> ops + 1] \in NoteType
      BY <2>4, <3>1, <3>2, <3>3, <3>4
    <3>6. [mask |-> "MOVED_TO", dir |-> p, name |-> n, cookie |-> ops + 1] \in NoteType
      BY <3>1, <3>2, <3>3, <3>4
    <3>7. [mask |-> "MOVE_SELF", dir |-> d, name |-> "", cookie |-> 0] \in NoteType
      BY <3>1, <3>2, <3>3, <3>4
    <3> QED
      BY <3>5, <3>6, <3>7
  <2>6. ASSUME NEW x \in NoteType, NEW y \in NoteType, NEW z \in NoteType PROVE <<x, y, z>> \in Seq(NoteType)
    OBVIOUS
  <2>7. notes' \in [Users -> Seq(NoteType)]
    BY <2>1, <2>5, <2>6
  <2> QED
    BY <1>1, <1>4, <2>2, <2>7 DEF Rename
<1>5. ASSUME NEW u \in Users, Notify(u) PROVE NotesInv'
  <2>1. notes[u] \in Seq(NoteType) /\ notes[u] # << >>
    BY <1>5 DEF Notify
  <2>2. Tail(notes[u]) \in Seq(NoteType)
    BY <2>1, HeadTailProperties
  <2> QED
    BY <1>5, <2>2 DEF Notify
<1>6. CASE UNCHANGED fs
  BY <1>6 DEF fs
<1>7. ASSUME NEW d \in Inodes, Release(d) PROVE NotesInv'
  BY <1>7 DEF Release
<1>8. Monitor => UNCHANGED fs
  BY DEF Monitor, WalkRoot, Stat, OpenDir, traverseTree, ReadDir, VisitNext, UnknownWatch, QueueOverflow, NothingToDo,
     Created, DeletedSelf, MovedWithin, MovedOut, HangingMovedFrom, RootMoved, ReadEvents, EndOfBuffer, ReadMore, Timeout,
     SelectInotify, executeCommand
<1> QED
  BY <1>2, <1>3, <1>4, <1>5, <1>6, <1>7, <1>8 DEF Next, SelectKeyboard, TimeoutTooEarly, User, Rest, vars

LEMMA UserStep ==
  ASSUME IndInv, NEW u \in Users, User(u)
  PROVE  WatchInv'
<1>1. UNCHANGED <<inotify, cache, buf, pc>>
  BY DEF User, Mkdir, Rmdir, Rename, monitor
<1> QED
  BY <1>1, NothingStep DEF IndInv

LEMMA NotifyStep ==
  ASSUME IndInv, NEW u \in Users, Notify(u)
  PROVE  WatchInv'
<1>1. UNCHANGED <<watches, nextWd, cache, buf, pc>>
  BY DEF Notify, monitor
<1>2. notes[u] \in Seq(NoteType) /\ notes[u] # << >>
  BY DEF Notify, IndInv, NotesInv
<1> DEFINE e == Head(notes[u])
           told == {w \in WdOf(e.dir) : e.mask # "MOVE_SELF" \/ watches[w].self}
           w0 == CHOOSE w \in told : TRUE
           ev == Event(e.mask, w0, e.name, e.cookie)
<1>3. queue' = IF told = {} THEN queue ELSE Queued(queue, ev)
  BY DEF Notify
<1>4. e \in NoteType
  BY <1>2, HeadTailProperties
<1>5. told \subseteq DOMAIN watches
  BY DEF WdOf
<1> HIDE DEF e, told
<1>6. CASE told = {}
  <2>1. UNCHANGED <<inotify, buf>>
    BY <1>1, <1>3, <1>6 DEF inotify
  <2> QED
    BY <1>1, <2>1, NothingStep DEF IndInv
<1>7. CASE told # {}
  <2>1. w0 \in told
    BY <1>7
  <2>2. w0 \in Int
    BY <1>5, <2>1 DEF IndInv, WatchInv, WdInv
  <2> HIDE DEF w0
  <2>3. ev \in EventType /\ ev.mask # "DELETE_SELF"
    BY <1>4, <2>2 DEF Event, EventType, NoteType, Changes
  <2> HIDE DEF ev
  <2>4. Accepted(queue', queue, {ev})
    BY <1>3, <1>7, <2>3, QueuedResult DEF IndInv, WatchInv, EventsInv
  <2>5. Overflow.mask # "DELETE_SELF"
    BY DEF Overflow
  <2>6. Steady({})
    BY <1>1, <2>3, <2>4, <2>5 DEF Steady, Accepted, Evs, IndInv, WatchInv, EventsInv
  <2>7. Removes({})
    BY <1>1 DEF Removes
  <2> QED
    BY <1>1, <2>6, <2>7, SteadyStep DEF IndInv
<1> QED
  BY <1>6, <1>7

LEMMA ReleaseStep ==
  ASSUME IndInv, NEW d \in Inodes, Release(d)
  PROVE  WatchInv'
<1>1. UNCHANGED <<nextWd, cache, buf, pc>> /\ watches' = Restrict(watches, DOMAIN watches \ WdOf(d))
  BY DEF Release, monitor
<1> DEFINE w0 == CHOOSE w \in WdOf(d) : TRUE
           del == Event("DELETE_SELF", w0, "", 0)
           ign == Event("IGNORED", w0, "", 0)
<1>2. queue' = IF WdOf(d) = {} THEN queue ELSE QueuedAll(queue, << del, ign >>)
  BY DEF Release
<1>3. WatchInv /\ EventsInv
  BY DEF IndInv, WatchInv
<1>4. CASE WdOf(d) = {}
  <2>1. Removes({})
    BY <1>1, <1>4 DEF Removes, Restrict
  <2>2. Steady({})
    BY <1>1, <1>2, <1>3, <1>4 DEF Steady, EventsInv, Evs
  <2> QED
    BY <1>1, <1>3, <2>1, <2>2, SteadyStep
<1>5. CASE WdOf(d) # {}
  <2>1. w0 \in DOMAIN watches /\ watches[w0].dir = d
    <3>1. w0 \in WdOf(d)
      BY <1>5
    <3> QED
      BY <3>1 DEF WdOf
  <2> HIDE DEF w0
  <2>2. WdOf(d) = {w0}
    BY <1>3, <2>1 DEF WdOf, WatchInv, UniqueInv
  <2>3. DOMAIN watches' = DOMAIN watches \ {w0} /\ \A w \in DOMAIN watches' : watches'[w] = watches[w]
    BY <1>1, <2>2 DEF Restrict
  <2>4. w0 \in 1 .. nextWd - 1 /\ w0 \in Int
    BY <1>3, <2>1 DEF WatchInv, WdInv
  <2>5. /\ del \in EventType /\ del.mask = "DELETE_SELF" /\ del.wd = w0
        /\ ign \in EventType /\ ign.mask = "IGNORED"
    BY <2>4 DEF Event, EventType, AllNames
  <2> HIDE DEF del, ign
  <2>6. << del, ign >> \in Seq(EventType) /\ Range(<< del, ign >>) = {del, ign}
    <3>1. << del, ign >> \in Seq(EventType) /\ DOMAIN << del, ign >> = {1, 2}
      BY <2>5
    <3> QED
      BY <3>1 DEF Range
  <2>7. Accepted(queue', queue, {del, ign})
    BY <1>2, <1>3, <1>5, <2>6, QueuedAllResult DEF EventsInv
  <2>8. Overflow.mask = "Q_OVERFLOW"
    BY DEF Overflow
  <2>9. EventsInv'
    BY <1>1, <1>3, <2>7 DEF EventsInv, Accepted
  <2>10. WdInv' /\ UniqueInv' /\ WatchesCached'
    BY <1>1, <1>3, <2>3 DEF WatchInv, WdInv, UniqueInv, WatchesCached
  <2>11. Evs \subseteq Evs' /\ Evs' \subseteq Evs \cup {del, ign, Overflow} /\ (del \in Evs' \/ Overflow \in Evs')
    BY <1>1, <2>7 DEF Evs, Accepted
  <2>12. GoneInv'
    <3> SUFFICES ASSUME NEW e \in Evs', e.mask = "DELETE_SELF"
                 PROVE  e.wd \in 1 .. nextWd - 1 /\ e.wd \notin DOMAIN watches'
      BY <1>1 DEF GoneInv
    <3>1. e \in Evs \/ e = del
      BY <2>5, <2>8, <2>11
    <3> QED
      BY <1>3, <2>3, <2>4, <2>5, <3>1 DEF WatchInv, GoneInv
  <2>13. ASSUME pc' # "done", NEW w \in DOMAIN cache' \ DOMAIN watches'
         PROVE  \E e \in Evs' : (e.wd = w /\ e.mask = "DELETE_SELF") \/ e.mask = "Q_OVERFLOW"
    <3>1. CASE w = w0
      BY <2>5, <2>8, <2>11, <3>1
    <3>2. CASE w # w0
      <4>1. PICK e \in Evs : (e.wd = w /\ e.mask = "DELETE_SELF") \/ e.mask = "Q_OVERFLOW"
        BY <1>1, <1>3, <2>3, <2>13, <3>2 DEF WatchInv, StaleEntriesFound, Evs
      <4> QED
        BY <2>11, <4>1
    <3> QED
      BY <3>1, <3>2
  <2>14. StaleEntriesFound'
    BY <2>13 DEF StaleEntriesFound, Evs
  <2> QED
    BY <2>9, <2>10, <2>12, <2>14 DEF WatchInv
<1> QED
  BY <1>4, <1>5

LEMMA TraverseStep ==
  ASSUME IndInv, traverseTree
  PROVE  WatchInv'
<1>1. UNCHANGED <<queue, buf, pc>> /\ WatchInv
  BY DEF traverseTree, IndInv
<1>2. CASE Resolve(Inner.path) = {}
  <2>1. UNCHANGED <<inotify, buf>> /\ DOMAIN cache' = DOMAIN cache
    BY <1>1, <1>2 DEF traverseTree, inotify
  <2> QED
    BY <1>1, <2>1, NothingStep
<1>3. CASE Resolve(Inner.path) # {}
  <2>1. PICK d \in Resolve(Inner.path) :
           LET wd == IF WdOf(d) = {} THEN nextWd ELSE CHOOSE w \in WdOf(d) : TRUE
           IN  /\ watches' = With(watches, wd, [dir |-> d, self |-> isRootDirPath(Inner.path)])
               /\ nextWd' = IF wd = nextWd THEN nextWd + 1 ELSE nextWd
               /\ cache' = IF wd \in DOMAIN cache THEN cache ELSE With(cache, wd, Inner.path)
    BY <1>3 DEF traverseTree
  <2> DEFINE wd == IF WdOf(d) = {} THEN nextWd ELSE CHOOSE w \in WdOf(d) : TRUE
             own == [dir |-> d, self |-> isRootDirPath(Inner.path)]
  <2>2. (WdOf(d) = {} /\ wd = nextWd) \/ (wd \in DOMAIN watches /\ watches[wd].dir = d)
    <3>1. WdOf(d) # {} => wd \in WdOf(d)
      OBVIOUS
    <3> QED
      BY <3>1 DEF WdOf
  <2>3. /\ watches' = With(watches, wd, own)
        /\ nextWd' = IF wd = nextWd THEN nextWd + 1 ELSE nextWd
        /\ cache' = IF wd \in DOMAIN cache THEN cache ELSE With(cache, wd, Inner.path)
    BY <2>1
  <2>4. own.dir = d
    OBVIOUS
  <2> HIDE DEF wd, own
  <2>5. /\ DOMAIN watches' = DOMAIN watches \cup {wd}
        /\ watches'[wd] = own
        /\ \A w \in DOMAIN watches : w # wd => watches'[w] = watches[w]
        /\ DOMAIN cache' = DOMAIN cache \cup {wd}
    BY <2>3 DEF With
  <2>6. /\ nextWd \in Nat \ {0} /\ nextWd \notin DOMAIN watches
        /\ DOMAIN watches \subseteq 1 .. nextWd - 1 /\ DOMAIN cache \subseteq 1 .. nextWd - 1
    BY <1>1 DEF WatchInv, WdInv
  <2>7. nextWd' \in Nat \ {0} /\ 1 .. nextWd - 1 \subseteq 1 .. nextWd' - 1 /\ wd \in 1 .. nextWd' - 1
    <3>1. CASE wd = nextWd
      BY <2>3, <2>6, <3>1
    <3>2. CASE wd # nextWd
      BY <2>2, <2>3, <2>6, <3>2
    <3> QED
      BY <3>1, <3>2
  <2>8. WdInv'
    BY <2>5, <2>6, <2>7 DEF WdInv
  <2>9. UniqueInv'
    <3> SUFFICES ASSUME NEW v \in DOMAIN watches', NEW w \in DOMAIN watches', watches'[v].dir = watches'[w].dir
                 PROVE  v = w
      BY DEF UniqueInv
    <3>1. ASSUME NEW x \in DOMAIN watches, watches[x].dir = d PROVE x = wd
      BY <1>1, <2>2, <3>1 DEF WatchInv, UniqueInv, WdOf
    <3>2. \A x, y \in DOMAIN watches : watches[x].dir = watches[y].dir => x = y
      BY <1>1 DEF WatchInv, UniqueInv
    <3> QED
      BY <2>4, <2>5, <3>1, <3>2
  <2>10. Evs' = Evs /\ EventsInv'
    BY <1>1 DEF Evs, EventsInv, WatchInv
  <2>11. GoneInv'
    <3> SUFFICES ASSUME NEW e \in Evs, e.mask = "DELETE_SELF"
                 PROVE  e.wd \in 1 .. nextWd' - 1 /\ e.wd \notin DOMAIN watches'
      BY <2>10 DEF GoneInv
    <3>1. e.wd \in 1 .. nextWd - 1 /\ e.wd \notin DOMAIN watches
      BY <1>1 DEF WatchInv, GoneInv
    <3>2. e.wd # wd
      BY <2>2, <2>6, <3>1
    <3> QED
      BY <2>5, <2>7, <3>1, <3>2
  <2>12. WatchesCached' /\ StaleEntriesFound'
    <3>1. DOMAIN cache' \ DOMAIN watches' \subseteq DOMAIN cache \ DOMAIN watches
      BY <2>5
    <3> QED
      BY <1>1, <2>5, <3>1 DEF WatchInv, WatchesCached, StaleEntriesFound
  <2> QED
    BY <2>8, <2>9, <2>10, <2>11, <2>12 DEF WatchInv
<1> QED
  BY <1>2, <1>3

\* Events are processed and slots removed; what tells of the end of a watch is
\* dropped only with the slot.
LEMMA ProcessStep ==
  ASSUME WatchInv, NEW slots, Removes(slots), pc' # "done" => pc # "done",
         NEW n \in 0 .. Len(buf), Processed(n),
         \A i \in 1 .. n : buf[i].mask # "Q_OVERFLOW" /\ (buf[i].mask = "DELETE_SELF" => buf[i].wd \in slots),
         queue' \in Seq(EventType), Range(queue) \subseteq Range(queue'),
         \A e \in Range(queue') : e \in Range(queue) \/ e.mask # "DELETE_SELF"
  PROVE  WatchInv'
<1>1. /\ buf' \in Seq(EventType)
      /\ Range(buf') \subseteq Range(buf)
      /\ \A e \in Range(buf) : e \in Range(buf') \/ \E i \in 1 .. n : e = buf[i]
  BY Dropped DEF WatchInv
<1>2. Steady(slots)
  BY <1>1 DEF Steady, Evs
<1> QED
  BY <1>2, SteadyStep

LEMMA AtEventFacts ==
  ASSUME WatchInv, AtEvent
  PROVE  /\ Ev = buf[1] /\ Ev \in Evs /\ Len(buf) \in Nat /\ 1 \in 0 .. Len(buf) /\ 1 .. 1 = {1}
         /\ buf \in Seq(EventType) /\ queue \in Seq(EventType) /\ pc = "process"
<1>1. buf \in Seq(EventType) /\ queue \in Seq(EventType) /\ buf # << >> /\ pc = "process"
  BY DEF WatchInv, EventsInv, AtEvent
<1>2. Ev = buf[1] /\ Len(buf) \in Nat /\ Len(buf) > 0 /\ DOMAIN buf = 1 .. Len(buf)
  BY <1>1, HeadTailProperties, LenProperties, EmptySeq DEF Ev
<1>3. 1 \in 1 .. Len(buf) /\ 1 \in 0 .. Len(buf) /\ 1 .. 1 = {1}
  BY <1>2
<1>4. Ev \in Evs
  BY <1>2, <1>3 DEF Evs, Range
<1> QED
  BY <1>1, <1>2, <1>3, <1>4

\* Events that change neither a watch nor a slot.
LEMMA PlainEventStep ==
  ASSUME IndInv, NothingToDo \/ Created
  PROVE  WatchInv'
<1>1. AtEvent /\ UNCHANGED <<inotify, cache, pc>> /\ Processed(1) /\ WatchInv
  BY DEF NothingToDo, Created, IndInv
<1>2. Ev.mask \in {"IGNORED", "MOVE_SELF", "CREATE", "MOVED_TO"}
  BY DEF NothingToDo, Created
<1>3. Removes({}) /\ queue' = queue
  BY <1>1 DEF Removes, inotify
<1>4. \A i \in 1 .. 1 : buf[i].mask # "Q_OVERFLOW" /\ (buf[i].mask = "DELETE_SELF" => buf[i].wd \in {})
  BY <1>1, <1>2, AtEventFacts
<1> QED
  BY <1>1, <1>3, <1>4, AtEventFacts, ProcessStep

LEMMA DeletedSelfStep ==
  ASSUME IndInv, DeletedSelf
  PROVE  WatchInv'
<1>1. AtEvent /\ UNCHANGED inotify /\ Processed(1) /\ Ev.mask = "DELETE_SELF" /\ WatchInv
  BY DEF DeletedSelf, IndInv
<1>2. Ev.wd \notin DOMAIN watches
  BY <1>1, AtEventFacts DEF WatchInv, GoneInv
<1>3. DOMAIN cache' = DOMAIN cache \ {Ev.wd}
  BY DEF DeletedSelf, Restrict
<1>4. Removes({Ev.wd}) /\ queue' = queue
  BY <1>1, <1>2, <1>3 DEF Removes, inotify
<1>5. \A i \in 1 .. 1 : buf[i].mask # "Q_OVERFLOW" /\ (buf[i].mask = "DELETE_SELF" => buf[i].wd \in {Ev.wd})
  BY <1>1, AtEventFacts
<1> QED
  BY <1>1, <1>4, <1>5, AtEventFacts, ProcessStep

\* The subtree of the first event is zapped, and the event is done.
LEMMA ZapEventStep ==
  ASSUME WatchInv, AtEvent, NEW path, Zap(Subtree(path)), Processed(1), Ev.mask \in {"MOVED_FROM", "MOVE_SELF"}
  PROVE  WatchInv'
<1>1. Subtree(path) \in SUBSET DOMAIN cache
  BY DEF Subtree
<1>2. /\ Removes(Subtree(path))
      /\ queue' \in Seq(EventType) /\ Range(queue) \subseteq Range(queue')
      /\ \A e \in Range(queue') : e \in Range(queue) \/ e.mask # "DELETE_SELF"
  BY <1>1, ZapResult
<1>3. \A i \in 1 .. 1 : buf[i].mask # "Q_OVERFLOW" /\ (buf[i].mask = "DELETE_SELF" => buf[i].wd \in Subtree(path))
  BY AtEventFacts
<1> QED
  BY <1>2, <1>3, AtEventFacts, ProcessStep

LEMMA MovedStep ==
  ASSUME IndInv, MovedWithin \/ MovedOut \/ RootMoved
  PROVE  WatchInv'
<1>1. AtEvent /\ WatchInv
  BY DEF MovedWithin, MovedOut, RootMoved, IndInv
<1>2. CASE Reset
  BY <1>2, ResetStep
<1>3. CASE MovedWithin /\ ~ Reset
  <2>1. /\ Ev.mask = "MOVED_FROM" /\ Len(buf) > 1 /\ buf[2].mask = "MOVED_TO"
        /\ UNCHANGED <<inotify, pc>> /\ Processed(2) /\ DOMAIN cache' = DOMAIN cache
    BY <1>3 DEF MovedWithin, Paired, Reset, reinitialize, rewriteCachedPaths
  <2>2. 2 \in 0 .. Len(buf) /\ 1 .. 2 = {1, 2}
    BY <1>1, <2>1, AtEventFacts
  <2>3. Removes({}) /\ queue' = queue
    BY <2>1 DEF Removes, inotify
  <2>4. \A i \in 1 .. 2 : buf[i].mask # "Q_OVERFLOW" /\ (buf[i].mask = "DELETE_SELF" => buf[i].wd \in {})
    BY <1>1, <2>1, <2>2, AtEventFacts
  <2> QED
    BY <1>1, <2>1, <2>2, <2>3, <2>4, AtEventFacts, ProcessStep
<1>4. CASE MovedOut /\ ~ Reset
  <2>1. Zap(Subtree(FullPath)) /\ Processed(1) /\ Ev.mask = "MOVED_FROM"
    BY <1>4 DEF MovedOut, Reset, reinitialize
  <2> QED
    BY <1>1, <2>1, ZapEventStep
<1>5. CASE RootMoved /\ ~ Reset
  <2>1. CASE pc' = "done"
    <3>1. UNCHANGED <<inotify, buf, cache>>
      BY <1>5, <2>1 DEF RootMoved
    <3> QED
      BY <1>1, <2>1, <3>1, NothingStep
  <2>2. CASE pc' # "done"
    <3>1. Zap(Subtree(cache[Ev.wd])) /\ Processed(1) /\ Ev.mask = "MOVE_SELF"
      BY <1>5, <2>2 DEF RootMoved, Reset
    <3> QED
      BY <1>1, <3>1, ZapEventStep
  <2> QED
    BY <2>1, <2>2
<1> QED
  BY <1>2, <1>3, <1>4, <1>5

LEMMA ReadKeeps ==
  ASSUME EventsInv, ReadUpTo(ReadSize)
  PROVE  EventsInv' /\ Evs' = Evs
<1>1. queue \in Seq(EventType) /\ buf \in Seq(EventType) /\ Len(queue) \in Nat /\ ReadSize \in Nat
  BY LenProperties, InotifyAssumption DEF EventsInv
<1> DEFINE k == IF ReadSize < Len(queue) THEN ReadSize ELSE Len(queue)
<1>2. buf' = buf \o SubSeq(queue, 1, k) /\ queue' = SubSeq(queue, k + 1, Len(queue))
  BY DEF ReadUpTo
<1>3. k \in 0 .. Len(queue)
  BY <1>1
<1> HIDE DEF k
<1>4. /\ SubSeq(queue, 1, k) \in Seq(EventType) /\ Range(SubSeq(queue, 1, k)) = {queue[i] : i \in 1 .. k}
      /\ queue' \in Seq(EventType) /\ Range(queue) = {queue[i] : i \in 1 .. k} \cup Range(queue')
  BY <1>1, <1>2, <1>3, Cut
<1>5. buf' \in Seq(EventType) /\ Range(buf') = Range(buf) \cup {queue[i] : i \in 1 .. k}
  <2>1. ASSUME NEW s \in Seq(EventType)
        PROVE  buf \o s \in Seq(EventType) /\ Range(buf \o s) = Range(buf) \cup Range(s)
    BY <1>1, ConcatProperties, RangeConcatenation
  <2> QED
    BY <1>2, <1>4, <2>1
<1> QED
  BY <1>4, <1>5 DEF Evs, EventsInv

LEMMA ReadStep ==
  ASSUME IndInv, ReadEvents \/ ReadMore
  PROVE  WatchInv'
<1>1. UNCHANGED <<watches, nextWd, cache>> /\ pc # "done" /\ ReadUpTo(ReadSize) /\ WatchInv
  BY DEF ReadEvents, ReadMore, IndInv
<1>2. EventsInv' /\ Evs' = Evs
  BY <1>1, ReadKeeps DEF WatchInv
<1>3. Steady({}) /\ Removes({})
  BY <1>1, <1>2 DEF Steady, Removes, EventsInv
<1> QED
  BY <1>1, <1>3, SteadyStep

LEMMA CommandStep ==
  ASSUME IndInv, NEW cmd, NEW path, executeCommand(cmd, path)
  PROVE  WatchInv'
<1>1. pc = "command" /\ WatchInv
  BY DEF executeCommand, IndInv
<1>2. CASE ZapCommand(path) /\ UNCHANGED buf
  <2>1. PICK slots \in SUBSET (Subtree(path) \cap DOMAIN watches) : Zap(slots)
    BY <1>2 DEF ZapCommand
  <2>2. slots \in SUBSET DOMAIN cache
    BY DEF Subtree
  <2>3. /\ Removes(slots)
        /\ queue' \in Seq(EventType) /\ Range(queue) \subseteq Range(queue')
        /\ \A e \in Range(queue') : e \in Range(queue) \/ e.mask # "DELETE_SELF"
    BY <1>1, <2>1, <2>2, ZapResult
  <2>4. Steady(slots)
    BY <1>1, <1>2, <2>3 DEF Steady, Evs, WatchInv, EventsInv
  <2> QED
    BY <1>1, <2>3, <2>4, SteadyStep
<1>3. CASE reinitialize
  BY <1>3, ResetStep DEF reinitialize, Reset
<1>4. CASE UNCHANGED <<inotify, cache, buf>>
  BY <1>1, <1>4, NothingStep
<1> QED
  BY <1>2, <1>3, <1>4 DEF executeCommand

LEMMA WatchNext == IndInv /\ [Next]_vars => WatchInv'
<1> SUFFICES ASSUME IndInv, [Next]_vars PROVE WatchInv'
  OBVIOUS
<1>1. WatchInv
  BY DEF IndInv
<1>2. CASE WalkRoot \/ Stat \/ OpenDir \/ ReadDir \/ VisitNext \/ HangingMovedFrom \/ EndOfBuffer \/ Timeout \/ SelectInotify
           \/ SelectKeyboard \/ TimeoutTooEarly \/ Rest \/ UNCHANGED vars
  <2>1. UNCHANGED <<inotify, buf, cache>> /\ (pc' # "done" => pc # "done")
    BY <1>2 DEF WalkRoot, Stat, OpenDir, ReadDir, VisitNext, HangingMovedFrom, AtEvent, EndOfBuffer, Timeout, SelectInotify,
       SelectKeyboard, TimeoutTooEarly, Rest, vars, monitor
  <2> QED
    BY <1>1, <2>1, NothingStep
<1>3. CASE UnknownWatch \/ QueueOverflow
  <2>1. Reset
    BY <1>3 DEF UnknownWatch, QueueOverflow, reinitialize, Reset
  <2> QED
    BY <2>1, ResetStep
<1>4. ASSUME NEW c \in Commands, executeCommand(c[1], c[2]) PROVE WatchInv'
  BY <1>4, CommandStep
<1> QED
  BY <1>2, <1>3, <1>4, UserStep, NotifyStep, ReleaseStep, TraverseStep, PlainEventStep, DeletedSelfStep, MovedStep, ReadStep
     DEF Next, Monitor

LEMMA IndInvInvariant == Spec => []IndInv
<1>1. IndInv /\ [Next]_vars => IndInv'
  BY NotesNext, WatchNext DEF IndInv
<1> QED
  BY <1>1, InitIndInv, PTL DEF Spec

-----------------------------------------------------------------------------

\* traverseTree(), zapSubtree() and the handling of IN_DELETE_SELF never leave a
\* watch without its slot in wlCache, however late the events are and whatever
\* has happened to the trees meanwhile.
THEOREM EveryWatchCached == Spec => []WatchesCached
<1>1. IndInv => WatchesCached
  BY DEF IndInv, WatchInv
<1> QED
  BY <1>1, IndInvInvariant, PTL

\* A slot whose watch has gone with its directory is found: IN_DELETE_SELF, or
\* the overflow that swallowed it, waits in the queue or in the buffer, and
\* processNextInotifyEvent() drops neither without the slot.
THEOREM StaleSlotsFound == Spec => []StaleEntriesFound
<1>1. IndInv => StaleEntriesFound
  BY DEF IndInv, WatchInv
<1> QED
  BY <1>1, IndInvInvariant, PTL

-----------------------------------------------------------------------------
(* Paths.  What a path leads to depends on the tree only: Res gives it for  *)
(* any tree, so that the trees before and after a step can be compared.     *)

LEMMA Induction ==
  ASSUME NEW S \in SUBSET Nat, 0 \in S, \A n \in S : n + 1 \in S
  PROVE  S = Nat
<1> SUFFICES ASSUME Nat \ S # {} PROVE FALSE
  OBVIOUS
<1> DEFINE R == {ss \in Nat \X Nat : ss[1] < ss[2]}
           T == Nat \ S
<1>1. IsWellFoundedOn(R, Nat)
  BY NatLessThanWellFounded DEF OpToRel
<1>2. T # {} /\ T \subseteq Nat
  OBVIOUS
<1>3. PICK m \in T : \A k \in T : ~ (<<k, m>> \in R)
  <2>1. \E m \in T : \A k \in T : ~ (<<k, m>> \in R)
    <3> HIDE DEF R, T
    <3> QED
      BY <1>1, <1>2, WFMin
  <2> QED
    BY <2>1
<1>4. m \in Nat /\ m # 0
  OBVIOUS
<1>5. m - 1 \in Nat /\ (m - 1) + 1 = m
  BY <1>4
<1>6. m - 1 \in T
  BY <1>5
<1>7. <<m - 1, m>> \in R
  BY <1>4, <1>5
<1> QED
  BY <1>3, <1>6, <1>7

ChildIn(a, d, n) == {c \in Inodes : a[c] = <<d, n>>}
Down(a, s, n) == UNION {ChildIn(a, d, n) : d \in s}
Leads(a, path, n, f) == f = [k \in 0 .. n |-> IF k = 0 THEN {Top} ELSE Down(a, f[k - 1], path[k])]
Res(a, path) == (CHOOSE f : Leads(a, path, Len(path), f))[Len(path)]

LEMMA ResolveIsRes ==
  ASSUME NEW path
  PROVE  Resolve(path) = Res(at, path) /\ Resolve(path)' = Res(at', path)
<1>1. Resolve(path) = Res(at, path)
  BY DEF Resolve, Res, Leads, Down, ChildIn, Child
<1>2. Resolve(path)' = Res(at', path)
  BY DEF Resolve, Res, Leads, Down, ChildIn, Child
<1> QED
  BY <1>1, <1>2

LEMMA LeadsExist ==
  ASSUME NEW a, NEW path, NEW n \in Nat
  PROVE  \E f : Leads(a, path, n, f)
<1> DEFINE S == {k \in Nat : \E f : Leads(a, path, k, f)}
<1>1. 0 \in S
  <2>1. Leads(a, path, 0, [k \in 0 .. 0 |-> {Top}])
    BY DEF Leads
  <2> QED
    BY <2>1
<1>2. ASSUME NEW k \in S PROVE k + 1 \in S
  <2>1. PICK f : Leads(a, path, k, f)
    OBVIOUS
  <2> DEFINE g == [i \in 0 .. (k + 1) |-> IF i = k + 1 THEN Down(a, f[k], path[k + 1]) ELSE f[i]]
  <2>2. ASSUME NEW i \in 0 .. (k + 1)
        PROVE  g[i] = IF i = 0 THEN {Top} ELSE Down(a, g[i - 1], path[i])
    <3>1. CASE i = k + 1
      <4>1. g[i] = Down(a, f[k], path[k + 1]) /\ g[i - 1] = f[k] /\ i # 0
        BY <3>1
      <4> QED
        BY <3>1, <4>1
    <3>2. CASE i # k + 1
      <4>1. i \in 0 .. k /\ g[i] = f[i] /\ (i # 0 => g[i - 1] = f[i - 1])
        BY <3>2
      <4> HIDE DEF g
      <4>2. f[i] = IF i = 0 THEN {Top} ELSE Down(a, f[i - 1], path[i])
        BY <2>1, <4>1 DEF Leads
      <4> QED
        BY <4>1, <4>2
    <3> QED
      BY <3>1, <3>2
  <2>3. Leads(a, path, k + 1, g)
    <3>1. g = [i \in 0 .. (k + 1) |-> g[i]]
      OBVIOUS
    <3> HIDE DEF g
    <3> QED
      BY <2>2, <3>1 DEF Leads
  <2> QED
    BY <2>3
<1> HIDE DEF S
<1>3. S = Nat
  <2>1. S \in SUBSET Nat
    BY DEF S
  <2> QED
    BY <1>1, <1>2, <2>1, Induction
<1> QED
  BY <1>3 DEF S

LEMMA ResLeads ==
  ASSUME NEW a, NEW path, Len(path) \in Nat
  PROVE  \E f : Leads(a, path, Len(path), f) /\ Res(a, path) = f[Len(path)]
  BY LeadsExist DEF Res

LEMMA LeadsSteps ==
  \A a, path, f : \A n \in Nat : Leads(a, path, n, f) => \A k \in 1 .. n : f[k] = Down(a, f[k - 1], path[k])
<1> SUFFICES ASSUME NEW a, NEW path, NEW f, NEW n \in Nat, Leads(a, path, n, f), NEW k \in 1 .. n
             PROVE  f[k] = Down(a, f[k - 1], path[k])
  OBVIOUS
<1>0. k \in 0 .. n /\ k # 0
  OBVIOUS
<1> DEFINE F(i) == IF i = 0 THEN {Top} ELSE Down(a, f[i - 1], path[i])
<1>1. f = [i \in 0 .. n |-> F(i)]
  BY DEF Leads
<1>2. F(k) = Down(a, f[k - 1], path[k])
  BY <1>0
<1> HIDE DEF F
<1>3. f[k] = F(k)
  BY <1>0, <1>1
<1> QED
  BY <1>2, <1>3

\* Two paths that begin alike lead the same way as far as that goes.
LEMMA LeadsAgree ==
  ASSUME NEW a, NEW s, NEW t, NEW m \in Nat, NEW n \in Nat, m <= n,
         \A k \in 1 .. m : s[k] = t[k],
         NEW f, Leads(a, s, m, f), NEW g, Leads(a, t, n, g)
  PROVE  f[m] = g[m]
<1>f. \A k \in 1 .. m : f[k] = Down(a, f[k - 1], s[k])
  BY LeadsSteps
<1>g. \A k \in 1 .. n : g[k] = Down(a, g[k - 1], t[k])
  BY LeadsSteps
<1> DEFINE S == {k \in Nat : k <= m => f[k] = g[k]}
<1>1. 0 \in S
  BY DEF Leads
<1>2. ASSUME NEW k \in S PROVE k + 1 \in S
  <2> SUFFICES ASSUME k + 1 <= m PROVE f[k + 1] = g[k + 1]
    OBVIOUS
  <2>1. k \in Nat /\ k + 1 \in 1 .. m /\ k + 1 \in 0 .. m /\ k + 1 \in 0 .. n /\ k <= m /\ (k + 1) - 1 = k
    OBVIOUS
  <2>2. f[k] = g[k] /\ s[k + 1] = t[k + 1]
    BY <2>1
  <2> DEFINE j == k + 1
  <2>a. j \in 1 .. m /\ j \in 1 .. n /\ j - 1 = k
    BY <2>1
  <2> HIDE DEF j, S
  <2>b. f[j] = Down(a, f[j - 1], s[j]) /\ g[j] = Down(a, g[j - 1], t[j])
    BY <1>f, <1>g, <2>a
  <2>3. f[k + 1] = Down(a, f[k], s[k + 1])
    BY <2>a, <2>b DEF j
  <2>4. g[k + 1] = Down(a, g[k], t[k + 1])
    BY <2>a, <2>b DEF j
  <2> QED
    BY <2>2, <2>3, <2>4
<1> HIDE DEF S
<1>3. S = Nat
  <2>1. S \in SUBSET Nat
    BY DEF S
  <2> QED
    BY <1>1, <1>2, <2>1, Induction
<1> QED
  BY <1>3 DEF S

LEMMA ResEmpty ==
  ASSUME NEW a
  PROVE  Res(a, << >>) = {Top}
<1>1. Len(<< >>) = 0
  BY EmptySeq
<1>2. PICK f : Leads(a, << >>, Len(<< >>), f) /\ Res(a, << >>) = f[Len(<< >>)]
  BY <1>1, ResLeads
<1> QED
  BY <1>1, <1>2 DEF Leads

LEMMA ResAppend ==
  ASSUME NEW a, NEW S, NEW q \in Seq(S), NEW n \in S
  PROVE  Res(a, Append(q, n)) = Down(a, Res(a, q), n)
<1> DEFINE m == Len(q)
           t == Append(q, n)
<1>1. m \in Nat /\ Len(t) = m + 1 /\ (\A k \in 1 .. m : t[k] = q[k]) /\ t[m + 1] = n
  BY AppendProperties, LenProperties
<1> HIDE DEF m, t
<1>2. PICK f : Leads(a, q, m, f) /\ Res(a, q) = f[m]
  BY <1>1, ResLeads DEF m
<1>3. PICK g : Leads(a, t, m + 1, g) /\ Res(a, t) = g[m + 1]
  <2>1. Len(t) \in Nat
    BY <1>1
  <2> QED
    BY <1>1, <2>1, ResLeads
<1>4. f[m] = g[m]
  <2>1. m + 1 \in Nat /\ m <= m + 1
    BY <1>1
  <2> QED
    BY <1>1, <1>2, <1>3, <2>1, LeadsAgree
<1>5. g[m + 1] = Down(a, g[m], t[m + 1])
  <2>1. m + 1 \in 0 .. (m + 1) /\ m + 1 # 0 /\ (m + 1) - 1 = m
    BY <1>1
  <2> QED
    BY <1>3, <2>1 DEF Leads
<1> QED
  BY <1>1, <1>2, <1>3, <1>4, <1>5 DEF t

\* A path is empty or one longer than another.
LEMMA LastName ==
  ASSUME NEW S, NEW p \in Seq(S), p # << >>
  PROVE  \E q \in Seq(S), n \in S : p = Append(q, n) /\ Len(p) = Len(q) + 1
<1> DEFINE q == SubSeq(p, 1, Len(p) - 1)
           n == p[Len(p)]
<1>1. Len(p) \in Nat \ {0} /\ DOMAIN p = 1 .. Len(p) /\ \A k \in 1 .. Len(p) : p[k] \in S
  BY LenProperties, EmptySeq, ElementOfSeq
<1>2. Len(p) - 1 \in 0 .. Len(p) /\ n \in S
  BY <1>1
<1>3. q \in Seq(S) /\ Len(q) = Len(p) - 1 /\ \A k \in 1 .. (Len(p) - 1) : q[k] = p[k]
  <2> DEFINE l == Len(p) - 1
  <2>1. l \in Nat /\ 1 \in Int /\ l \in Int /\ \A k \in 1 .. l : p[k] \in S
    BY <1>1
  <2> HIDE DEF l
  <2>2. /\ SubSeq(p, 1, l) \in Seq(S) /\ Len(SubSeq(p, 1, l)) = IF 1 <= l THEN l - 1 + 1 ELSE 0
        /\ \A k \in 1 .. (l - 1 + 1) : SubSeq(p, 1, l)[k] = p[1 + k - 1]
    BY <2>1, SubSeqProperties
  <2>3. (IF 1 <= l THEN l - 1 + 1 ELSE 0) = l /\ l - 1 + 1 = l /\ \A k \in 1 .. l : 1 + k - 1 = k
    BY <2>1
  <2>4. SubSeq(p, 1, l) \in Seq(S) /\ Len(SubSeq(p, 1, l)) = l /\ \A k \in 1 .. l : SubSeq(p, 1, l)[k] = p[k]
    BY <2>2, <2>3
  <2> QED
    BY <2>4 DEF l
<1> HIDE DEF q, n
<1>4. /\ Append(q, n) \in Seq(S) /\ Len(Append(q, n)) = Len(q) + 1
      /\ \A k \in 1 .. Len(q) : Append(q, n)[k] = q[k]
      /\ Append(q, n)[Len(q) + 1] = n
  BY <1>2, <1>3, AppendProperties
<1>5. Len(Append(q, n)) = Len(p) /\ Len(p) = Len(q) + 1
  BY <1>1, <1>3, <1>4
<1>6. ASSUME NEW k \in 1 .. Len(p) PROVE Append(q, n)[k] = p[k]
  <2>1. CASE k = Len(p)
    BY <1>4, <1>5, <2>1 DEF n
  <2>2. CASE k # Len(p)
    <3>1. k \in 1 .. (Len(p) - 1)
      <4> DEFINE l == Len(p)
      <4>1. l \in Nat /\ k \in 1 .. l /\ k # l
        BY <1>1, <2>2
      <4> HIDE DEF l
      <4>2. k \in 1 .. (l - 1)
        BY <4>1
      <4> QED
        BY <4>2 DEF l
    <3>2. k \in 1 .. Len(q)
      BY <1>3, <3>1
    <3> QED
      BY <1>3, <1>4, <3>1, <3>2
  <2> QED
    BY <2>1, <2>2
<1>7. Append(q, n) = p
  BY <1>4, <1>5, <1>6, SeqEqual
<1> QED
  BY <1>2, <1>3, <1>5, <1>7

LEMMA PathsAreSeqs ==
  ASSUME NEW p \in Seq(AllNames)
  PROVE  Len(p) \in Nat
  BY LenProperties

\* A path leads to Top or into the tree.
LEMMA ResInodes ==
  ASSUME NEW a, NEW p \in Seq(AllNames)
  PROVE  IF p = << >> THEN Res(a, p) = {Top} ELSE Res(a, p) \subseteq Inodes
<1>1. CASE p = << >>
  BY <1>1, ResEmpty
<1>2. CASE p # << >>
  <2>1. PICK q \in Seq(AllNames), n \in AllNames : p = Append(q, n)
    BY <1>2, LastName
  <2>2. Res(a, p) = Down(a, Res(a, q), n)
    BY <2>1, ResAppend
  <2> QED
    BY <1>2, <2>2 DEF Down, ChildIn
<1> QED
  BY <1>1, <1>2

LEMMA TopApart == Top \notin Inodes /\ "none" \notin Inodes /\ "unused" \notin Inodes
  BY InotifyAssumption DEF Top, Inodes

\* A directory has one path.
LEMMA OnePath ==
  ASSUME NEW a, NEW p \in Seq(AllNames), NEW q \in Seq(AllNames), NEW d, d \in Res(a, p), d \in Res(a, q)
  PROVE  p = q
<1> DEFINE S == {k \in Nat : \A s, t \in Seq(AllNames) : \A c :
                   Len(s) = k /\ c \in Res(a, s) /\ c \in Res(a, t) => s = t}
<1>1. 0 \in S
  <2>1. ASSUME NEW s \in Seq(AllNames), NEW t \in Seq(AllNames), NEW c,
               Len(s) = 0, c \in Res(a, s), c \in Res(a, t)
        PROVE  s = t
    <3>1. s = << >>
      BY <2>1, EmptySeq
    <3>2. c = Top
      BY <2>1, <3>1, ResEmpty
    <3>3. t = << >>
      BY <2>1, <3>2, ResInodes, TopApart
    <3> QED
      BY <3>1, <3>3
  <2> QED
    BY <2>1
<1>2. ASSUME NEW k \in S PROVE k + 1 \in S
  <2>1. ASSUME NEW s \in Seq(AllNames), NEW t \in Seq(AllNames), NEW c,
               Len(s) = k + 1, c \in Res(a, s), c \in Res(a, t)
        PROVE  s = t
    <3>1. s # << >>
      BY <2>1, EmptySeq
    <3>2. PICK u \in Seq(AllNames), m \in AllNames : s = Append(u, m) /\ Len(s) = Len(u) + 1
      BY <3>1, LastName
    <3>3. c \in Inodes
      BY <2>1, <3>1, ResInodes
    <3>4. t # << >>
      BY <2>1, <3>3, ResInodes, TopApart
    <3>5. PICK v \in Seq(AllNames), n \in AllNames : t = Append(v, n) /\ Len(t) = Len(v) + 1
      BY <3>4, LastName
    <3>6. PICK e \in Res(a, u) : a[c] = <<e, m>>
      <4>1. c \in Down(a, Res(a, u), m)
        BY <2>1, <3>2, ResAppend
      <4> QED
        BY <4>1 DEF Down, ChildIn
    <3>7. PICK g \in Res(a, v) : a[c] = <<g, n>>
      <4>1. c \in Down(a, Res(a, v), n)
        BY <2>1, <3>5, ResAppend
      <4> QED
        BY <4>1 DEF Down, ChildIn
    <3>8. e = g /\ m = n
      BY <3>6, <3>7
    <3>9. Len(u) = k
      BY <2>1, <3>2, PathsAreSeqs
    <3>10. u = v
      BY <3>6, <3>7, <3>8, <3>9
    <3> QED
      BY <3>2, <3>5, <3>8, <3>10
  <2> QED
    BY <2>1
<1> HIDE DEF S
<1>3. S = Nat
  <2>1. S \in SUBSET Nat
    BY DEF S
  <2> QED
    BY <1>1, <1>2, <2>1, Induction
<1>4. Len(p) \in S
  BY <1>3, PathsAreSeqs
<1> QED
  BY <1>4 DEF S

\* A place holds one directory, so a path leads to one.
OnePlace(a) == \A c, d \in Inodes : a[c] = a[d] /\ a[c] \notin {Nowhere, Unused} => c = d

LEMMA OneDir ==
  ASSUME NEW a, OnePlace(a), NEW p \in Seq(AllNames), NEW c, NEW d, c \in Res(a, p), d \in Res(a, p)
  PROVE  c = d
<1> DEFINE S == {k \in Nat : \A s \in Seq(AllNames) : \A x, y :
                   Len(s) = k /\ x \in Res(a, s) /\ y \in Res(a, s) => x = y}
<1>1. 0 \in S
  <2>1. ASSUME NEW s \in Seq(AllNames), Len(s) = 0 PROVE Res(a, s) = {Top}
    <3>1. s = << >>
      BY <2>1, EmptySeq
    <3> QED
      BY <3>1, ResEmpty
  <2> QED
    BY <2>1
<1>2. ASSUME NEW k \in S PROVE k + 1 \in S
  <2>1. ASSUME NEW s \in Seq(AllNames), NEW x, NEW y, Len(s) = k + 1, x \in Res(a, s), y \in Res(a, s)
        PROVE  x = y
    <3>1. s # << >>
      BY <2>1, EmptySeq
    <3>2. PICK u \in Seq(AllNames), m \in AllNames : s = Append(u, m) /\ Len(s) = Len(u) + 1
      BY <3>1, LastName
    <3>3. Res(a, s) = Down(a, Res(a, u), m)
      BY <3>2, ResAppend
    <3>4. PICK e \in Res(a, u) : x \in Inodes /\ a[x] = <<e, m>>
      BY <2>1, <3>3 DEF Down, ChildIn
    <3>5. PICK g \in Res(a, u) : y \in Inodes /\ a[y] = <<g, m>>
      BY <2>1, <3>3 DEF Down, ChildIn
    <3>6. Len(u) = k
      BY <2>1, <3>2, PathsAreSeqs
    <3>7. e = g
      BY <3>4, <3>5, <3>6
    <3>8. e \in Inodes \cup {Top}
      BY <3>4, ResInodes
    <3>9. e # "none" /\ e # "unused"
      BY <3>8, TopApart DEF Top
    <3> QED
      BY <3>4, <3>5, <3>7, <3>9 DEF OnePlace, Nowhere, Unused
  <2> QED
    BY <2>1
<1> HIDE DEF S
<1>3. S = Nat
  <2>1. S \in SUBSET Nat
    BY DEF S
  <2> QED
    BY <1>1, <1>2, <2>1, Induction
<1>4. Len(p) \in S
  BY <1>3, PathsAreSeqs
<1> QED
  BY <1>4 DEF S

\* A tree in which directories have been added has all the old paths.
Grown(a, b) == \A c \in Inodes : a[c] # Unused => b[c] = a[c]

LEMMA ResGrows ==
  ASSUME NEW a, NEW b, Grown(a, b), NEW p \in Seq(AllNames)
  PROVE  Res(a, p) \subseteq Res(b, p)
<1> DEFINE S == {k \in Nat : \A s \in Seq(AllNames) : Len(s) = k => Res(a, s) \subseteq Res(b, s)}
<1>1. 0 \in S
  <2>1. ASSUME NEW s \in Seq(AllNames), Len(s) = 0 PROVE Res(a, s) \subseteq Res(b, s)
    <3>1. s = << >>
      BY <2>1, EmptySeq
    <3> QED
      BY <3>1, ResEmpty
  <2> QED
    BY <2>1
<1>2. ASSUME NEW k \in S PROVE k + 1 \in S
  <2>1. ASSUME NEW s \in Seq(AllNames), NEW x, Len(s) = k + 1, x \in Res(a, s)
        PROVE  x \in Res(b, s)
    <3>1. s # << >>
      BY <2>1, EmptySeq
    <3>2. PICK u \in Seq(AllNames), m \in AllNames : s = Append(u, m) /\ Len(s) = Len(u) + 1
      BY <3>1, LastName
    <3>3. Res(a, s) = Down(a, Res(a, u), m) /\ Res(b, s) = Down(b, Res(b, u), m)
      BY <3>2, ResAppend
    <3>4. PICK e \in Res(a, u) : x \in Inodes /\ a[x] = <<e, m>>
      BY <2>1, <3>3 DEF Down, ChildIn
    <3>5. e # "unused"
      BY <3>4, ResInodes, TopApart DEF Top
    <3>6. b[x] = <<e, m>>
      BY <3>4, <3>5 DEF Grown, Unused
    <3>7. Len(u) = k
      BY <2>1, <3>2, PathsAreSeqs
    <3>8. e \in Res(b, u)
      BY <3>4, <3>7
    <3> QED
      BY <3>3, <3>4, <3>6, <3>8 DEF Down, ChildIn
  <2> QED
    BY <2>1
<1> HIDE DEF S
<1>3. S = Nat
  <2>1. S \in SUBSET Nat
    BY DEF S
  <2> QED
    BY <1>1, <1>2, <2>1, Induction
<1>4. Len(p) \in S
  BY <1>3, PathsAreSeqs
<1> QED
  BY <1>4 DEF S

-----------------------------------------------------------------------------
(* The cache and the tree. *)

\* Where the buffer is empty and nftw() does not run.
PcInv ==
    /\ pc \in {"select", "read", "command"} => buf = << >>
    /\ pc = "command" => ~ Walking

\* Since the cache was built directories have only been created.
Fresh == ~ moved /\ pc # "done"

OnlyCreated ==
    /\ dying = {}
    /\ \A u \in Users : \A e \in Range(notes[u]) : e.mask = "CREATE"
    /\ \A e \in Evs : e.mask \in {"CREATE", "Q_OVERFLOW"}

\* What nftw() goes by has been seen in the tree and is still there.
FrameType == [path : Seq(AllNames) \ {<< >>}, stage : {"stat", "open", "watch", "list", "kids"},
              dir : Places, kids : SUBSET AllNames]
FrameOK(f) ==
    /\ f.path[1] \in roots
    /\ f.stage # "stat" => Res(at, f.path) # {}
    /\ f.stage \in {"watch", "list", "kids"} => f.dir \in Res(at, f.path)
FramesOK == walk \in Seq(FrameType) /\ \A f \in Range(walk) : FrameOK(f)

SlotOK(w) ==
    /\ cache[w] \in Seq(AllNames) \ {<< >>} /\ cache[w][1] \in roots
    /\ w \in DOMAIN watches /\ watches[w].dir \in Res(at, cache[w])
SlotsOK == \A w \in DOMAIN cache : SlotOK(w)

\* Who will find a directory that has no watch yet: nftw(), which has its path
\* or will list its parent, or the event of its creation.
Visits(f, c) == f.stage \in {"stat", "open", "watch"} /\ c \in Res(at, f.path)
Lists(f, d, n) == f.dir = d /\ (f.stage = "list" \/ (f.stage = "kids" /\ n \in f.kids))
Visiting(c) == \E f \in Range(walk) : Visits(f, c)
Listing(d, n) == \E f \in Range(walk) : Lists(f, d, n)
Announced(d, n) == \E u \in Users : \E e \in Range(notes[u]) : e.mask = "CREATE" /\ e.dir = d /\ e.name = n
Told(w, n) == \E e \in Evs : e.mask = "CREATE" /\ e.wd = w /\ e.name = n
Flooded == \E e \in Evs : e.mask = "Q_OVERFLOW"

RootsCovered ==
    \A r \in roots, c \in Inodes :
        at[c] = <<Top, r>> => WdOf(c) # {} \/ r \in todo \/ Visiting(c) \/ Flooded
ChildrenCovered ==
    \A w \in DOMAIN watches, c \in Inodes :
        at[c][1] = watches[w].dir =>
            \/ WdOf(c) # {} \/ Visiting(c) \/ Listing(watches[w].dir, at[c][2])
            \/ Announced(watches[w].dir, at[c][2]) \/ Told(w, at[c][2]) \/ Flooded

Synced == OnlyCreated /\ FramesOK /\ SlotsOK /\ RootsCovered /\ ChildrenCovered

RootInv == roots \subseteq Roots /\ todo \subseteq roots

SyncInv == OnePlace(at) /\ RootInv /\ PcInv /\ (Fresh => Synced)

-----------------------------------------------------------------------------
(* When everything has been processed. *)

LEMMA FirstName ==
  ASSUME NEW S, NEW q \in Seq(S), NEW n \in S
  PROVE  /\ Append(q, n) \in Seq(S) /\ Append(q, n) # << >>
         /\ Append(q, n)[1] = IF q = << >> THEN n ELSE q[1]
<1>1. /\ Append(q, n) \in Seq(S) /\ Len(Append(q, n)) = Len(q) + 1
      /\ \A k \in 1 .. Len(q) : Append(q, n)[k] = q[k]
      /\ Append(q, n)[Len(q) + 1] = n
  BY AppendProperties
<1>2. Len(q) \in Nat /\ (q = << >> => Len(q) = 0) /\ (q # << >> => Len(q) # 0)
  BY LenProperties, EmptySeq
<1>3. Append(q, n) # << >>
  BY <1>1, <1>2, EmptySeq
<1>4. CASE q = << >>
  BY <1>1, <1>2, <1>3, <1>4
<1>5. CASE q # << >>
  <2>1. 1 \in 1 .. Len(q)
    BY <1>2, <1>5
  <2> QED
    BY <1>1, <1>3, <1>5, <2>1
<1> QED
  BY <1>4, <1>5

LEMMA PathType ==
  ASSUME NEW p \in Paths
  PROVE  p \in Seq(AllNames) /\ p # << >>
<1>1. PICK r \in Roots, s \in Below : p = <<r>> \o s
  BY DEF Paths
<1>2. Cardinality(Inodes) \in Nat
  BY InotifyAssumption, FS_CardinalityType DEF Inodes
<1>3. PICK k \in 0 .. Cardinality(Inodes) - 1 : s \in [1 .. k -> Names]
  BY DEF Below
<1>4. k \in Nat
  BY <1>2
<1>5. s \in Seq(AllNames)
  <2>1. s \in [1 .. k -> AllNames]
    BY <1>3 DEF AllNames
  <2> QED
    BY <1>4, <2>1, FunctionSeq
<1>6. <<r>> \in Seq(AllNames) /\ Len(<<r>>) = 1
  <2>1. r \in AllNames
    BY DEF AllNames
  <2> QED
    BY <2>1
<1>7. p \in Seq(AllNames) /\ Len(p) # 0
  <2> DEFINE t == <<r>>
  <2>1. t \in Seq(AllNames) /\ Len(t) = 1
    BY <1>6
  <2> HIDE DEF t
  <2>2. t \o s \in Seq(AllNames) /\ Len(t \o s) = Len(t) + Len(s)
    BY <1>5, <2>1, ConcatProperties
  <2>3. Len(s) \in Nat
    BY <1>5, LenProperties
  <2>4. Len(t \o s) # 0
    BY <2>1, <2>2, <2>3
  <2> QED
    BY <1>1, <2>2, <2>4 DEF t
<1> QED
  BY <1>7, EmptySeq

\* Every root and every directory in a watched one has a watch.
Settled ==
    /\ \A r \in roots, c \in Inodes : at[c] = <<Top, r>> => WdOf(c) # {}
    /\ \A w \in DOMAIN watches, c \in Inodes : at[c][1] = watches[w].dir => WdOf(c) # {}

LEMMA AllWatched ==
  ASSUME Settled, NEW p \in Seq(AllNames), p # << >>, p[1] \in roots, NEW d, d \in Res(at, p)
  PROVE  WdOf(d) # {}
<1> DEFINE S == {k \in Nat : \A s \in Seq(AllNames) : \A c :
                   Len(s) = k /\ s # << >> /\ s[1] \in roots /\ c \in Res(at, s) => WdOf(c) # {}}
<1>1. 0 \in S
  BY EmptySeq
<1>2. ASSUME NEW k \in S PROVE k + 1 \in S
  <2>1. ASSUME NEW s \in Seq(AllNames), NEW c, Len(s) = k + 1, s # << >>, s[1] \in roots, c \in Res(at, s)
        PROVE  WdOf(c) # {}
    <3>1. PICK u \in Seq(AllNames), m \in AllNames : s = Append(u, m) /\ Len(s) = Len(u) + 1
      BY <2>1, LastName
    <3>2. Res(at, s) = Down(at, Res(at, u), m)
      BY <3>1, ResAppend
    <3>3. PICK e \in Res(at, u) : c \in Inodes /\ at[c] = <<e, m>>
      BY <2>1, <3>2 DEF Down, ChildIn
    <3>4. CASE u = << >>
      <4>1. e = Top /\ m \in roots
        BY <2>1, <3>1, <3>3, <3>4, ResEmpty, FirstName
      <4> QED
        BY <3>3, <4>1 DEF Settled
    <3>5. CASE u # << >>
      <4>1. u[1] \in roots /\ Len(u) = k
        BY <2>1, <3>1, <3>5, FirstName, PathsAreSeqs
      <4>2. WdOf(e) # {}
        BY <3>3, <3>5, <4>1
      <4>3. PICK w \in DOMAIN watches : watches[w].dir = e
        BY <4>2 DEF WdOf
      <4> QED
        BY <3>3, <4>3 DEF Settled
    <3> QED
      BY <3>4, <3>5
  <2> QED
    BY <2>1
<1> HIDE DEF S
<1>3. S = Nat
  <2>1. S \in SUBSET Nat
    BY DEF S
  <2> QED
    BY <1>1, <1>2, <2>1, Induction
<1>4. Len(p) \in S
  BY <1>3, PathsAreSeqs
<1> QED
  BY <1>4 DEF S

LEMMA SyncedWhenQuiet == IndInv /\ SyncInv => InSyncUnlessMoved
<1> SUFFICES ASSUME IndInv, SyncInv, Quiet, ~ moved PROVE InSync
  BY DEF InSyncUnlessMoved
<1>1. Synced /\ pc = "select" /\ walk = << >> /\ todo = {} /\ queue = << >> /\ buf = << >>
  BY DEF Quiet, SyncInv, Fresh, PcInv, Walking
<1>2. Evs = {} /\ Range(walk) = {} /\ \A u \in Users : Range(notes[u]) = {}
  BY <1>1, RangeEmpty DEF Evs, Quiet
<1>3. Settled
  BY <1>1, <1>2 DEF Synced, RootsCovered, ChildrenCovered, Settled, Visiting, Listing, Announced, Told, Flooded
<1>4. ASSUME NEW p \in Paths, p[1] \in roots, Resolve(p) # {}
      PROVE  \E w \in DOMAIN cache : cache[w] = p
  <2>1. p \in Seq(AllNames) /\ p # << >>
    BY PathType
  <2>2. PICK d : d \in Res(at, p)
    BY <1>4, ResolveIsRes
  <2>3. WdOf(d) # {}
    BY <1>3, <1>4, <2>1, <2>2, AllWatched
  <2>4. PICK w \in DOMAIN watches : watches[w].dir = d
    BY <2>3 DEF WdOf
  <2>5. w \in DOMAIN cache
    BY <1>1 DEF IndInv, WatchInv, WatchesCached
  <2>6. cache[w] \in Seq(AllNames) /\ d \in Res(at, cache[w])
    BY <1>1, <2>4, <2>5 DEF Synced, SlotsOK, SlotOK
  <2>7. cache[w] = p
    BY <2>1, <2>2, <2>6, OnePath
  <2> QED
    BY <2>5, <2>7
<1>5. ASSUME NEW w \in DOMAIN cache
      PROVE  cache[w][1] \in roots /\ w \in DOMAIN watches /\ watches[w].dir \in Resolve(cache[w])
  BY <1>1, ResolveIsRes DEF Synced, SlotsOK, SlotOK
<1> QED
  BY <1>4, <1>5 DEF InSync

-----------------------------------------------------------------------------
(* The steps that keep the cache in step with the tree. *)

LEMMA NoRange == \A s : s = << >> => Range(s) = {}
  BY RangeEmpty

\* A new inotify instance: everything is still to be walked.
LEMMA RenewedSynced ==
  ASSUME reinitialize, UNCHANGED <<fs, roots>>, walk' = << >>, ~ moved'
  PROVE  Synced'
<1>1. /\ watches' = None /\ queue' = << >> /\ cache' = None /\ todo' = roots /\ buf' = << >>
      /\ dying = {} /\ \A u \in Users : notes[u] = << >>
  BY DEF reinitialize
<1>2. /\ UNCHANGED <<at, notes, dying, roots>>
  BY DEF fs
<1>3. Evs' = {} /\ Range(walk') = {} /\ DOMAIN watches' = {} /\ DOMAIN cache' = {}
  BY <1>1, RangeEmpty DEF Evs, None
<1>4. \A u \in Users : Range(notes'[u]) = {}
  BY <1>1, <1>2, NoRange
<1>5. OnlyCreated'
  BY <1>1, <1>2, <1>3, <1>4 DEF OnlyCreated
<1>6. FramesOK'
  <2>1. << >> \in Seq(FrameType)
    BY EmptySeq
  <2> QED
    BY <1>3, <2>1 DEF FramesOK
<1>7. SlotsOK' /\ ChildrenCovered'
  BY <1>3 DEF SlotsOK, ChildrenCovered
<1>8. RootsCovered'
  BY <1>1, <1>2 DEF RootsCovered
<1> QED
  BY <1>5, <1>6, <1>7, <1>8 DEF Synced

\* Steps that touch none of it.
LEMMA SameSynced ==
  ASSUME Synced, UNCHANGED <<at, notes, dying, watches, cache, roots, walk, todo>>, Evs' = Evs
  PROVE  Synced'
<1>1. OnlyCreated' /\ FramesOK' /\ SlotsOK'
  BY DEF Synced, OnlyCreated, FramesOK, FrameOK, SlotsOK, SlotOK
<1>2. \A c : (WdOf(c)' = WdOf(c)) /\ (Visiting(c)' <=> Visiting(c))
  BY DEF WdOf, Visiting, Visits
<1>3. \A d, n : (Listing(d, n)' <=> Listing(d, n)) /\ (Announced(d, n)' <=> Announced(d, n)) /\ (Told(d, n)' <=> Told(d, n))
  BY DEF Listing, Lists, Announced, Told
<1>4. Flooded' <=> Flooded
  BY DEF Flooded
<1>5. RootsCovered' /\ ChildrenCovered'
  BY <1>2, <1>3, <1>4 DEF Synced, RootsCovered, ChildrenCovered
<1> QED
  BY <1>1, <1>5 DEF Synced

\* Steps of nftw(): what it was about to visit or to list it still is, or it
\* has it in the path of a frame now.
LEMMA WalkSynced ==
  ASSUME Synced, UNCHANGED <<fs, inotify, cache, roots, buf>>, FramesOK',
         \A c : Visiting(c) => Visiting(c)',
         \A c \in Inodes : Listing(at[c][1], at[c][2]) => Listing(at[c][1], at[c][2])' \/ Visiting(c)',
         \A r \in todo : r \in todo' \/ \A c \in Inodes : at[c] = <<Top, r>> => Visiting(c)'
  PROVE  Synced'
<1>1. UNCHANGED <<at, notes, dying, watches, queue, cache, roots, buf>>
  BY DEF fs, inotify
<1>2. Evs' = Evs
  BY <1>1 DEF Evs
<1>3. OnlyCreated' /\ SlotsOK'
  BY <1>1, <1>2 DEF Synced, OnlyCreated, SlotsOK, SlotOK
<1>4. \A c : WdOf(c)' = WdOf(c)
  BY <1>1 DEF WdOf
<1>5. \A d, n : (Announced(d, n)' <=> Announced(d, n)) /\ (Told(d, n)' <=> Told(d, n))
  BY <1>1, <1>2 DEF Announced, Told
<1>6. Flooded' <=> Flooded
  BY <1>2 DEF Flooded
<1>7. RootsCovered'
  <2> SUFFICES ASSUME NEW r \in roots, NEW c \in Inodes, at[c] = <<Top, r>>
               PROVE  WdOf(c)' # {} \/ r \in todo' \/ Visiting(c)' \/ Flooded'
    BY <1>1 DEF RootsCovered
  <2>1. WdOf(c) # {} \/ r \in todo \/ Visiting(c) \/ Flooded
    BY DEF Synced, RootsCovered
  <2> QED
    BY <1>4, <1>6, <2>1
<1>8. ChildrenCovered'
  <2> SUFFICES ASSUME NEW w \in DOMAIN watches, NEW c \in Inodes, at[c][1] = watches[w].dir
               PROVE  \/ WdOf(c)' # {} \/ Visiting(c)' \/ Listing(watches[w].dir, at[c][2])'
                      \/ Announced(watches[w].dir, at[c][2])' \/ Told(w, at[c][2])' \/ Flooded'
    BY <1>1 DEF ChildrenCovered
  <2>1. \/ WdOf(c) # {} \/ Visiting(c) \/ Listing(watches[w].dir, at[c][2])
        \/ Announced(watches[w].dir, at[c][2]) \/ Told(w, at[c][2]) \/ Flooded
    BY DEF Synced, ChildrenCovered
  <2>2. Listing(at[c][1], at[c][2]) => Listing(watches[w].dir, at[c][2])' \/ Visiting(c)'
    BY <1>1
  <2>3. /\ Announced(watches[w].dir, at[c][2]) => Announced(watches[w].dir, at[c][2])'
        /\ Told(w, at[c][2]) => Told(w, at[c][2])'
    BY <1>1, <1>5
  <2> QED
    BY <1>4, <1>6, <2>1, <2>2, <2>3
<1> QED
  BY <1>3, <1>7, <1>8 DEF Synced

\* The innermost directory of nftw() and the others.
LEMMA WalkTop ==
  ASSUME walk \in Seq(FrameType), walk # << >>
  PROVE  Outer \in Seq(FrameType) /\ Inner \in FrameType /\ Range(walk) = Range(Outer) \cup {Inner}
<1> DEFINE n == Len(walk) - 1
<1>1. Len(walk) \in Nat \ {0} /\ DOMAIN walk = 1 .. Len(walk)
  BY LenProperties, EmptySeq
<1>2. n \in 0 .. Len(walk) /\ Len(walk) \in 1 .. Len(walk)
  BY <1>1
<1>3. SubSeq(walk, 1, n) \in Seq(FrameType) /\ Range(SubSeq(walk, 1, n)) = {walk[i] : i \in 1 .. n}
  <2> HIDE DEF n
  <2> QED
    BY <1>2, Cut
<1>4. Inner \in FrameType
  BY <1>2, ElementOfSeq DEF Inner
<1>5. 1 .. Len(walk) = (1 .. n) \cup {Len(walk)}
  BY <1>1
<1>6. Range(walk) = {walk[i] : i \in 1 .. n} \cup {walk[Len(walk)]}
  <2> HIDE DEF n
  <2> QED
    BY <1>1, <1>5 DEF Range
<1> QED
  BY <1>3, <1>4, <1>6 DEF Outer, Inner

LEMMA FrameFields ==
  ASSUME NEW path \in Seq(AllNames), path # << >>
  PROVE  /\ Frame(path) \in FrameType /\ Frame(path).path = path /\ Frame(path).stage = "stat"
  BY DEF Frame, FrameType, NoDir, Places

LEMMA ResRoot ==
  ASSUME NEW a, NEW r \in AllNames
  PROVE  Res(a, <<r>>) = Down(a, {Top}, r)
<1> DEFINE e == << >>
<1>1. Append(e, r) = <<r>> /\ Res(a, e) = {Top}
  BY EmptySeq, ResEmpty
<1>2. e \in Seq(AllNames)
  BY EmptySeq
<1> HIDE DEF e
<1>3. Res(a, Append(e, r)) = Down(a, Res(a, e), r)
  BY <1>2, ResAppend
<1> QED
  BY <1>1, <1>3

LEMMA WalkRootSynced ==
  ASSUME Synced, RootInv, WalkRoot
  PROVE  Synced'
<1>1. UNCHANGED <<fs, inotify, cache, roots, buf>> /\ walk = << >>
  BY DEF WalkRoot
<1>a. UNCHANGED <<at, roots>>
  BY <1>1 DEF fs
<1>2. PICK r \in todo : walk' = << Frame(<<r>>) >> /\ todo' = todo \ {r}
  BY DEF WalkRoot
<1>3. r \in roots /\ r \in AllNames
  BY DEF RootInv, AllNames
<1>4. <<r>> \in Seq(AllNames) /\ <<r>> # << >> /\ <<r>>[1] = r
  BY <1>3
<1>5. Frame(<<r>>) \in FrameType /\ Frame(<<r>>).path = <<r>> /\ Frame(<<r>>).stage = "stat"
  BY <1>4, FrameFields
<1>6. walk' \in Seq(FrameType) /\ Range(walk') = {Frame(<<r>>)}
  <2> DEFINE f == Frame(<<r>>)
  <2> HIDE DEF f
  <2>1. << f >> \in Seq(FrameType) /\ DOMAIN << f >> = {1} /\ << f >>[1] = f
    BY <1>5 DEF f
  <2> QED
    BY <1>2, <2>1 DEF Range, f
<1>7. FramesOK'
  <2>1. FrameOK(Frame(<<r>>))'
    BY <1>3, <1>4, <1>5, <1>a DEF FrameOK
  <2> QED
    BY <1>6, <2>1 DEF FramesOK
<1>8. \A c \in Inodes : at[c] = <<Top, r>> => Visiting(c)'
  <2> SUFFICES ASSUME NEW c \in Inodes, at[c] = <<Top, r>> PROVE Visiting(c)'
    OBVIOUS
  <2>2. Res(at, <<r>>) = Down(at, {Top}, r)
    BY <1>3, ResRoot
  <2>3. c \in Res(at, <<r>>)
    BY <2>2 DEF Down, ChildIn
  <2> QED
    BY <1>5, <1>6, <1>a, <2>3 DEF Visiting, Visits
<1>9. Range(walk) = {}
  BY <1>1, RangeEmpty
<1>10. (\A c : ~ Visiting(c)) /\ (\A d, n : ~ Listing(d, n))
  BY <1>9 DEF Visiting, Listing
<1>11. \A x \in todo : x \in todo' \/ \A c \in Inodes : at[c] = <<Top, x>> => Visiting(c)'
  BY <1>2, <1>8
<1> QED
  BY <1>1, <1>7, <1>10, <1>11, WalkSynced

\* A step of nftw() puts the frames of a set in the place of the innermost.
LEMMA StepSynced ==
  ASSUME Synced, walk # << >>, UNCHANGED <<fs, inotify, cache, roots, buf, todo>>,
         walk' \in Seq(FrameType), NEW G, Range(walk') = Range(Outer) \cup G, \A g \in G : FrameOK(g),
         \A c : Visits(Inner, c) => \E g \in G : Visits(g, c),
         \A c \in Inodes : Lists(Inner, at[c][1], at[c][2]) => \E g \in G : Lists(g, at[c][1], at[c][2]) \/ Visits(g, c)
  PROVE  Synced'
<1>1. UNCHANGED <<at, roots>>
  BY DEF fs
<1>2. walk \in Seq(FrameType) /\ \A f \in Range(walk) : FrameOK(f)
  BY DEF Synced, FramesOK
<1>3. Range(walk) = Range(Outer) \cup {Inner}
  BY <1>2, WalkTop
<1>4. /\ \A f : FrameOK(f)' <=> FrameOK(f)
      /\ \A f, c : Visits(f, c)' <=> Visits(f, c)
      /\ \A f, d, n : Lists(f, d, n)' <=> Lists(f, d, n)
  BY <1>1 DEF FrameOK, Visits, Lists
<1>5. FramesOK'
  BY <1>2, <1>3, <1>4 DEF FramesOK
<1>6. \A c : Visiting(c) => Visiting(c)'
  BY <1>3, <1>4 DEF Visiting
<1>7. \A c \in Inodes : Listing(at[c][1], at[c][2]) => Listing(at[c][1], at[c][2])' \/ Visiting(c)'
  <2> SUFFICES ASSUME NEW c \in Inodes, Listing(at[c][1], at[c][2])
               PROVE  Listing(at[c][1], at[c][2])' \/ Visiting(c)'
    OBVIOUS
  <2> DEFINE d == at[c][1]
             n == at[c][2]
  <2>1. PICK f \in Range(walk) : Lists(f, d, n)
    BY DEF Listing
  <2>2. \E f1 \in Range(walk') : Lists(f1, d, n) \/ Visits(f1, c)
    <3>1. CASE f \in Range(Outer)
      BY <2>1, <3>1
    <3>2. CASE f = Inner
      BY <2>1, <3>2
    <3> QED
      BY <1>3, <3>1, <3>2
  <2>3. at' = at
    BY <1>1
  <2> QED
    BY <1>4, <2>2, <2>3 DEF Listing, Visiting
<1> QED
  BY <1>5, <1>6, <1>7, WalkSynced

LEMMA InnerFacts ==
  ASSUME Synced, walk # << >>
  PROVE  /\ Outer \in Seq(FrameType) /\ Inner \in FrameType /\ FrameOK(Inner)
         /\ \A f \in Range(Outer) : FrameOK(f)
<1>1. Outer \in Seq(FrameType) /\ Inner \in FrameType /\ Range(walk) = Range(Outer) \cup {Inner}
  BY WalkTop DEF Synced, FramesOK
<1> QED
  BY <1>1 DEF Synced, FramesOK

\* The innermost frame is replaced by another one.
LEMMA RestageSynced ==
  ASSUME Synced, walk # << >>, UNCHANGED <<fs, inotify, cache, roots, buf, todo>>,
         NEW g \in FrameType, Restage(g), FrameOK(g),
         \A c : Visits(Inner, c) => Visits(g, c),
         \A c \in Inodes : Lists(Inner, at[c][1], at[c][2]) => Lists(g, at[c][1], at[c][2])
  PROVE  Synced'
<1>1. walk' \in Seq(FrameType) /\ Range(walk') = Range(Outer) \cup {g}
  BY InnerFacts, RangeAppend DEF Restage
<1> QED
  BY <1>1, StepSynced

\* The innermost frame is left.
LEMMA LeaveSynced ==
  ASSUME Synced, walk # << >>, UNCHANGED <<fs, inotify, cache, roots, buf, todo>>, walk' = Outer,
         \A c : ~ Visits(Inner, c),
         \A d, n : ~ Lists(Inner, d, n)
  PROVE  Synced'
<1>1. walk' \in Seq(FrameType) /\ Range(walk') = Range(Outer) \cup {}
  BY InnerFacts
<1> QED
  BY <1>1, StepSynced

LEMMA StatSynced ==
  ASSUME Synced, Stat
  PROVE  Synced'
<1>1. walk # << >> /\ UNCHANGED <<fs, inotify, cache, roots, buf, todo>> /\ Inner.stage = "stat"
  BY DEF Stat
<1>2. Inner \in FrameType /\ FrameOK(Inner)
  BY <1>1, InnerFacts
<1>3. \A d, n : ~ Lists(Inner, d, n)
  BY <1>1 DEF Lists
<1>4. CASE Resolve(Inner.path) = {}
  <2>1. walk' = Outer
    BY <1>4 DEF Stat
  <2>2. \A c : ~ Visits(Inner, c)
    BY <1>4, ResolveIsRes DEF Visits
  <2> QED
    BY <1>1, <1>3, <2>1, <2>2, LeaveSynced
<1>5. CASE Resolve(Inner.path) # {}
  <2> DEFINE g == [Inner EXCEPT !.stage = "open"]
  <2>1. Restage(g)
    BY <1>5 DEF Stat
  <2>2. g \in FrameType /\ g.path = Inner.path /\ g.stage = "open"
    BY <1>2 DEF FrameType
  <2> HIDE DEF g
  <2>3. FrameOK(g)
    BY <1>2, <1>5, <2>2, ResolveIsRes DEF FrameOK
  <2>4. \A c : Visits(Inner, c) => Visits(g, c)
    BY <2>2 DEF Visits
  <2> QED
    BY <1>1, <1>3, <2>1, <2>2, <2>3, <2>4, RestageSynced
<1> QED
  BY <1>4, <1>5

LEMMA OpenDirSynced ==
  ASSUME Synced, OpenDir
  PROVE  Synced'
<1>1. walk # << >> /\ UNCHANGED <<fs, inotify, cache, roots, buf, todo>> /\ Inner.stage = "open"
  BY DEF OpenDir
<1>2. Inner \in FrameType /\ FrameOK(Inner)
  BY <1>1, InnerFacts
<1>3. \A d, n : ~ Lists(Inner, d, n)
  BY <1>1 DEF Lists
<1>4. Res(at, Inner.path) # {} /\ Resolve(Inner.path) = Res(at, Inner.path)
  BY <1>1, <1>2, ResolveIsRes DEF FrameOK
<1>5. PICK d \in Res(at, Inner.path) : Restage([Inner EXCEPT !.stage = "watch", !.dir = d])
  BY <1>4 DEF OpenDir
<1>6. d \in Places
  <2>1. Inner.path \in Seq(AllNames) /\ Inner.path # << >>
    BY <1>2 DEF FrameType
  <2> QED
    BY <2>1, ResInodes DEF Places
<1> DEFINE g == [Inner EXCEPT !.stage = "watch", !.dir = d]
<1>7. g \in FrameType /\ g.path = Inner.path /\ g.stage = "watch" /\ g.dir = d
  BY <1>2, <1>6 DEF FrameType
<1>8. Restage(g)
  BY <1>5
<1> HIDE DEF g
<1>9. FrameOK(g)
  BY <1>2, <1>7 DEF FrameOK
<1>10. \A c : Visits(Inner, c) => Visits(g, c)
  BY <1>7 DEF Visits
<1> QED
  BY <1>1, <1>3, <1>7, <1>8, <1>9, <1>10, RestageSynced

LEMMA ReadDirSynced ==
  ASSUME NotesInv, Synced, ReadDir
  PROVE  Synced'
<1>1. walk # << >> /\ UNCHANGED <<fs, inotify, cache, roots, buf, todo>> /\ Inner.stage = "list"
  BY DEF ReadDir
<1>2. Inner \in FrameType /\ FrameOK(Inner)
  BY <1>1, InnerFacts
<1> DEFINE K == NamesIn(Inner.dir)
           g == [Inner EXCEPT !.stage = "kids", !.kids = K]
<1>3. Restage(g)
  BY DEF ReadDir
<1>4. K \in SUBSET AllNames
  BY DEF NamesIn, NotesInv
<1>5. \A c \in Inodes : at[c][1] = Inner.dir => at[c][2] \in K
  BY DEF NamesIn
<1> HIDE DEF K
<1>6. g \in FrameType /\ g.path = Inner.path /\ g.stage = "kids" /\ g.dir = Inner.dir /\ g.kids = K
  BY <1>2, <1>4 DEF FrameType
<1> HIDE DEF g
<1>7. FrameOK(g)
  BY <1>1, <1>2, <1>6 DEF FrameOK
<1>8. \A c : ~ Visits(Inner, c)
  BY <1>1 DEF Visits
<1>9. \A c \in Inodes : Lists(Inner, at[c][1], at[c][2]) => Lists(g, at[c][1], at[c][2])
  BY <1>5, <1>6 DEF Lists
<1> QED
  BY <1>1, <1>3, <1>6, <1>7, <1>8, <1>9, RestageSynced

LEMMA VisitNextSynced ==
  ASSUME NotesInv, Synced, VisitNext
  PROVE  Synced'
<1>1. walk # << >> /\ UNCHANGED <<fs, inotify, cache, roots, buf, todo>> /\ Inner.stage = "kids"
  BY DEF VisitNext
<1>2. Outer \in Seq(FrameType) /\ Inner \in FrameType /\ FrameOK(Inner)
  BY <1>1, InnerFacts
<1>3. \A c : ~ Visits(Inner, c)
  BY <1>1 DEF Visits
<1>4. CASE Inner.kids = {}
  <2>1. walk' = Outer
    BY <1>4 DEF VisitNext
  <2>2. \A d, n : ~ Lists(Inner, d, n)
    BY <1>1, <1>4 DEF Lists
  <2> QED
    BY <1>1, <1>3, <2>1, <2>2, LeaveSynced
<1>5. CASE Inner.kids # {}
  <2>1. PICK n \in Inner.kids : walk' = Outer \o << [Inner EXCEPT !.kids = @ \ {n}], Frame(Append(Inner.path, n)) >>
    BY <1>5 DEF VisitNext
  <2>2. /\ n \in AllNames /\ Inner.path \in Seq(AllNames) /\ Inner.path # << >> /\ Inner.kids \in SUBSET AllNames
        /\ Inner.path[1] \in roots /\ Inner.dir \in Res(at, Inner.path)
    BY <1>1, <1>2 DEF FrameType, FrameOK
  <2> DEFINE f == [Inner EXCEPT !.kids = @ \ {n}]
             g == Frame(Append(Inner.path, n))
  <2>3. /\ f \in FrameType /\ f.path = Inner.path /\ f.stage = "kids" /\ f.dir = Inner.dir
        /\ f.kids = Inner.kids \ {n}
    BY <1>1, <1>2 DEF FrameType
  <2>4. /\ Append(Inner.path, n) \in Seq(AllNames) /\ Append(Inner.path, n) # << >>
        /\ Append(Inner.path, n)[1] = Inner.path[1]
    BY <2>2, FirstName
  <2>5. g \in FrameType /\ g.path = Append(Inner.path, n) /\ g.stage = "stat"
    BY <2>4, FrameFields
  <2>6. walk' = Outer \o << f, g >>
    BY <2>1
  <2> HIDE DEF f, g
  <2>7. << f, g >> \in Seq(FrameType) /\ Range(<< f, g >>) = {f, g}
    <3>1. << f, g >> \in Seq(FrameType) /\ DOMAIN << f, g >> = {1, 2}
      BY <2>3, <2>5
    <3> QED
      BY <3>1 DEF Range
  <2>8. walk' \in Seq(FrameType) /\ Range(walk') = Range(Outer) \cup {f, g}
    <3>1. ASSUME NEW s \in Seq(FrameType)
          PROVE  Outer \o s \in Seq(FrameType) /\ Range(Outer \o s) = Range(Outer) \cup Range(s)
      BY <1>2, ConcatProperties, RangeConcatenation
    <3> QED
      BY <2>6, <2>7, <3>1
  <2>9. FrameOK(f) /\ FrameOK(g)
    BY <2>2, <2>3, <2>4, <2>5 DEF FrameOK
  <2>10. ASSUME NEW c \in Inodes, Lists(Inner, at[c][1], at[c][2])
         PROVE  \E x \in {f, g} : Lists(x, at[c][1], at[c][2]) \/ Visits(x, c)
    <3>1. at[c][1] = Inner.dir /\ at[c][2] \in Inner.kids
      BY <1>1, <2>10 DEF Lists
    <3>2. CASE at[c][2] # n
      <4>1. Lists(f, at[c][1], at[c][2])
        BY <2>3, <3>1, <3>2 DEF Lists
      <4> QED
        BY <4>1
    <3>3. CASE at[c][2] = n
      <4>1. at[c] = <<Inner.dir, n>>
        <5>1. at[c] \in Places \X AllNames
          BY DEF NotesInv
        <5> QED
          BY <3>1, <3>3, <5>1
      <4>2. c \in Res(at, Append(Inner.path, n))
        <5>1. Res(at, Append(Inner.path, n)) = Down(at, Res(at, Inner.path), n)
          BY <2>2, ResAppend
        <5> QED
          BY <2>2, <4>1, <5>1 DEF Down, ChildIn
      <4>3. Visits(g, c)
        BY <2>5, <4>2 DEF Visits
      <4> QED
        BY <4>3
    <3> QED
      BY <3>2, <3>3
  <2> QED
    BY <1>1, <1>3, <2>8, <2>9, <2>10, StepSynced
<1> QED
  BY <1>4, <1>5

\* What traverseTree() does to watches and slots.
Adds(d, path) ==
    LET wd == IF WdOf(d) = {} THEN nextWd ELSE CHOOSE w \in WdOf(d) : TRUE
    IN  /\ watches' = With(watches, wd, [dir |-> d, self |-> isRootDirPath(path)])
        /\ cache' = IF wd \in DOMAIN cache THEN cache ELSE With(cache, wd, path)

LEMMA TraverseResult ==
  ASSUME WatchInv, pc # "done", NEW d, NEW path, Adds(d, path)
  PROVE  \E wd : /\ DOMAIN watches' = DOMAIN watches \cup {wd} /\ watches'[wd].dir = d
                 /\ \A w \in DOMAIN watches : watches'[w].dir = watches[w].dir
                 /\ DOMAIN cache' = DOMAIN cache \cup {wd}
                 /\ \A w \in DOMAIN cache : cache'[w] = cache[w]
                 /\ wd \notin DOMAIN watches => wd \notin DOMAIN cache /\ cache'[wd] = path
                 /\ wd \in DOMAIN watches => wd \in DOMAIN cache
<1> DEFINE wd == IF WdOf(d) = {} THEN nextWd ELSE CHOOSE w \in WdOf(d) : TRUE
           own == [dir |-> d, self |-> isRootDirPath(path)]
<1>1. (WdOf(d) = {} /\ wd = nextWd) \/ (wd \in DOMAIN watches /\ watches[wd].dir = d)
  <2>1. WdOf(d) # {} => wd \in WdOf(d)
    OBVIOUS
  <2> QED
    BY <2>1 DEF WdOf
<1>2. /\ watches' = With(watches, wd, own)
      /\ cache' = IF wd \in DOMAIN cache THEN cache ELSE With(cache, wd, path)
  BY DEF Adds
<1>3. own.dir = d
  OBVIOUS
<1> HIDE DEF wd, own
<1>4. nextWd \notin DOMAIN watches /\ nextWd \notin DOMAIN cache /\ DOMAIN watches \subseteq DOMAIN cache
  BY DEF WatchInv, WdInv, WatchesCached
<1>5. /\ DOMAIN watches' = DOMAIN watches \cup {wd}
      /\ watches'[wd] = own
      /\ \A w \in DOMAIN watches : w # wd => watches'[w] = watches[w]
  BY <1>2 DEF With
<1>6. /\ DOMAIN cache' = DOMAIN cache \cup {wd}
      /\ \A w \in DOMAIN cache : cache'[w] = cache[w]
      /\ wd \notin DOMAIN cache => cache'[wd] = path
  BY <1>2 DEF With
<1>7. \A w \in DOMAIN watches : watches'[w].dir = watches[w].dir
  BY <1>1, <1>3, <1>4, <1>5
<1>8. wd \notin DOMAIN watches => wd \notin DOMAIN cache
  BY <1>1, <1>4
<1> QED
  BY <1>3, <1>4, <1>5, <1>6, <1>7, <1>8

LEMMA TraverseSynced ==
  ASSUME OnePlace(at), WatchInv, pc # "done", Synced, traverseTree
  PROVE  Synced'
<1>1. walk # << >> /\ UNCHANGED <<fs, queue, roots, buf, todo>> /\ Inner.stage = "watch"
  BY DEF traverseTree
<1>2. UNCHANGED <<at, notes, dying, roots, todo>> /\ Evs' = Evs
  BY <1>1 DEF fs, Evs
<1>3. Outer \in Seq(FrameType) /\ Inner \in FrameType /\ FrameOK(Inner) /\ \A f \in Range(Outer) : FrameOK(f)
  BY <1>1, InnerFacts
<1>4. /\ Inner.path \in Seq(AllNames) \ {<< >>} /\ Inner.path[1] \in roots
      /\ Inner.dir \in Res(at, Inner.path) /\ Resolve(Inner.path) = Res(at, Inner.path)
  BY <1>1, <1>3, ResolveIsRes DEF FrameType, FrameOK
<1>a. PICK path, dir, g : path = Inner.path /\ dir = Inner.dir /\ g = [Inner EXCEPT !.stage = "list"]
  OBVIOUS
<1>5. \A c \in Res(at, path) : c = dir
  BY <1>4, <1>a, OneDir
<1>6. PICK wd : /\ DOMAIN watches' = DOMAIN watches \cup {wd} /\ watches'[wd].dir = dir
                /\ \A w \in DOMAIN watches : watches'[w].dir = watches[w].dir
                /\ DOMAIN cache' = DOMAIN cache \cup {wd}
                /\ \A w \in DOMAIN cache : cache'[w] = cache[w]
                /\ wd \notin DOMAIN watches => wd \notin DOMAIN cache /\ cache'[wd] = path
                /\ wd \in DOMAIN watches => wd \in DOMAIN cache
  <2>1. PICK d \in Res(at, path) : Adds(d, path)
    BY <1>4, <1>a DEF traverseTree, Adds
  <2>2. d = dir
    BY <1>5
  <2> QED
    BY <2>1, <2>2, TraverseResult
<1>7. Restage(g) /\ g \in FrameType /\ g.path = path /\ g.dir = dir /\ g.stage = "list"
  BY <1>3, <1>a DEF FrameType, traverseTree
<1>8. path \in Seq(AllNames) \ {<< >>} /\ path[1] \in roots /\ dir \in Res(at, path)
  BY <1>4, <1>a
<1>9. Range(walk) = Range(Outer) \cup {Inner}
  BY <1>1, WalkTop DEF Synced, FramesOK
<1>10. walk' \in Seq(FrameType) /\ Range(walk') = Range(Outer) \cup {g}
  BY <1>3, <1>7, RangeAppend DEF Restage
<1>11. FrameOK(g)
  BY <1>7, <1>8 DEF FrameOK
<1>12. \A c : Visits(Inner, c) => c = dir
  BY <1>5, <1>a DEF Visits
<1>13. (\A d, n : ~ Lists(Inner, d, n)) /\ \A n : Lists(g, dir, n)
  BY <1>1, <1>7 DEF Lists
<1>14. FramesOK'
  <2>1. \A f : FrameOK(f)' <=> FrameOK(f)
    BY <1>2 DEF FrameOK
  <2> QED
    BY <1>3, <1>10, <1>11, <2>1 DEF FramesOK
<1>15. OnlyCreated'
  BY <1>2 DEF Synced, OnlyCreated
<1>16. SlotsOK'
  <2> SUFFICES ASSUME NEW w \in DOMAIN cache' PROVE SlotOK(w)'
    BY DEF SlotsOK
  <2>1. CASE w \in DOMAIN cache
    <3>1. SlotOK(w)
      BY <2>1 DEF Synced, SlotsOK
    <3> QED
      BY <1>2, <1>6, <2>1, <3>1 DEF SlotOK
  <2>2. CASE w \notin DOMAIN cache
    <3>1. w = wd /\ cache'[w] = path /\ w \in DOMAIN watches' /\ watches'[w].dir = dir
      BY <1>6, <2>2
    <3> QED
      BY <1>2, <1>8, <3>1 DEF SlotOK
  <2> QED
    BY <2>1, <2>2
<1>17. /\ WdOf(dir)' # {} /\ \A c : WdOf(c) # {} => WdOf(c)' # {}
  BY <1>6 DEF WdOf
<1>18. \A c : Visiting(c) => WdOf(c)' # {} \/ Visiting(c)'
  <2>1. \A f, c : Visits(f, c)' <=> Visits(f, c)
    BY <1>2 DEF Visits
  <2> QED
    BY <1>9, <1>10, <1>12, <1>17, <2>1 DEF Visiting
<1>19. (\A d, n : Listing(d, n) => Listing(d, n)') /\ \A n : Listing(dir, n)'
  <2>1. \A f, d, n : Lists(f, d, n)' <=> Lists(f, d, n)
    BY DEF Lists
  <2> QED
    BY <1>9, <1>10, <1>13, <2>1 DEF Listing
<1>20. \A d, n : (Announced(d, n) => Announced(d, n)') /\ (Told(d, n) => Told(d, n)')
  BY <1>2 DEF Announced, Told
<1>21. Flooded => Flooded'
  BY <1>2 DEF Flooded
<1>22. RootsCovered'
  BY <1>2, <1>17, <1>18, <1>21 DEF Synced, RootsCovered
<1>23. ChildrenCovered'
  <2> SUFFICES ASSUME NEW w \in DOMAIN watches', NEW c \in Inodes, at[c][1] = watches'[w].dir
               PROVE  \/ WdOf(c)' # {} \/ Visiting(c)' \/ Listing(watches[w].dir, at[c][2])'
                      \/ Announced(watches[w].dir, at[c][2])' \/ Told(w, at[c][2])' \/ Flooded'
    BY <1>2 DEF ChildrenCovered
  <2>a. PICK e, n : e = watches'[w].dir /\ n = at[c][2]
    OBVIOUS
  <2>1. WdOf(c)' # {} \/ Visiting(c)' \/ Listing(e, n)' \/ Announced(e, n)' \/ Told(w, n)' \/ Flooded'
    <3>1. CASE w \in DOMAIN watches
      <4>1. at[c][1] = watches[w].dir /\ e = watches[w].dir
        BY <1>6, <2>a, <3>1
      <4>2. WdOf(c) # {} \/ Visiting(c) \/ Listing(e, n) \/ Announced(e, n) \/ Told(w, n) \/ Flooded
        BY <2>a, <3>1, <4>1 DEF Synced, ChildrenCovered
      <4> QED
        BY <1>17, <1>18, <1>19, <1>20, <1>21, <4>2
    <3>2. CASE w \notin DOMAIN watches
      <4>1. e = dir
        BY <1>6, <2>a, <3>2
      <4> QED
        BY <1>19, <4>1
    <3> QED
      BY <3>1, <3>2
  <2> QED
    BY <1>2, <2>1, <2>a
<1> QED
  BY <1>14, <1>15, <1>16, <1>22, <1>23 DEF Synced

\* An event of a creation has been processed.
LEMMA CreatedSynced ==
  ASSUME OnePlace(at), NotesInv, WatchInv, Synced, Created
  PROVE  Synced'
<1>1. /\ AtEvent /\ Known /\ Ev.mask \in {"CREATE", "MOVED_TO"} /\ Processed(1)
      /\ walk' = IF Cached(FullPath) = {} THEN << Frame(FullPath) >> ELSE << >>
      /\ UNCHANGED <<at, notes, dying, watches, queue, cache, roots, todo>>
  BY DEF Created, fs, inotify
<1>2. Ev \in Evs /\ Ev = buf[1] /\ Ev \in EventType
  <2>1. Ev = buf[1] /\ Ev \in Evs /\ Len(buf) \in Nat /\ 1 \in 0 .. Len(buf) /\ buf \in Seq(EventType) /\ queue \in Seq(EventType)
    BY <1>1, AtEventFacts
  <2>2. buf # << >>
    BY <1>1 DEF AtEvent
  <2>3. Ev \in EventType
    BY <2>1, <2>2, HeadTailProperties DEF Ev
  <2> QED
    BY <2>1, <2>3
<1>3. Ev.mask = "CREATE" /\ Ev.name \in AllNames /\ Ev.wd \in DOMAIN cache /\ walk = << >> /\ todo = {}
  BY <1>1, <1>2 DEF Synced, OnlyCreated, EventType, Known, AtEvent, Walking
<1>4. /\ Evs' \subseteq Evs
      /\ \A e \in Evs : e \in Evs' \/ e = Ev
  <2>1. /\ Range(buf') \subseteq Range(buf)
        /\ \A e \in Range(buf) : e \in Range(buf') \/ \E i \in 1 .. 1 : e = buf[i]
    BY <1>1, AtEventFacts, Dropped DEF WatchInv
  <2> QED
    BY <1>1, <1>2, <2>1 DEF Evs
<1>5. PICK wd, name, path : wd = Ev.wd /\ name = Ev.name /\ path = FullPath
  OBVIOUS
<1>6. SlotOK(wd) /\ wd \in DOMAIN cache /\ name \in AllNames
  BY <1>3, <1>5 DEF Synced, SlotsOK
<1>7. /\ cache[wd] \in Seq(AllNames) /\ cache[wd] # << >> /\ cache[wd][1] \in roots
      /\ wd \in DOMAIN watches /\ watches[wd].dir \in Res(at, cache[wd])
  BY <1>6 DEF SlotOK
<1>8. /\ path \in Seq(AllNames) /\ path # << >> /\ path[1] \in roots
      /\ Res(at, path) = Down(at, Res(at, cache[wd]), name)
  <2>1. path = Append(cache[wd], name)
    BY <1>5 DEF FullPath
  <2>2. /\ Append(cache[wd], name) \in Seq(AllNames) /\ Append(cache[wd], name) # << >>
        /\ Append(cache[wd], name)[1] = cache[wd][1]
    BY <1>6, <1>7, FirstName
  <2>3. Res(at, Append(cache[wd], name)) = Down(at, Res(at, cache[wd]), name)
    BY <1>6, <1>7, ResAppend
  <2> QED
    BY <1>7, <2>1, <2>2, <2>3
<1>9. \A c \in Inodes : at[c][1] = watches[wd].dir /\ at[c][2] = name => c \in Res(at, path)
  <2> SUFFICES ASSUME NEW c \in Inodes, at[c][1] = watches[wd].dir, at[c][2] = name PROVE c \in Res(at, path)
    OBVIOUS
  <2>1. at[c] \in Places \X AllNames
    BY DEF NotesInv
  <2>2. at[c] = <<watches[wd].dir, name>>
    BY <2>1
  <2> QED
    BY <1>7, <1>8, <2>2 DEF Down, ChildIn
<1>10. FramesOK' /\ (Cached(path) = {} => \A c \in Res(at, path) : Visiting(c)')
  <2>1. CASE Cached(path) # {}
    <3>1. walk' = << >>
      BY <1>1, <1>5, <2>1
    <3>2. walk' \in Seq(FrameType) /\ Range(walk') = {}
      BY <3>1, RangeEmpty, EmptySeq
    <3> QED
      BY <2>1, <3>2 DEF FramesOK
  <2>2. CASE Cached(path) = {}
    <3> DEFINE f == Frame(path)
    <3>1. f \in FrameType /\ f.path = path /\ f.stage = "stat"
      BY <1>8, FrameFields
    <3>2. walk' = << f >>
      BY <1>1, <1>5, <2>2
    <3> HIDE DEF f
    <3>3. << f >> \in Seq(FrameType) /\ DOMAIN << f >> = {1} /\ << f >>[1] = f
      BY <3>1
    <3>4. walk' \in Seq(FrameType) /\ Range(walk') = {f}
      BY <3>2, <3>3 DEF Range
    <3>5. PICK h : h = f
      OBVIOUS
    <3>6. FrameOK(h)'
      BY <1>1, <1>8, <3>1, <3>5 DEF FrameOK
    <3>7. \A c \in Res(at, path) : Visits(h, c)'
      BY <1>1, <3>1, <3>5 DEF Visits
    <3> QED
      BY <3>4, <3>5, <3>6, <3>7 DEF FramesOK, Visiting
  <2> QED
    BY <2>1, <2>2
<1>11. OnlyCreated' /\ SlotsOK'
  BY <1>1, <1>4 DEF Synced, OnlyCreated, SlotsOK, SlotOK
<1>12. \A c : WdOf(c)' = WdOf(c)
  BY <1>1 DEF WdOf
<1>13. Flooded => Flooded'
  BY <1>3, <1>4 DEF Flooded
<1>14. Range(walk) = {}
  BY <1>3, RangeEmpty
<1>15. RootsCovered'
  BY <1>1, <1>3, <1>12, <1>13, <1>14 DEF Synced, RootsCovered, Visiting
<1>16. ChildrenCovered'
  <2> SUFFICES ASSUME NEW w \in DOMAIN watches, NEW c \in Inodes, at[c][1] = watches[w].dir
               PROVE  \/ WdOf(c)' # {} \/ Visiting(c)' \/ Listing(watches[w].dir, at[c][2])'
                      \/ Announced(watches[w].dir, at[c][2])' \/ Told(w, at[c][2])' \/ Flooded'
    BY <1>1 DEF ChildrenCovered
  <2>a. PICK d, n : d = watches[w].dir /\ n = at[c][2] /\ d = watches'[w].dir /\ n = at'[c][2]
    BY <1>1
  <2>1. WdOf(c) # {} \/ Announced(d, n) \/ Told(w, n) \/ Flooded
    BY <1>14, <2>a DEF Synced, ChildrenCovered, Visiting, Listing
  <2>2. Announced(d, n) => Announced(d, n)'
    BY <1>1 DEF Announced
  <2>3. Told(w, n) => Told(w, n)' \/ (w = wd /\ n = name)
    BY <1>4, <1>5 DEF Told
  <2>4. w = wd /\ n = name => WdOf(c) # {} \/ Visiting(c)'
    <3> SUFFICES ASSUME w = wd, n = name, Cached(path) # {} PROVE WdOf(c) # {}
      BY <1>9, <1>10, <2>a
    <3>1. c \in Res(at, path)
      BY <1>9, <2>a
    <3>2. PICK v \in DOMAIN cache : cache[v] = path
      BY DEF Cached
    <3>3. v \in DOMAIN watches /\ watches[v].dir \in Res(at, path)
      BY <3>2 DEF Synced, SlotsOK, SlotOK
    <3>4. watches[v].dir = c
      BY <1>8, <3>1, <3>3, OneDir
    <3> QED
      BY <3>3, <3>4 DEF WdOf
  <2> QED
    BY <1>12, <1>13, <2>1, <2>2, <2>3, <2>4, <2>a
<1> QED
  BY <1>10, <1>11, <1>15, <1>16 DEF Synced

\* What only grows with the tree.
LEMMA MkdirTree ==
  ASSUME NotesInv, OnePlace(at), NEW u \in Users, Mkdir(u)
  PROVE  /\ OnePlace(at') /\ Grown(at, at') /\ notes[u] = << >>
         /\ \E d \in Inodes, p \in Inodes, n \in Names :
              /\ at'[d] = <<p, n>> /\ \A c \in Inodes : c # d => at'[c] = at[c]
              /\ notes' = [notes EXCEPT ![u] = << [mask |-> "CREATE", dir |-> p, name |-> n, cookie |-> 0] >>]
<1>1. PICK p \in Inodes, n \in Names, d \in Dirs :
         /\ Child(p, n) = {} /\ at[d] = Unused
         /\ at' = [at EXCEPT ![d] = <<p, n>>]
         /\ notes' = [notes EXCEPT ![u] = << [mask |-> "CREATE", dir |-> p, name |-> n, cookie |-> 0] >>]
  BY DEF Mkdir
<1>2. d \in Inodes /\ at'[d] = <<p, n>> /\ \A c \in Inodes : c # d => at'[c] = at[c]
  BY <1>1 DEF NotesInv, Inodes
<1>3. \A c \in Inodes : at[c] # <<p, n>>
  BY <1>1 DEF Child
<1>4. OnePlace(at')
  BY <1>2, <1>3 DEF OnePlace
<1>5. Grown(at, at')
  BY <1>1, <1>2 DEF Grown
<1>6. notes[u] = << >>
  BY DEF Mkdir, CanChange, Idle
<1> QED
  BY <1>1, <1>2, <1>4, <1>5, <1>6

LEMMA MkdirSynced ==
  ASSUME NotesInv, OnePlace(at), Synced, NEW u \in Users, Mkdir(u)
  PROVE  Synced'
<1>1. UNCHANGED <<dying, watches, queue, cache, roots, walk, todo, buf>>
  BY DEF Mkdir, inotify, monitor
<1>2. PICK d \in Inodes, p \in Inodes, n \in Names :
         /\ at'[d] = <<p, n>> /\ \A c \in Inodes : c # d => at'[c] = at[c]
         /\ notes' = [notes EXCEPT ![u] = << [mask |-> "CREATE", dir |-> p, name |-> n, cookie |-> 0] >>]
  BY MkdirTree
<1>3. Grown(at, at') /\ notes[u] = << >> /\ notes \in [Users -> Seq(NoteType)]
  BY MkdirTree DEF NotesInv
<1>4. \A q \in Seq(AllNames) : Res(at, q) \subseteq Res(at', q)
  BY <1>3, ResGrows
<1> DEFINE e == [mask |-> "CREATE", dir |-> p, name |-> n, cookie |-> 0]
<1>5. e.mask = "CREATE" /\ e.dir = p /\ e.name = n /\ notes' = [notes EXCEPT ![u] = << e >>]
  BY <1>2
<1> HIDE DEF e
<1>6. /\ Range(notes'[u]) = {e} /\ Range(notes[u]) = {}
      /\ \A v \in Users : v # u => notes'[v] = notes[v]
  <2>1. notes'[u] = << e >> /\ DOMAIN << e >> = {1} /\ << e >>[1] = e
    BY <1>3, <1>5
  <2> QED
    BY <1>3, <1>5, <2>1, RangeEmpty DEF Range
<1>7. Evs' = Evs
  BY <1>1 DEF Evs
<1>8. OnlyCreated'
  BY <1>1, <1>5, <1>6, <1>7 DEF Synced, OnlyCreated
<1>9. \A f \in Range(walk) : f.path \in Seq(AllNames)
  <2>1. walk \in Seq(FrameType)
    BY DEF Synced, FramesOK
  <2>2. \A f \in Range(walk) : f \in FrameType
    BY <2>1, LenProperties, ElementOfSeq DEF Range
  <2> QED
    BY <2>2 DEF FrameType
<1>10. FramesOK'
  <2>1. ASSUME NEW f \in Range(walk) PROVE FrameOK(f)'
    <3>1. FrameOK(f) /\ Res(at, f.path) \subseteq Res(at', f.path)
      BY <1>4, <1>9 DEF Synced, FramesOK
    <3> QED
      BY <1>1, <3>1 DEF FrameOK
  <2> QED
    BY <1>1, <2>1 DEF Synced, FramesOK
<1>11. SlotsOK'
  <2>1. ASSUME NEW w \in DOMAIN cache PROVE SlotOK(w)'
    <3>1. SlotOK(w) /\ cache[w] \in Seq(AllNames)
      BY DEF Synced, SlotsOK, SlotOK
    <3>2. Res(at, cache[w]) \subseteq Res(at', cache[w])
      BY <1>4, <3>1
    <3> QED
      BY <1>1, <3>1, <3>2 DEF SlotOK
  <2> QED
    BY <1>1, <2>1 DEF SlotsOK
<1>12. \A c : (WdOf(c)' = WdOf(c)) /\ (Visiting(c) => Visiting(c)')
  <2>1. \A c : WdOf(c)' = WdOf(c)
    BY <1>1 DEF WdOf
  <2>2. \A f \in Range(walk) : \A c : Visits(f, c) => Visits(f, c)'
    BY <1>4, <1>9 DEF Visits
  <2> QED
    BY <1>1, <2>1, <2>2 DEF Visiting
<1>13. \A x, y : (Listing(x, y) => Listing(x, y)') /\ (Told(x, y) => Told(x, y)')
  BY <1>1, <1>7 DEF Listing, Lists, Told
<1>14. (\A x, y : Announced(x, y) => Announced(x, y)') /\ Announced(p, n)'
  BY <1>5, <1>6 DEF Announced
<1>15. Flooded => Flooded'
  BY <1>7 DEF Flooded
<1>16. RootsCovered'
  <2>1. p # Top
    BY TopApart
  <2>2. \A r, c \in Inodes : c # d => at'[c] = at[c]
    BY <1>2
  <2>3. \A r : at'[d] # <<Top, r>>
    BY <1>2, <2>1
  <2> QED
    BY <1>1, <1>2, <1>12, <1>15, <2>3 DEF Synced, RootsCovered
<1>17. ChildrenCovered'
  <2> SUFFICES ASSUME NEW w \in DOMAIN watches, NEW c \in Inodes, at'[c][1] = watches[w].dir
               PROVE  \/ WdOf(c)' # {} \/ Visiting(c)' \/ Listing(watches[w].dir, at[c][2])'
                      \/ Announced(watches[w].dir, at[c][2])' \/ Told(w, at[c][2])' \/ Flooded'
    BY <1>1 DEF ChildrenCovered
  <2>a. PICK x, y : x = watches[w].dir /\ y = at'[c][2] /\ x = watches'[w].dir
    BY <1>1
  <2>1. CASE c = d
    <3>1. x = p /\ y = n
      BY <1>2, <2>1, <2>a
    <3> QED
      BY <1>14, <2>a, <3>1
  <2>2. CASE c # d
    <3>1. at'[c] = at[c]
      BY <1>2, <2>2
    <3>2. WdOf(c) # {} \/ Visiting(c) \/ Listing(x, y) \/ Announced(x, y) \/ Told(w, y) \/ Flooded
      BY <2>a, <3>1 DEF Synced, ChildrenCovered
    <3> QED
      BY <1>12, <1>13, <1>14, <1>15, <2>a, <3>2
  <2> QED
    BY <2>1, <2>2
<1> QED
  BY <1>8, <1>10, <1>11, <1>16, <1>17 DEF Synced

LEMMA RangeTail ==
  ASSUME NEW S, NEW s \in Seq(S), s # << >>
  PROVE  Head(s) \in S /\ Tail(s) \in Seq(S) /\ Range(s) = {Head(s)} \cup Range(Tail(s))
<1>1. Len(s) \in Nat /\ Len(s) > 0 /\ Head(s) = s[1] /\ Head(s) \in S /\ Tail(s) \in Seq(S)
  BY LenProperties, EmptySeq, HeadTailProperties
<1>2. 1 \in 0 .. Len(s) /\ 1 .. 1 = {1} /\ 1 + 1 = 2
  BY <1>1
<1>3. Range(s) = {s[i] : i \in 1 .. 1} \cup Range(SubSeq(s, 1 + 1, Len(s)))
  BY <1>2, Cut
<1>4. Tail(s) = SubSeq(s, 2, Len(s))
  <2>1. Len(Tail(s)) = Len(s) - 1 /\ \A k \in 1 .. Len(s) - 1 : Tail(s)[k] = s[k + 1]
    BY HeadTailProperties
  <2>2. 2 \in 1 .. Len(s) + 1 /\ Len(s) \in 2 - 1 .. Len(s)
    BY <1>1
  <2> DEFINE t == SubSeq(s, 2, Len(s))
             l == Len(s)
  <2>3. \A k \in 2 .. l : s[k] \in S
    BY <1>1, LenProperties, ElementOfSeq
  <2>4. l \in Int /\ 2 \in Int /\ l \in Nat /\ l > 0
    BY <1>1
  <2>5. t \in Seq(S) /\ Len(t) = (IF 2 <= l THEN l - 2 + 1 ELSE 0) /\ \A k \in 1 .. (l - 2 + 1) : t[k] = s[2 + k - 1]
    BY <2>3, <2>4, SubSeqProperties
  <2> HIDE DEF t, l
  <2>6. (IF 2 <= l THEN l - 2 + 1 ELSE 0) = l - 1 /\ l - 2 + 1 = l - 1 /\ \A k \in 1 .. (l - 1) : 2 + k - 1 = k + 1
    BY <2>4
  <2>7. Len(t) = l - 1 /\ \A k \in 1 .. (l - 1) : t[k] = s[k + 1]
    BY <2>5, <2>6
  <2>8. Len(Tail(s)) = l - 1 /\ \A k \in 1 .. (l - 1) : Tail(s)[k] = s[k + 1]
    BY <2>1 DEF l
  <2>9. Tail(s) = t
    BY <1>1, <2>5, <2>7, <2>8, SeqEqual
  <2> QED
    BY <2>9 DEF t, l
<1> QED
  BY <1>1, <1>2, <1>3, <1>4

\* fsnotify tells the watch on the parent of a creation.
LEMMA NotifySynced ==
  ASSUME NotesInv, WatchInv, Synced, NEW u \in Users, Notify(u)
  PROVE  Synced'
<1>1. /\ notes[u] # << >> /\ notes' = [notes EXCEPT ![u] = Tail(@)]
      /\ UNCHANGED <<at, dying, watches, cache, roots, walk, todo, buf>>
  BY DEF Notify, monitor
<1>2. notes \in [Users -> Seq(NoteType)] /\ notes[u] \in Seq(NoteType)
  BY DEF NotesInv
<1>3. PICK e, told, w0 :
         /\ e = Head(notes[u])
         /\ told = {w \in WdOf(e.dir) : e.mask # "MOVE_SELF" \/ watches[w].self}
         /\ told # {} => w0 \in told
         /\ queue' = IF told = {} THEN queue ELSE Queued(queue, Event(e.mask, w0, e.name, e.cookie))
  <2> DEFINE x == Head(notes[u])
             t == {w \in WdOf(x.dir) : x.mask # "MOVE_SELF" \/ watches[w].self}
             v == CHOOSE w \in t : TRUE
  <2>1. queue' = IF t = {} THEN queue ELSE Queued(queue, Event(x.mask, v, x.name, x.cookie))
    BY DEF Notify
  <2>2. t # {} => v \in t
    OBVIOUS
  <2> HIDE DEF v
  <2> QED
    BY <2>1, <2>2
<1>4. e \in NoteType /\ Range(notes[u]) = {e} \cup Range(Tail(notes[u]))
  BY <1>1, <1>2, <1>3, RangeTail
<1>5. /\ notes'[u] = Tail(notes[u]) /\ \A v \in Users : v # u => notes'[v] = notes[v]
  BY <1>1, <1>2
<1>6. \A v \in Users : Range(notes'[v]) \subseteq Range(notes[v]) /\ \A x \in Range(notes[v]) : x \in Range(notes'[v]) \/ x = e
  BY <1>4, <1>5
<1>7. e.mask = "CREATE" /\ e.name \in AllNames /\ e.cookie \in Nat
  BY <1>4 DEF Synced, OnlyCreated, NoteType
<1>8. told = WdOf(e.dir)
  BY <1>3, <1>7
<1>9. queue' = IF WdOf(e.dir) = {} THEN queue ELSE Queued(queue, Event(e.mask, w0, e.name, e.cookie))
  BY <1>3, <1>8
<1>10. PICK ev : ev = Event(e.mask, w0, e.name, e.cookie)
  OBVIOUS
<1>11. WdOf(e.dir) # {} => w0 \in DOMAIN watches /\ watches[w0].dir = e.dir
  BY <1>3, <1>8 DEF WdOf
<1>12. ev.mask = "CREATE" /\ ev.wd = w0 /\ ev.name = e.name /\ Overflow.mask = "Q_OVERFLOW"
  BY <1>7, <1>10 DEF Event, Overflow
<1>13. WdOf(e.dir) # {} => Accepted(queue', queue, {ev})
  <2> SUFFICES ASSUME WdOf(e.dir) # {} PROVE Accepted(queue', queue, {ev})
    OBVIOUS
  <2>1. w0 \in Int
    BY <1>11 DEF WatchInv, WdInv
  <2>2. ev \in EventType
    BY <1>7, <1>10, <2>1 DEF Event, EventType, Changes
  <2>3. queue' = Queued(queue, ev) /\ queue \in Seq(EventType)
    BY <1>9, <1>10 DEF WatchInv, EventsInv
  <2> QED
    BY <2>2, <2>3, QueuedResult
<1>14. /\ Evs \subseteq Evs' /\ Evs' \subseteq Evs \cup {ev, Overflow}
       /\ WdOf(e.dir) # {} => ev \in Evs' \/ Overflow \in Evs'
  BY <1>1, <1>9, <1>13 DEF Evs, Accepted
<1>15. OnlyCreated'
  BY <1>1, <1>6, <1>12, <1>14 DEF Synced, OnlyCreated
<1>16. FramesOK' /\ SlotsOK'
  BY <1>1 DEF Synced, FramesOK, FrameOK, SlotsOK, SlotOK
<1>17. \A c : (WdOf(c)' = WdOf(c)) /\ (Visiting(c)' <=> Visiting(c))
  BY <1>1 DEF WdOf, Visiting, Visits
<1>18. \A d, n : (Listing(d, n)' <=> Listing(d, n)) /\ (Told(d, n) => Told(d, n)')
  BY <1>1, <1>14 DEF Listing, Lists, Told
<1>19. Flooded => Flooded'
  BY <1>14 DEF Flooded
<1>20. RootsCovered'
  BY <1>1, <1>17, <1>19 DEF Synced, RootsCovered
<1>21. \A w \in DOMAIN watches : \A d, n : d = watches[w].dir /\ Announced(d, n) => Announced(d, n)' \/ Told(w, n)' \/ Flooded'
  <2> SUFFICES ASSUME NEW w \in DOMAIN watches, NEW d, NEW n, d = watches[w].dir, Announced(d, n), ~ Announced(d, n)'
               PROVE  Told(w, n)' \/ Flooded'
    OBVIOUS
  <2>1. PICK v \in Users : \E x \in Range(notes[v]) : x.mask = "CREATE" /\ x.dir = d /\ x.name = n
    BY DEF Announced
  <2>2. PICK x \in Range(notes[v]) : x.mask = "CREATE" /\ x.dir = d /\ x.name = n
    BY <2>1
  <2>3. x = e
    BY <1>6, <2>2 DEF Announced
  <2>4. WdOf(e.dir) # {} /\ w0 = w
    BY <1>11, <2>2, <2>3 DEF WdOf, WatchInv, UniqueInv
  <2>5. ev \in Evs' \/ Overflow \in Evs'
    BY <1>14, <2>4
  <2> QED
    BY <1>12, <2>2, <2>3, <2>4, <2>5 DEF Told, Flooded
<1>22. ChildrenCovered'
  <2> SUFFICES ASSUME NEW w \in DOMAIN watches, NEW c \in Inodes, at[c][1] = watches[w].dir
               PROVE  \/ WdOf(c)' # {} \/ Visiting(c)' \/ Listing(watches[w].dir, at[c][2])'
                      \/ Announced(watches[w].dir, at[c][2])' \/ Told(w, at[c][2])' \/ Flooded'
    BY <1>1 DEF ChildrenCovered
  <2>a. PICK d, n : d = watches[w].dir /\ n = at[c][2] /\ d = watches'[w].dir /\ n = at'[c][2]
    BY <1>1
  <2>1. WdOf(c) # {} \/ Visiting(c) \/ Listing(d, n) \/ Announced(d, n) \/ Told(w, n) \/ Flooded
    BY <2>a DEF Synced, ChildrenCovered
  <2> QED
    BY <1>17, <1>18, <1>19, <1>21, <2>1, <2>a
<1> QED
  BY <1>15, <1>16, <1>20, <1>22 DEF Synced

LEMMA ReadSynced ==
  ASSUME WatchInv, Synced, ReadEvents \/ ReadMore
  PROVE  Synced'
<1>1. ReadUpTo(ReadSize) /\ UNCHANGED <<at, notes, dying, watches, cache, roots, walk, todo>>
  BY DEF ReadEvents, ReadMore, fs
<1>2. Evs' = Evs
  BY <1>1, ReadKeeps DEF WatchInv
<1> QED
  BY <1>1, <1>2, SameSynced

-----------------------------------------------------------------------------
(* The tree, the roots and the program counter. *)

LEMMA InitSync == Init => SyncInv
<1> SUFFICES ASSUME Init PROVE SyncInv
  OBVIOUS
<1>1. OnePlace(at)
  <2> SUFFICES ASSUME NEW c \in Inodes, NEW d \in Inodes, at[c] = at[d], at[c] # Unused PROVE c = d
    BY DEF OnePlace
  <2>1. ASSUME NEW x \in Inodes
        PROVE  IF x \in Roots THEN at[x] = <<Top, x>> ELSE x \in Dirs /\ at[x] = Start[x]
    BY DEF Init, Inodes
  <2>2. ASSUME NEW x \in Dirs PROVE Start[x] = Unused \/ (Start[x] \in Inodes \X Names)
    BY InotifyAssumption DEF Unused, Inodes
  <2>3. ASSUME NEW x \in Dirs, NEW r PROVE Start[x] # <<Top, r>>
    BY <2>2, TopApart DEF Unused, Top
  <2>4. CASE c \in Roots
    BY <2>1, <2>3, <2>4
  <2>5. CASE c \notin Roots
    <3>1. c \in Dirs /\ at[c] = Start[c]
      BY <2>1, <2>5
    <3>2. d \notin Roots
      BY <2>1, <2>3, <3>1
    <3>3. d \in Dirs /\ at[d] = Start[d]
      BY <2>1, <3>2
    <3> QED
      BY <3>1, <3>3, InotifyAssumption DEF Unused
  <2> QED
    BY <2>4, <2>5
<1>2. RootInv /\ PcInv
  BY DEF Init, RootInv, PcInv
<1>3. Evs = {} /\ Range(walk) = {} /\ DOMAIN watches = {} /\ DOMAIN cache = {} /\ walk \in Seq(FrameType)
  BY RangeEmpty, EmptySeq DEF Init, Evs, None
<1>4. \A u \in Users : Range(notes[u]) = {}
  <2>1. \A u \in Users : notes[u] = << >>
    BY DEF Init
  <2> QED
    BY <2>1, NoRange
<1>5. OnlyCreated /\ FramesOK /\ SlotsOK /\ ChildrenCovered
  BY <1>3, <1>4 DEF OnlyCreated, FramesOK, SlotsOK, ChildrenCovered, Init
<1>6. RootsCovered
  BY DEF RootsCovered, Init
<1> QED
  BY <1>1, <1>2, <1>5, <1>6 DEF SyncInv, Synced

\* The steps of nftw().
Walks == WalkRoot \/ Stat \/ OpenDir \/ traverseTree \/ ReadDir \/ VisitNext
\* The steps that take an event.
Takes == UnknownWatch \/ QueueOverflow \/ NothingToDo \/ Created \/ DeletedSelf \/ MovedWithin \/ MovedOut \/ HangingMovedFrom \/ RootMoved
\* The steps that change nothing but where the program is.
Turns == EndOfBuffer \/ Timeout \/ SelectInotify \/ SelectKeyboard \/ TimeoutTooEarly \/ Rest \/ UNCHANGED vars

LEMMA NextCases ==
  ASSUME [Next]_vars
  PROVE  \/ Walks \/ Takes \/ Turns \/ ReadEvents \/ ReadMore
         \/ \E c \in Commands : executeCommand(c[1], c[2])
         \/ \E u \in Users : User(u) \/ Notify(u)
         \/ \E d \in Inodes : Release(d)
  BY DEF Next, Monitor, Walks, Takes, Turns

LEMMA TreeNext ==
  ASSUME IndInv, SyncInv, [Next]_vars
  PROVE  OnePlace(at)'
<1>1. OnePlace(at) /\ at \in [Inodes -> Places \X AllNames] /\ NotesInv
  BY DEF SyncInv, IndInv, NotesInv
<1>2. CASE UNCHANGED at
  BY <1>1, <1>2 DEF OnePlace
<1>3. ASSUME NEW u \in Users, Mkdir(u) PROVE OnePlace(at)'
  BY <1>1, <1>3, MkdirTree DEF OnePlace
<1>4. ASSUME NEW u \in Users, Rmdir(u) PROVE OnePlace(at)'
  <2>1. PICK d \in Inodes : at' = [at EXCEPT ![d] = Nowhere]
    BY <1>4 DEF Rmdir
  <2> QED
    BY <1>1, <2>1 DEF OnePlace
<1>5. ASSUME NEW u \in Users, Rename(u) PROVE OnePlace(at)'
  <2>1. PICK d \in Inodes, p \in Inodes \cup {Top}, n \in Names : Child(p, n) = {} /\ at' = [at EXCEPT ![d] = <<p, n>>]
    BY <1>5 DEF Rename
  <2>2. \A c \in Inodes : at[c] # <<p, n>>
    BY <2>1 DEF Child
  <2> QED
    BY <1>1, <2>1, <2>2 DEF OnePlace
<1>6. CASE Walks \/ Takes \/ Turns \/ ReadEvents \/ ReadMore
  <2>1. UNCHANGED at
    BY <1>6 DEF Walks, WalkRoot, Stat, OpenDir, traverseTree, ReadDir, VisitNext, Takes, UnknownWatch, QueueOverflow,
       NothingToDo, Created, DeletedSelf, MovedWithin, MovedOut, HangingMovedFrom, RootMoved, Turns, EndOfBuffer, Timeout,
       SelectInotify, SelectKeyboard, TimeoutTooEarly, Rest, ReadEvents, ReadMore, fs, vars
  <2> QED
    BY <1>2, <2>1
<1>7. ASSUME NEW c \in Commands, executeCommand(c[1], c[2]) PROVE OnePlace(at)'
  BY <1>2, <1>7 DEF executeCommand, fs
<1>8. ASSUME NEW u \in Users, Notify(u) PROVE OnePlace(at)'
  BY <1>2, <1>8 DEF Notify
<1>9. ASSUME NEW d \in Inodes, Release(d) PROVE OnePlace(at)'
  BY <1>2, <1>9 DEF Release
<1> QED
  BY <1>3, <1>4, <1>5, <1>6, <1>7, <1>8, <1>9, NextCases DEF User

LEMMA PlaceNext ==
  ASSUME IndInv, SyncInv, [Next]_vars
  PROVE  RootInv' /\ PcInv'
<1>1. RootInv /\ PcInv
  BY DEF SyncInv
<1>2. CASE Walks
  <2>1. UNCHANGED <<roots, pc, buf>> /\ todo' \subseteq todo
    BY <1>2 DEF Walks, WalkRoot, Stat, OpenDir, traverseTree, ReadDir, VisitNext
  <2>2. Walking
    BY <1>2 DEF Walks, WalkRoot, Stat, OpenDir, traverseTree, ReadDir, VisitNext, Walking
  <2> QED
    BY <1>1, <2>1, <2>2 DEF RootInv, PcInv
<1>3. CASE Takes
  <2>1. AtEvent
    BY <1>3 DEF Takes, UnknownWatch, QueueOverflow, NothingToDo, Created, DeletedSelf, MovedWithin, MovedOut,
       HangingMovedFrom, RootMoved
  <2>2. pc = "process" /\ todo = {}
    BY <2>1 DEF AtEvent, Walking
  <2>3. pc' \in {"process", "more", "done"}
    BY <1>3, <2>2 DEF Takes, UnknownWatch, QueueOverflow, NothingToDo, Created, DeletedSelf, MovedWithin, MovedOut,
       HangingMovedFrom, RootMoved, zapRootDirPath
  <2>4. roots' \subseteq roots /\ todo' \subseteq roots'
    BY <1>3, <2>2 DEF Takes, UnknownWatch, QueueOverflow, NothingToDo, Created, DeletedSelf, MovedWithin, MovedOut,
       HangingMovedFrom, RootMoved, zapRootDirPath, reinitialize
  <2> QED
    BY <1>1, <2>3, <2>4 DEF RootInv, PcInv
<1>4. CASE Turns
  <2>1. UNCHANGED <<roots, todo, walk, buf>>
    BY <1>4 DEF Turns, EndOfBuffer, Timeout, SelectInotify, SelectKeyboard, TimeoutTooEarly, Rest, vars, monitor
  <2>2. RootInv'
    BY <1>1, <2>1 DEF RootInv
  <2>3. PcInv'
    BY <1>1, <1>4, <2>1 DEF PcInv, Walking, Turns, EndOfBuffer, Timeout, SelectInotify, SelectKeyboard, TimeoutTooEarly, Rest,
       vars, monitor
  <2> QED
    BY <2>2, <2>3
<1>5. CASE ReadEvents \/ ReadMore
  BY <1>1, <1>5 DEF ReadEvents, ReadMore, RootInv, PcInv
<1>6. ASSUME NEW c \in Commands, executeCommand(c[1], c[2]) PROVE RootInv' /\ PcInv'
  <2>1. pc = "command" /\ buf = << >> /\ roots' = roots /\ pc' \in {"read", "select", "done"}
    BY <1>1, <1>6 DEF executeCommand, PcInv, Back
  <2>2. buf' = << >> /\ todo' \subseteq roots
    BY <1>1, <1>6, <2>1 DEF executeCommand, reinitialize, RootInv
  <2> QED
    BY <1>1, <2>1, <2>2 DEF RootInv, PcInv
<1>7. CASE UNCHANGED monitor
  BY <1>1, <1>7 DEF monitor, RootInv, PcInv, Walking
<1>8. ASSUME NEW u \in Users, User(u) \/ Notify(u) PROVE UNCHANGED monitor
  BY <1>8 DEF User, Mkdir, Rmdir, Rename, Notify
<1>9. ASSUME NEW d \in Inodes, Release(d) PROVE UNCHANGED monitor
  BY <1>9 DEF Release
<1> QED
  BY <1>2, <1>3, <1>4, <1>5, <1>6, <1>7, <1>8, <1>9, NextCases

-----------------------------------------------------------------------------

\* A rebuild, whatever was missed before.
LEMMA RebuildSynced ==
  ASSUME SyncInv, reinitialize, UNCHANGED <<fs, roots, walk>>, AtEvent \/ pc = "command"
  PROVE  Fresh' => Synced'
<1>1. walk' = << >>
  BY DEF SyncInv, PcInv, AtEvent, Walking
<1> QED
  BY <1>1, RenewedSynced DEF Fresh

LEMMA WalksSynced ==
  ASSUME IndInv, SyncInv, Walks
  PROVE  Fresh' => Synced'
<1>1. UNCHANGED <<pc, moved>>
  BY DEF Walks, WalkRoot, Stat, OpenDir, traverseTree, ReadDir, VisitNext
<1> SUFFICES ASSUME Fresh' PROVE Synced'
  OBVIOUS
<1>2. Synced /\ RootInv /\ OnePlace(at) /\ pc # "done" /\ NotesInv /\ WatchInv
  BY <1>1 DEF Fresh, SyncInv, IndInv
<1> QED
  BY <1>2, WalkRootSynced, StatSynced, OpenDirSynced, TraverseSynced, ReadDirSynced, VisitNextSynced DEF Walks

LEMMA TakesSynced ==
  ASSUME IndInv, SyncInv, Takes
  PROVE  Fresh' => Synced'
<1> SUFFICES ASSUME Fresh' PROVE Synced'
  OBVIOUS
<1>1. AtEvent /\ pc = "process" /\ WatchInv /\ NotesInv /\ OnePlace(at)
  BY DEF Takes, UnknownWatch, QueueOverflow, NothingToDo, Created, DeletedSelf, MovedWithin, MovedOut,
     HangingMovedFrom, RootMoved, AtEvent, SyncInv, IndInv
<1>2. CASE reinitialize /\ UNCHANGED <<fs, roots, walk>>
  BY <1>1, <1>2, RebuildSynced
<1>3. ASSUME moved' = moved PROVE Synced /\ Ev.mask \in {"CREATE", "Q_OVERFLOW"}
  <2>1. Synced
    BY <1>1, <1>3 DEF Fresh, SyncInv
  <2>2. Ev \in Evs
    BY <1>1, AtEventFacts
  <2> QED
    BY <2>1, <2>2 DEF Synced, OnlyCreated
<1>4. CASE UnknownWatch \/ QueueOverflow
  BY <1>2, <1>4 DEF UnknownWatch, QueueOverflow
<1>5. CASE Created
  <2>1. moved' = moved
    BY <1>5 DEF Created
  <2> QED
    BY <1>1, <1>3, <1>5, <2>1, CreatedSynced
<1>6. CASE NothingToDo \/ DeletedSelf \/ HangingMovedFrom \/ RootMoved
  <2>1. moved' = moved /\ Ev.mask \notin {"CREATE", "Q_OVERFLOW"}
    BY <1>6 DEF NothingToDo, DeletedSelf, HangingMovedFrom, RootMoved
  <2> QED
    BY <1>3, <2>1
<1>7. CASE MovedWithin \/ MovedOut
  <2>1. Ev.mask = "MOVED_FROM" /\ (moved' = moved \/ (reinitialize /\ UNCHANGED <<fs, roots, walk>>))
    BY <1>7 DEF MovedWithin, MovedOut
  <2> QED
    BY <1>2, <1>3, <2>1
<1> QED
  BY <1>4, <1>5, <1>6, <1>7 DEF Takes

LEMMA CommandSynced ==
  ASSUME IndInv, SyncInv, NEW cmd, NEW path, executeCommand(cmd, path)
  PROVE  Fresh' => Synced'
<1>1. pc = "command" /\ UNCHANGED <<fs, roots>>
  BY DEF executeCommand
<1>2. CASE reinitialize /\ UNCHANGED walk
  BY <1>1, <1>2, RebuildSynced
<1>3. CASE moved' = TRUE
  BY <1>3 DEF Fresh
<1>4. CASE UNCHANGED <<inotify, cache, walk, todo, buf, moved>>
  <2>1. Evs' = Evs /\ UNCHANGED <<at, notes, dying, watches, cache, roots, walk, todo>>
    BY <1>1, <1>4 DEF Evs, inotify, fs
  <2>2. Fresh' => Fresh
    BY <1>1, <1>4 DEF Fresh
  <2> QED
    BY <2>1, <2>2, SameSynced DEF SyncInv
<1> QED
  BY <1>2, <1>3, <1>4 DEF executeCommand

LEMMA SyncNext ==
  ASSUME IndInv, SyncInv, [Next]_vars
  PROVE  Fresh' => Synced'
<1>1. CASE Turns
  <2>1. UNCHANGED <<at, notes, dying, watches, cache, roots, walk, todo, buf, queue, moved>> /\ (pc' # "done" => pc # "done")
    BY <1>1 DEF Turns, EndOfBuffer, Timeout, SelectInotify, SelectKeyboard, TimeoutTooEarly, Rest, vars, monitor, fs, inotify
  <2>2. Evs' = Evs /\ (Fresh' => Fresh)
    BY <2>1 DEF Evs, Fresh
  <2> QED
    BY <2>1, <2>2, SameSynced DEF SyncInv
<1>2. CASE ReadEvents \/ ReadMore
  <2>1. pc # "done" /\ moved' = moved
    BY <1>2 DEF ReadEvents, ReadMore
  <2> QED
    BY <1>2, <2>1, ReadSynced DEF IndInv, SyncInv, Fresh
<1>3. ASSUME NEW u \in Users, User(u) \/ Notify(u) PROVE Fresh' => Synced'
  <2>1. pc' = pc /\ (Fresh' => moved' = moved /\ ~ Rmdir(u) /\ ~ Rename(u))
    BY <1>3 DEF User, Mkdir, Rmdir, Rename, Notify, monitor, Fresh
  <2> SUFFICES ASSUME Fresh' PROVE Synced'
    OBVIOUS
  <2>2. Synced /\ OnePlace(at) /\ NotesInv /\ WatchInv
    BY <2>1 DEF Fresh, SyncInv, IndInv
  <2> QED
    BY <1>3, <2>1, <2>2, MkdirSynced, NotifySynced DEF User
<1>4. ASSUME NEW d \in Inodes, Release(d) PROVE Fresh' => Synced'
  <2>1. UNCHANGED <<pc, moved>> /\ d \in dying
    BY <1>4 DEF Release, monitor
  <2> QED
    BY <2>1 DEF Fresh, SyncInv, Synced, OnlyCreated
<1>5. ASSUME NEW c \in Commands, executeCommand(c[1], c[2]) PROVE Fresh' => Synced'
  BY <1>5, CommandSynced
<1> QED
  BY <1>1, <1>2, <1>3, <1>4, <1>5, WalksSynced, TakesSynced, NextCases

\* While directories are only created, wlCache ends up as the tree: each one
\* that nftw() does not come upon on its way has been created where a watch
\* already was, and its event, or the overflow that swallowed it, brings
\* traverseTree() there.
THEOREM CacheInSync == Spec => []InSyncUnlessMoved
<1>1. IndInv /\ SyncInv /\ [Next]_vars => SyncInv'
  BY TreeNext, PlaceNext, SyncNext DEF SyncInv
<1> QED
  BY <1>1, InitSync, IndInvInvariant, SyncedWhenQuiet, PTL DEF Spec

=============================================================================
