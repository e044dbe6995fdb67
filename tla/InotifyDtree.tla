---------------------------- MODULE InotifyDtree ----------------------------
(***************************************************************************)
(* tlpi-book/inotify/inotify_dtree.c: a monitor that keeps a watch on, and *)
(* a cache entry for, every directory of its trees, while other processes  *)
(* create, remove and rename directories.  The monitor learns of the       *)
(* changes from inotify events, which come late; it resolves paths when    *)
(* the tree may have changed again.                                        *)
(***************************************************************************)
EXTENDS Integers, FiniteSets, SequencesExt

CONSTANTS
    Roots,        \* names of the trees that are monitored
    Dirs,         \* directories, apart from the roots
    Names,        \* names of directories
    Start,        \* where each directory is when the monitor starts
    Users,        \* processes that change the trees
    Commands,     \* what may be typed, <<letter, path>>
    MaxOps,       \* bounds the changes
    MaxCommands,  \* bounds the commands
    QueueLimit,   \* max_queued_events of inotify
    ReadSize      \* events that fit into the buffer of a read()

ASSUME InotifyAssumption ==
    /\ IsFiniteSet(Roots \cup Dirs) /\ Roots # {} /\ Roots \cap (Dirs \cup Names) = {}
    /\ {"top", "none", "unused"} \cap (Roots \cup Dirs) = {}
    /\ Start \in [Dirs -> ((Roots \cup Dirs) \X Names) \cup {<<"unused", "unused">>}]
    /\ \A c, d \in Dirs : Start[c] = Start[d] /\ Start[c] # <<"unused", "unused">> => c = d
    /\ MaxOps \in Nat /\ MaxCommands \in Nat
    /\ QueueLimit \in Nat \ {0} /\ ReadSize \in Nat \ {0}

VARIABLES
    at,        \* <<directory, name>> of every directory, or the state of one that has none
    notes,     \* for each process: what fsnotify still has to tell of its last change
    dying,     \* removed directories of which inotify has not been told
    ops,       \* changes so far; also the source of cookies
    watches,   \* inotify: the directory of each watch descriptor
    nextWd,    \* inotify: the next watch descriptor
    queue,     \* inotify: events not yet read
    cache,     \* wlCache: the path of each watch descriptor
    roots,     \* rootDirPaths that have not been zapped
    pc,        \* what the monitor does
    walk,      \* the directories nftw() is in, the innermost last
    todo,      \* roots that reinitialize() has still to walk
    buf,       \* events that were read and not yet processed
    firstTry,  \* firstTry
    isset,     \* FD_ISSET of inotifyFd after the last select()
    typed,     \* commands executed
    late,      \* history: a SIGALRM came before the read() it was to interrupt
    moved      \* history: since the cache was built, something happened that it may miss

fs == <<at, notes, dying, ops>>
inotify == <<watches, nextWd, queue>>
monitor == <<cache, roots, pc, walk, todo, buf, firstTry, isset, typed>>
vars == <<fs, inotify, monitor, late, moved>>

-----------------------------------------------------------------------------
(* The file system.  Top holds the roots; what is moved there otherwise    *)
(* is outside the trees.                                                   *)

Top == "top"
Nowhere == <<"none", "none">>
Unused == <<"unused", "unused">>
Inodes == Roots \cup Dirs
Existing == {Top} \cup {d \in Inodes : at[d] \notin {Nowhere, Unused}}
Child(d, n) == {c \in Inodes : at[c] = <<d, n>>}
NamesIn(d) == {at[c][2] : c \in {c \in Inodes : at[c][1] = d}}

\* The directory a path leads to, as a set with at most one element.
Resolve(path) ==
    LET dirs[k \in 0 .. Len(path)] ==
          IF k = 0 THEN {Top} ELSE UNION {Child(d, path[k]) : d \in dirs[k - 1]}
    IN  dirs[Len(path)]
Below == UNION {[1 .. k -> Names] : k \in 0 .. Cardinality(Inodes) - 1}
Paths == UNION {{<<r>> \o s : s \in Below} : r \in Roots}
Under(prefix, path) == Len(prefix) <= Len(path) /\ SubSeq(path, 1, Len(prefix)) = prefix

\* d is not in the subtree of e.
Apart(d, e) ==
    \A p \in {<<n>> \o s : n \in Roots \cup Names, s \in Below} :
        d \in Resolve(p) => \A k \in DOMAIN p : e \notin Resolve(SubSeq(p, 1, k))

Idle(u) == notes[u] = << >> /\ dying \cap {d \in Inodes : \A k \in DOMAIN walk : walk[k].dir # d} = {}
CanChange(u) == Idle(u) /\ ops < MaxOps /\ ops' = ops + 1

Mkdir(u) ==
    /\ CanChange(u)
    /\ \E p \in Inodes, n \in Names, d \in Dirs :
         /\ p \in Existing /\ Child(p, n) = {} /\ at[d] = Unused
         /\ at' = [at EXCEPT ![d] = <<p, n>>]
         /\ notes' = [notes EXCEPT ![u] = << [mask |-> "CREATE", dir |-> p, name |-> n, cookie |-> 0] >>]
    /\ UNCHANGED <<dying, inotify, monitor, late, moved>>

Rmdir(u) ==
    /\ CanChange(u)
    /\ \E d \in Inodes :
         /\ d \in Existing /\ NamesIn(d) = {}
         /\ at' = [at EXCEPT ![d] = Nowhere]
         /\ dying' = dying \cup {d}
    /\ moved' = TRUE
    /\ UNCHANGED <<notes, inotify, monitor, late>>

\* Also into the trees and out of them, and of a root.
Rename(u) ==
    /\ CanChange(u)
    /\ \E d \in Inodes, p \in Inodes \cup {Top}, n \in Names :
         /\ {d, p} \subseteq Existing /\ Child(p, n) = {} /\ p # d /\ Apart(p, d)
         /\ at' = [at EXCEPT ![d] = <<p, n>>]
         /\ notes' = [notes EXCEPT ![u] =
              << [mask |-> "MOVED_FROM", dir |-> at[d][1], name |-> at[d][2], cookie |-> ops + 1],
                 [mask |-> "MOVED_TO", dir |-> p, name |-> n, cookie |-> ops + 1],
                 [mask |-> "MOVE_SELF", dir |-> d, name |-> "", cookie |-> 0] >>]
    /\ moved' = TRUE
    /\ UNCHANGED <<dying, inotify, monitor, late>>

-----------------------------------------------------------------------------
(* inotify.  An event that repeats the last one is merged with it (those   *)
(* that come together differ); when the queue is full, one event says so   *)
(* and the others are lost.                                                *)

Overflow == [mask |-> "Q_OVERFLOW", wd |-> -1, name |-> "", cookie |-> 0]
Event(mask, wd, name, cookie) == [mask |-> mask, wd |-> wd, name |-> name, cookie |-> cookie]
MarkFull(q) == IF q[Len(q)] = Overflow THEN q ELSE Append(q, Overflow)
QueuedAll(q, es) ==
    LET room == QueueLimit - Len(q)
    IN  IF Len(es) <= room THEN q \o es ELSE MarkFull(q \o SubSeq(es, 1, room))
Queued(q, e) == IF q # << >> /\ q[Len(q)] = e THEN q ELSE QueuedAll(q, << e >>)

WdOf(d) == {w \in DOMAIN watches : watches[w].dir = d}

\* fsnotify tells the watch on the directory, if there is one, of the event.
Notify(u) ==
    /\ notes[u] # << >>
    /\ LET e == Head(notes[u])
           told == {w \in WdOf(e.dir) : e.mask # "MOVE_SELF" \/ watches[w].self}
       IN  queue' = IF told = {} THEN queue
                    ELSE Queued(queue, Event(e.mask, CHOOSE w \in told : TRUE, e.name, e.cookie))
    /\ notes' = [notes EXCEPT ![u] = Tail(@)]
    /\ UNCHANGED <<at, dying, ops, watches, nextWd, monitor, late, moved>>

\* A removed directory goes when nobody has it open: nftw() may have.
Release(d) ==
    /\ d \in dying
    /\ \A k \in DOMAIN walk : walk[k].dir # d
    /\ dying' = dying \ {d}
    /\ LET w == CHOOSE w \in WdOf(d) : TRUE
       IN  queue' = IF WdOf(d) = {} THEN queue
                    ELSE QueuedAll(queue, << Event("DELETE_SELF", w, "", 0), Event("IGNORED", w, "", 0) >>)
    /\ watches' = Restrict(watches, DOMAIN watches \ WdOf(d))
    /\ UNCHANGED <<at, notes, ops, nextWd, monitor, late, moved>>

-----------------------------------------------------------------------------
(* nftw() and traverseTree(): a directory is looked up by its path, opened,*)
(* watched, listed, and its subdirectories are visited, again by path.     *)

NoDir == "none"
None == [w \in {} |-> 0]
With(f, wd, v) == [w \in DOMAIN f \cup {wd} |-> IF w = wd THEN v ELSE f[w]]
Frame(path) == [path |-> path, stage |-> "stat", dir |-> NoDir, kids |-> {}]
Walking == walk # << >> \/ todo # {}
Inner == walk[Len(walk)]
Outer == SubSeq(walk, 1, Len(walk) - 1)
Restage(frame) == walk' = Append(Outer, frame)
isRootDirPath(path) == path \in {<<r>> : r \in roots}

WalkRoot ==
    /\ walk = << >>
    /\ \E r \in todo : walk' = << Frame(<<r>>) >> /\ todo' = todo \ {r}
    /\ UNCHANGED <<fs, inotify, cache, roots, pc, buf, firstTry, isset, typed, late, moved>>

\* A directory that is not found is skipped; one that goes before it is
\* opened ends the walk.
Stat ==
    /\ walk # << >> /\ Inner.stage = "stat"
    /\ IF Resolve(Inner.path) = {} THEN walk' = Outer ELSE Restage([Inner EXCEPT !.stage = "open"])
    /\ UNCHANGED <<fs, inotify, cache, roots, pc, todo, buf, firstTry, isset, typed, late, moved>>

OpenDir ==
    /\ walk # << >> /\ Inner.stage = "open"
    /\ IF Resolve(Inner.path) = {} THEN walk' = << >>
       ELSE \E d \in Resolve(Inner.path) : Restage([Inner EXCEPT !.stage = "watch", !.dir = d])
    /\ UNCHANGED <<fs, inotify, cache, roots, pc, todo, buf, firstTry, isset, typed, late, moved>>

\* inotify_add_watch() of a directory that is watched returns its descriptor.
traverseTree ==
    /\ walk # << >> /\ Inner.stage = "watch"
    /\ IF Resolve(Inner.path) = {} THEN UNCHANGED <<watches, nextWd, cache>>
       ELSE \E d \in Resolve(Inner.path) :
              LET wd == IF WdOf(d) = {} THEN nextWd ELSE CHOOSE w \in WdOf(d) : TRUE
              IN  /\ watches' = With(watches, wd, [dir |-> d, self |-> isRootDirPath(Inner.path)])
                  /\ nextWd' = IF wd = nextWd THEN nextWd + 1 ELSE nextWd
                  /\ cache' = IF wd \in DOMAIN cache THEN cache ELSE With(cache, wd, Inner.path)
    /\ Restage([Inner EXCEPT !.stage = "list"])
    /\ UNCHANGED <<fs, queue, roots, pc, todo, buf, firstTry, isset, typed, late, moved>>

ReadDir ==
    /\ walk # << >> /\ Inner.stage = "list"
    /\ Restage([Inner EXCEPT !.stage = "kids", !.kids = NamesIn(Inner.dir)])
    /\ UNCHANGED <<fs, inotify, cache, roots, pc, todo, buf, firstTry, isset, typed, late, moved>>

VisitNext ==
    /\ walk # << >> /\ Inner.stage = "kids"
    /\ IF Inner.kids = {} THEN walk' = Outer
       ELSE \E n \in Inner.kids :
              walk' = Outer \o << [Inner EXCEPT !.kids = @ \ {n}], Frame(Append(Inner.path, n)) >>
    /\ UNCHANGED <<fs, inotify, cache, roots, pc, todo, buf, firstTry, isset, typed, late, moved>>

-----------------------------------------------------------------------------
(* The cache. *)

Cached(path) == {w \in DOMAIN cache : cache[w] = path}
Subtree(path) == {w \in DOMAIN cache : Under(path, cache[w])}

\* Mistake: only the first tree is walked again.
reinitializeFirstRoot ==
    /\ watches' = None /\ nextWd' = 1 /\ queue' = << >>
    /\ cache' = None
    /\ todo' = {CHOOSE r \in roots : TRUE}
    /\ buf' = << >> /\ firstTry' = TRUE
    /\ moved' = (dying # {} \/ \E u \in Users : notes[u] # << >>)

\* A new inotify descriptor; the events of the old one, also those that have
\* been read, are gone.
reinitialize ==
    /\ watches' = None /\ nextWd' = 1 /\ queue' = << >>
    /\ cache' = None
    /\ todo' = roots
    /\ buf' = << >> /\ firstTry' = TRUE
    /\ moved' = (dying # {} \/ \E u \in Users : notes[u] # << >>)

\* Mistake: the watches are not removed.
ZapCacheOnly(slots) ==
    /\ cache' = Restrict(cache, DOMAIN cache \ slots)
    /\ UNCHANGED inotify

\* Of the slots in the set, those with a watch are zapped.
Zap(slots) ==
    /\ watches' = Restrict(watches, DOMAIN watches \ slots)
    /\ \E order \in SetToSeqs(slots) :
         queue' = QueuedAll(queue, [i \in DOMAIN order |-> Event("IGNORED", order[i], "", 0)])
    /\ cache' = Restrict(cache, DOMAIN cache \ slots)
    /\ UNCHANGED nextWd
\* inotify_rm_watch() fails for a watch that went with its directory.
zapSubtreeFails(path) == ~ Subtree(path) \subseteq DOMAIN watches

rewriteCachedPaths(old, new) ==
    cache' = [w \in DOMAIN cache |->
                IF Under(old, cache[w]) THEN new \o SubSeq(cache[w], Len(old) + 1, Len(cache[w])) ELSE cache[w]]

\* Leaves when no root is left.
zapRootDirPath(path) ==
    /\ roots' = roots \ {path[1]}
    /\ pc' = IF roots' = {} THEN "done" ELSE pc

-----------------------------------------------------------------------------
(* processNextInotifyEvent(). *)

Ev == Head(buf)
FullPath == Append(cache[Ev.wd], Ev.name)
AtEvent == pc = "process" /\ ~ Walking /\ buf # << >>
Known == Ev.wd \in DOMAIN cache
Processed(n) == buf' = SubSeq(buf, n + 1, Len(buf)) /\ firstTry' = TRUE

UnknownWatch ==
    /\ AtEvent /\ Ev.wd # -1 /\ Ev.mask # "IGNORED" /\ ~ Known
    /\ reinitialize
    /\ UNCHANGED <<fs, roots, pc, walk, isset, typed, late>>

QueueOverflow ==
    /\ AtEvent /\ Ev.mask = "Q_OVERFLOW"
    /\ reinitialize
    /\ UNCHANGED <<fs, roots, pc, walk, isset, typed, late>>

NothingToDo ==
    /\ AtEvent
    /\ Ev.mask = "IGNORED" \/ (Known /\ Ev.mask = "MOVE_SELF" /\ ~ isRootDirPath(cache[Ev.wd]))
    /\ Processed(1)
    /\ UNCHANGED <<fs, inotify, cache, roots, pc, walk, todo, isset, typed, late, moved>>

Created ==
    /\ AtEvent /\ Known /\ Ev.mask \in {"CREATE", "MOVED_TO"}
    /\ walk' = IF Cached(FullPath) = {} THEN << Frame(FullPath) >> ELSE << >>
    /\ Processed(1)
    /\ UNCHANGED <<fs, inotify, cache, roots, pc, todo, isset, typed, late, moved>>

\* Mistake: the slot of a directory that is not a root is kept.
DeletedSelfKeepsSlot ==
    /\ AtEvent /\ Known /\ Ev.mask = "DELETE_SELF"
    /\ IF isRootDirPath(cache[Ev.wd])
       THEN /\ zapRootDirPath(cache[Ev.wd])
            /\ cache' = Restrict(cache, DOMAIN cache \ {Ev.wd})
       ELSE UNCHANGED <<cache, roots, pc>>
    /\ Processed(1)
    /\ UNCHANGED <<fs, inotify, walk, todo, isset, typed, late, moved>>

DeletedSelf ==
    /\ AtEvent /\ Known /\ Ev.mask = "DELETE_SELF"
    /\ IF isRootDirPath(cache[Ev.wd]) THEN zapRootDirPath(cache[Ev.wd]) ELSE UNCHANGED <<roots, pc>>
    /\ cache' = Restrict(cache, DOMAIN cache \ {Ev.wd})
    /\ Processed(1)
    /\ UNCHANGED <<fs, inotify, walk, todo, isset, typed, late, moved>>

\* The next event, if there is one, is the other half of the rename.
Paired == Len(buf) > 1 /\ buf[2].mask = "MOVED_TO" /\ buf[2].cookie = Ev.cookie
Alone == Len(buf) > 1 \/ ~ firstTry

MovedWithin ==
    /\ AtEvent /\ Known /\ Ev.mask = "MOVED_FROM" /\ Paired
    /\ IF buf[2].wd \in DOMAIN cache
       THEN /\ rewriteCachedPaths(FullPath, Append(cache[buf[2].wd], buf[2].name))
            /\ Processed(2)
            /\ UNCHANGED <<inotify, todo, moved>>
       ELSE reinitialize
    /\ UNCHANGED <<fs, roots, pc, walk, isset, typed, late>>

MovedOut ==
    /\ AtEvent /\ Known /\ Ev.mask = "MOVED_FROM" /\ ~ Paired /\ Alone
    /\ IF zapSubtreeFails(FullPath) THEN reinitialize
       ELSE Zap(Subtree(FullPath)) /\ Processed(1) /\ UNCHANGED <<todo, moved>>
    /\ UNCHANGED <<fs, roots, pc, walk, isset, typed, late>>

\* The caller is to read more.
HangingMovedFrom ==
    /\ AtEvent /\ Known /\ Ev.mask = "MOVED_FROM" /\ ~ Paired /\ ~ Alone
    /\ pc' = "more"
    /\ UNCHANGED <<fs, inotify, cache, roots, walk, todo, buf, firstTry, isset, typed, late, moved>>

RootMoved ==
    /\ AtEvent /\ Known /\ Ev.mask = "MOVE_SELF" /\ isRootDirPath(cache[Ev.wd])
    /\ zapRootDirPath(cache[Ev.wd])
    /\ IF pc' = "done" THEN UNCHANGED <<inotify, cache, buf, firstTry, todo, moved>>
       ELSE IF zapSubtreeFails(cache[Ev.wd])
       THEN /\ watches' = None /\ nextWd' = 1 /\ queue' = << >> /\ cache' = None /\ todo' = roots'
            /\ buf' = << >> /\ firstTry' = TRUE /\ UNCHANGED moved
       ELSE Zap(Subtree(cache[Ev.wd])) /\ Processed(1) /\ UNCHANGED <<todo, moved>>
    /\ UNCHANGED <<fs, walk, isset, typed, late>>

-----------------------------------------------------------------------------
(* processInotifyEvents(), executeCommand() and the loop of main(). *)

ReadUpTo(n) ==
    LET k == IF n < Len(queue) THEN n ELSE Len(queue)
    IN  buf' = buf \o SubSeq(queue, 1, k) /\ queue' = SubSeq(queue, k + 1, Len(queue))

ReadEvents ==
    /\ pc = "read" /\ ~ Walking /\ queue # << >>
    /\ ReadUpTo(ReadSize)
    /\ firstTry' = TRUE
    /\ pc' = "process"
    /\ UNCHANGED <<fs, watches, nextWd, cache, roots, walk, todo, isset, typed, late, moved>>

EndOfBuffer ==
    /\ pc = "process" /\ ~ Walking /\ buf = << >>
    /\ pc' = "select"
    /\ UNCHANGED <<fs, inotify, cache, roots, walk, todo, buf, firstTry, isset, typed, late, moved>>

\* The second read() behind a hanging IN_MOVED_FROM, and its timeout.
ReadMore ==
    /\ pc \in {"more", "blocked"} /\ queue # << >>
    /\ ReadUpTo(ReadSize)
    /\ firstTry' = FALSE
    /\ pc' = "process"
    /\ UNCHANGED <<fs, watches, nextWd, cache, roots, walk, todo, isset, typed, late, moved>>

\* Mistake: the next look at the event is a first try again.
TimeoutForgotten ==
    /\ pc = "more" /\ queue = << >>
    /\ pc' = "process"
    /\ UNCHANGED <<fs, inotify, cache, roots, walk, todo, buf, firstTry, isset, typed, late, moved>>

Timeout ==
    /\ pc = "more" /\ queue = << >>
    /\ firstTry' = FALSE
    /\ pc' = "process"
    /\ UNCHANGED <<fs, inotify, cache, roots, walk, todo, buf, isset, typed, late, moved>>

\* The signal comes between ualarm() and read(): nothing interrupts the read().
TimeoutTooEarly ==
    /\ pc = "more"
    /\ pc' = "blocked"
    /\ late' = TRUE
    /\ UNCHANGED <<fs, inotify, cache, roots, walk, todo, buf, firstTry, isset, typed, moved>>

SelectInotify ==
    /\ pc = "select" /\ ~ Walking /\ queue # << >>
    /\ pc' = "read"
    /\ UNCHANGED <<fs, inotify, cache, roots, walk, todo, buf, firstTry, isset, typed, late, moved>>

SelectKeyboard ==
    /\ pc = "select" /\ ~ Walking /\ typed < MaxCommands
    /\ pc' = "command"
    /\ isset' = (queue # << >>)
    /\ typed' = typed + 1
    /\ UNCHANGED <<fs, inotify, cache, roots, walk, todo, buf, firstTry, late, moved>>

\* The descriptor of a rebuilt cache has the number of the old one, and its
\* FD_ISSET.
Back == IF isset THEN "read" ELSE "select"
\* zapSubtree() stops where inotify_rm_watch() fails: some slots are zapped.
ZapCommand(path) ==
    \E slots \in SUBSET (Subtree(path) \cap DOMAIN watches) :
        /\ zapSubtreeFails(path) \/ slots = Subtree(path)
        /\ Zap(slots)

executeCommand(cmd, path) ==
    /\ pc = "command"
    /\ \/ /\ cmd = "a" /\ ZapCommand(path) /\ walk' = << Frame(path) >>
          /\ pc' = Back /\ moved' = TRUE /\ UNCHANGED <<todo, buf, firstTry>>
       \/ /\ cmd = "z" /\ ZapCommand(path)
          /\ pc' = Back /\ moved' = TRUE /\ UNCHANGED <<walk, todo, buf, firstTry>>
       \/ /\ cmd = "0" /\ reinitialize
          /\ pc' = Back /\ UNCHANGED walk
       \/ /\ cmd = "q"
          /\ pc' = "done" /\ UNCHANGED <<inotify, cache, walk, todo, buf, firstTry, moved>>
       \/ /\ cmd = "l"                       \* and the others that only report
          /\ pc' = Back /\ UNCHANGED <<inotify, cache, walk, todo, buf, firstTry, moved>>
    /\ UNCHANGED <<fs, roots, isset, typed, late>>

-----------------------------------------------------------------------------

Init ==
    /\ at = [d \in Inodes |-> IF d \in Roots THEN <<Top, d>> ELSE Start[d]]
    /\ notes = [u \in Users |-> << >>] /\ dying = {} /\ ops = 0
    /\ watches = None /\ nextWd = 1 /\ queue = << >>
    /\ cache = None /\ roots = Roots /\ pc = "select" /\ walk = << >> /\ todo = Roots
    /\ buf = << >> /\ firstTry = TRUE /\ isset = FALSE /\ typed = 0
    /\ late = FALSE /\ moved = FALSE

Monitor ==
    \/ WalkRoot \/ Stat \/ OpenDir \/ traverseTree \/ ReadDir \/ VisitNext
    \/ UnknownWatch \/ QueueOverflow \/ NothingToDo \/ Created \/ DeletedSelf
    \/ MovedWithin \/ MovedOut \/ HangingMovedFrom \/ RootMoved
    \/ ReadEvents \/ EndOfBuffer \/ ReadMore \/ Timeout \/ SelectInotify
    \/ \E c \in Commands : executeCommand(c[1], c[2])

User(u) == Mkdir(u) \/ Rmdir(u) \/ Rename(u)

Rest == /\ pc \in {"done", "select", "read", "blocked"} /\ UNCHANGED vars

Next ==
    \/ Monitor
    \/ SelectKeyboard \/ TimeoutTooEarly
    \/ \E u \in Users : User(u) \/ Notify(u)
    \/ \E d \in Inodes : Release(d)
    \/ Rest

\* The monitor is scheduled and its alarm goes off, and a system call that
\* changes the tree completes.
Spec ==
    /\ Init /\ [][Next]_vars
    /\ WF_vars(Monitor)
    /\ \A u \in Users : WF_vars(Notify(u))
    /\ \A d \in Inodes : WF_vars(Release(d))

-----------------------------------------------------------------------------
(* Properties. *)

\* Every watch has its cache entry: no event comes of a watch the monitor
\* set and forgot, which would make it rebuild the cache for nothing.
WatchesCached == pc # "done" => DOMAIN watches \subseteq DOMAIN cache

\* A cache entry whose watch went with its directory does not stay: the
\* event that tells so, or one that makes the cache be rebuilt, is on the way.
StaleEntriesFound ==
    pc # "done" =>
        \A w \in DOMAIN cache \ DOMAIN watches :
            \E e \in Range(buf) \cup Range(queue) :
                \/ e.wd = w /\ e.mask = "DELETE_SELF"
                \/ e.mask = "Q_OVERFLOW"

Quiet ==
    /\ pc = "select" /\ ~ Walking /\ queue = << >> /\ dying = {}
    /\ \A u \in Users : notes[u] = << >>
InSync ==
    /\ \A p \in Paths : p[1] \in roots /\ Resolve(p) # {} => \E w \in DOMAIN cache : cache[w] = p
    /\ \A w \in DOMAIN cache :
         cache[w][1] \in roots /\ w \in DOMAIN watches /\ watches[w].dir \in Resolve(cache[w])

\* When all events have been processed the cache is the tree, as long as
\* directories have only been created since it was built: none is missed
\* between the watch on its parent and the listing of the parent, and none
\* is lost when the queue overflows.
InSyncUnlessMoved == Quiet /\ ~ moved => InSync

\* Events are read and processed, whatever comes first: the other half of a
\* rename, the timeout or a rebuild.
EventsProcessed ==
    <>[](pc = "done" \/ late \/ (queue = << >> /\ buf = << >> /\ ~ Walking))

=============================================================================
