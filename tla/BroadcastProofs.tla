--------------------------- MODULE BroadcastProofs --------------------------
(***************************************************************************)
(* What homework/hw10/program.c and test/program.c guarantee for every     *)
(* number of messages, children and cells, although nothing synchronizes   *)
(* the children with the parent and a text is stored and loaded piece by   *)
(* piece: each piece that a child loads of a cell was sent through that    *)
(* cell, the statistics are final, and the children never count more than  *)
(* was sent.                                                               *)
(*                                                                         *)
(* For the last, each child has an account of the messages it was told of, *)
(* less what its pending signal and its running handler may still add.     *)
(* Accounts never shrink, and shared_count[0], also the copies of it that  *)
(* the handlers hold, is never above their sum.                            *)
(***************************************************************************)
EXTENDS Broadcast, FiniteSetTheorems, TLAPS

TypeOK ==
    /\ program \in {"hw10", "test"}
    /\ ppc \in {"fork", "batch", "copy", "tell", "term", "wait", "stats", "failed"}
    /\ i \in Nat
    /\ num_of_data \in 0..M
    /\ batch_size \in 0..B
    /\ copied \subseteq Parts
    /\ addr \in [Cells -> [Parts -> Int]]
    /\ received \in Nat
    /\ num_batch \in 0..B
    /\ cpc \in [Children -> {"unborn", "pause", "print", "store", "exited"}]
    /\ usr1 \subseteq Children
    /\ term \subseteq Children
    /\ local \in [Children -> [n : 0..B, j : 0..B, copy : Nat]]
    /\ text \in [Children -> [Parts -> Int]]

\* The parent's loops, and what shared_count[1] is: the size of the batch that
\* is being sent, and less than a full buffer only for the last one.
LoopInv ==
    /\ ppc \in {"fork", "tell", "term", "wait"} => i \in 1..N
    /\ ppc = "copy" =>
         /\ i \in 0..batch_size
         /\ num_batch = batch_size /\ batch_size > 0
         /\ num_of_data + batch_size <= M
    /\ ppc = "tell" => num_batch = batch_size /\ batch_size > 0 /\ batch_size <= num_of_data
    /\ \/ num_batch = B
       \/ num_of_data = M
       \/ ppc = "copy" /\ num_of_data + batch_size = M
    /\ copied # {} => ppc = "copy" /\ i < batch_size

Sent(k) == \A p \in Parts : addr[k][p] # NoMessage

\* Cells that a handler may print have been filled.
FilledInv ==
    /\ num_of_data > 0 => \A k \in 0..(num_batch - 1) : Sent(k)
    /\ ppc = "copy" => \A k \in 0..(i - 1) : Sent(k)
    /\ \A p \in copied : addr[i][p] # NoMessage
    /\ usr1 # {} => num_of_data > 0
    /\ \A c \in Children :
         cpc[c] \in {"print", "store"} =>
             local[c].j <= local[c].n /\ \A k \in 0..(local[c].n - 1) : Sent(k)

\* Where the parts in the buffer and those that a printf() has loaded come
\* from.  Full batches begin at the multiples of B.
OriginInv ==
    /\ ppc = "fork" => \A c \in i..N : cpc[c] = "unborn"
    /\ num_of_data = M \/ \E q \in 0..M : num_of_data = q * B
    /\ \A k \in Cells, p \in Parts : addr[k][p] # NoMessage => SentThrough(k, addr[k][p])
    /\ \A c \in Children, p \in Parts :
         text[c][p] # Unread =>
             /\ cpc[c] \in {"print", "exited"} /\ local[c].j < local[c].n
             /\ SentThrough(local[c].j, text[c][p])

\* The children that the parent has waited for.
ExitInv ==
    /\ ppc = "wait" \/ (ppc = "term" /\ program = "hw10") => \A c \in 1..(i - 1) : cpc[c] = "exited"
    /\ ppc = "stats" => \A c \in Children : cpc[c] = "exited"

Told(c) == IF ppc = "tell" /\ i <= c THEN num_of_data - batch_size ELSE num_of_data
Pending(c) == IF c \in usr1 THEN num_batch ELSE 0
InHandler(c) == IF cpc[c] \in {"print", "store"} THEN local[c].n ELSE 0
Account(c) == Told(c) - Pending(c) - InHandler(c)

\* The sum of the accounts is the number of elements of this set.
Accounts == {x \in Children \X (0..(M - 1)) : x[2] < Account(x[1])}

CountInv ==
    /\ \A c \in Children : Account(c) >= 0
    /\ received <= Cardinality(Accounts)
    /\ \A c \in Children : cpc[c] = "store" =>
         local[c].j = local[c].n /\ local[c].copy <= Cardinality(Accounts)

IndInv == TypeOK /\ LoopInv /\ FilledInv /\ OriginInv /\ ExitInv /\ CountInv

-----------------------------------------------------------------------------

LEMMA InitIndInv == Init => IndInv
<1> SUFFICES ASSUME Init PROVE IndInv
  OBVIOUS
<1> USE ArgumentsAssumption DEF Init, Children, Cells, NoMessage
<1>1. TypeOK
  BY DEF TypeOK, NothingRead, Unread
<1>2. LoopInv /\ FilledInv /\ ExitInv
  BY DEF LoopInv, FilledInv, ExitInv, Sent
<1>6. OriginInv
  <2>2. \A c \in i..N : cpc[c] = "unborn"
    OBVIOUS
  <2>1. \E q \in 0..M : num_of_data = q * B
    <3>1. 0 \in 0..M /\ 0 = 0 * B
      OBVIOUS
    <3> QED
      BY <3>1
  <2> QED
    BY <2>1, <2>2 DEF OriginInv, NothingRead
<1>3. ASSUME NEW c \in Children PROVE Account(c) = 0
  <2>1. Told(c) = 0 /\ Pending(c) = 0 /\ InHandler(c) = 0
    BY DEF Told, Pending, InHandler
  <2> QED
    BY <2>1 DEF Account
<1>4. Accounts = {}
  <2>1. \A x \in Children \X (0..(M - 1)) : x[1] \in Children /\ x[2] \in Nat
    OBVIOUS
  <2>2. \A x \in Children \X (0..(M - 1)) : ~ (x[2] < Account(x[1]))
    BY <1>3, <2>1
  <2> QED
    BY <2>2 DEF Accounts
<1>5. CountInv
  BY <1>3, <1>4, FS_EmptySet DEF CountInv
<1> QED
  BY <1>1, <1>2, <1>5, <1>6 DEF IndInv

(* The parent's steps but Fork, and the handlers' steps, one by one. *)

LEMMA TypeNext == IndInv /\ [Next]_vars => TypeOK'
<1> SUFFICES ASSUME TypeOK, LoopInv, FilledInv, [Next]_vars PROVE TypeOK'
  BY DEF IndInv
<1> USE ArgumentsAssumption DEF TypeOK, parentVars, childVars
<1>1. CASE Fork
  <2>1. cpc' \in [Children -> {"unborn", "pause", "print", "store", "exited"}]
    BY <1>1 DEF Fork
  <2>2. i' \in Nat /\ ppc' \in {"batch", "fork"}
    BY <1>1 DEF Fork
  <2> QED
    BY <1>1, <2>1, <2>2 DEF Fork
<1>2. CASE ForkFails
  BY <1>2 DEF ForkFails
<1>3. CASE Batch
  <2>1. batch_size' \in 0..B
    BY <1>3 DEF Batch
  <2>2. num_batch' \in 0..B
    BY <1>3, <2>1 DEF Batch
  <2> QED
    BY <1>3, <2>1, <2>2 DEF Batch
<1>4. ASSUME NEW p \in Parts, Copy(p) PROVE TypeOK'
  <2>1. i \in Cells /\ num_of_data + i \in Int /\ i' \in Nat /\ copied' \subseteq Parts
    BY <1>4 DEF Copy, Cells
  <2>2. addr' \in [Cells -> [Parts -> Int]]
    BY <1>4, <2>1 DEF Copy
  <2> QED
    BY <1>4, <2>1, <2>2 DEF Copy
<1>5. CASE EndCopy
  BY <1>5 DEF EndCopy, LoopInv
<1>6. CASE Tell
  BY <1>6 DEF Tell, LoopInv, Children
<1>7. CASE EndOfData
  BY <1>7 DEF EndOfData
<1>8. CASE Term
  <2>1. i' \in Nat /\ ppc' \in {"wait", "term"}
    BY <1>8 DEF Term
  <2>2. term' \subseteq Children
    BY <1>8 DEF Term, LoopInv, Children
  <2> QED
    BY <1>8, <2>1, <2>2 DEF Term
<1>9. CASE Wait
  BY <1>9 DEF Wait
<1>10. ASSUME NEW c \in Children, HandlerStart(c) PROVE TypeOK'
  <2>1. [n |-> num_batch, j |-> 0, copy |-> 0] \in [n : 0..B, j : 0..B, copy : Nat]
    OBVIOUS
  <2>2. local' \in [Children -> [n : 0..B, j : 0..B, copy : Nat]]
    BY <1>10, <2>1 DEF HandlerStart
  <2> QED
    BY <1>10, <2>2 DEF HandlerStart
<1>11. ASSUME NEW c \in Children, HandlerPrint(c) PROVE TypeOK'
  <2>1. local[c].j \in 0..B /\ local[c].n \in 0..B /\ local[c].j < local[c].n
    BY <1>11 DEF HandlerPrint
  <2>2. local[c].j + 1 \in 0..B
    BY <2>1
  <2>3. local' \in [Children -> [n : 0..B, j : 0..B, copy : Nat]]
    BY <1>11, <2>2 DEF HandlerPrint
  <2>5. text' \in [Children -> [Parts -> Int]]
    BY <1>11 DEF HandlerPrint, NothingRead, Unread
  <2> QED
    BY <1>11, <2>3, <2>5 DEF HandlerPrint
<1>16. ASSUME NEW c \in Children, NEW p \in Parts, HandlerRead(c, p) PROVE TypeOK'
  <2>1. local[c].j \in Cells
    BY <1>16 DEF HandlerRead, Cells
  <2>2. text' \in [Children -> [Parts -> Int]]
    BY <1>16, <2>1 DEF HandlerRead
  <2> QED
    BY <1>16, <2>2 DEF HandlerRead
<1>12. ASSUME NEW c \in Children, HandlerLoad(c) PROVE TypeOK'
  BY <1>12 DEF HandlerLoad
<1>13. ASSUME NEW c \in Children, HandlerStore(c) PROVE TypeOK'
  BY <1>13 DEF HandlerStore
<1>14. ASSUME NEW c \in Children, ExitHandler(c) PROVE TypeOK'
  BY <1>14 DEF ExitHandler
<1>15. CASE UNCHANGED vars
  BY <1>15 DEF vars
<1> QED
  BY <1>1, <1>2, <1>3, <1>4, <1>5, <1>6, <1>7, <1>8, <1>9, <1>10, <1>11, <1>12, <1>13, <1>14, <1>15, <1>16
     DEF Next, ParentStep, ChildStep, Terminating

LEMMA LoopNext == IndInv /\ [Next]_vars => LoopInv'
<1> SUFFICES ASSUME TypeOK, LoopInv, [Next]_vars PROVE LoopInv'
  BY DEF IndInv
<1> USE ArgumentsAssumption DEF TypeOK, LoopInv, parentVars, childVars
<1>1. CASE Fork
  BY <1>1 DEF Fork
<1>2. CASE ForkFails
  BY <1>2 DEF ForkFails
<1>3. CASE Batch
  BY <1>3 DEF Batch
<1>4. ASSUME NEW p \in Parts, Copy(p) PROVE LoopInv'
  BY <1>4 DEF Copy
<1>5. CASE EndCopy
  BY <1>5 DEF EndCopy
<1>6. CASE Tell
  BY <1>6 DEF Tell
<1>7. CASE EndOfData
  BY <1>7 DEF EndOfData
<1>8. CASE Term
  BY <1>8 DEF Term
<1>9. CASE Wait
  BY <1>9 DEF Wait
<1>10. ASSUME NEW c \in Children, ChildStep(c) PROVE UNCHANGED parentVars
  BY <1>10 DEF ChildStep, HandlerStart, HandlerRead, HandlerPrint, HandlerLoad, HandlerStore, ExitHandler
<1>11. CASE UNCHANGED parentVars
  BY <1>11
<1> QED
  BY <1>1, <1>2, <1>3, <1>4, <1>5, <1>6, <1>7, <1>8, <1>9, <1>10, <1>11
     DEF Next, ParentStep, Terminating, vars

\* Once filled, a cell stays filled.
LEMMA CellsStayFilled ==
  ASSUME IndInv, [Next]_vars, NEW k \in Cells, Sent(k)
  PROVE  Sent(k)'
<1>1. ASSUME NEW p \in Parts, Copy(p) PROVE Sent(k)'
  <2>1. i \in Cells /\ num_of_data + i # NoMessage
    BY <1>1, ArgumentsAssumption DEF Copy, IndInv, TypeOK, LoopInv, NoMessage, Cells
  <2>2. \A r \in Parts : addr'[k][r] \in {addr[k][r], num_of_data + i}
    BY <1>1, <2>1 DEF Copy, IndInv, TypeOK
  <2> QED
    BY <2>1, <2>2 DEF Sent
<1>2. CASE UNCHANGED addr
  BY <1>2 DEF Sent
<1> QED
  BY <1>1, <1>2 DEF Next, ParentStep, ChildStep, Terminating, vars, parentVars, Fork, ForkFails, Batch,
     EndCopy, Tell, EndOfData, Term, Wait, HandlerStart, HandlerRead, HandlerPrint, HandlerLoad, HandlerStore, ExitHandler

LEMMA FilledNext == IndInv /\ [Next]_vars => FilledInv'
<1> SUFFICES ASSUME IndInv, [Next]_vars PROVE FilledInv'
  OBVIOUS
<1> USE ArgumentsAssumption DEF IndInv
<1>1. TypeOK' /\ LoopInv'
  BY TypeNext, LoopNext
<1>2. \A k \in Cells : Sent(k) => Sent(k)'
  BY CellsStayFilled
\* What the first batch has filled is all that shared_count[1] ever covers.
<1>3. num_of_data' > 0 => \A k \in 0..(num_batch' - 1) : Sent(k)'
  <2>1. CASE EndCopy
    <3>1. \A k \in 0..(num_batch - 1) : k \in 0..(i - 1) /\ k \in Cells
      BY <2>1 DEF EndCopy, TypeOK, LoopInv, Cells
    <3>2. \A k \in 0..(num_batch - 1) : Sent(k)
      BY <2>1, <3>1 DEF EndCopy, FilledInv
    <3> QED
      BY <1>2, <2>1, <3>1, <3>2 DEF EndCopy
  <2>2. CASE Batch
    <3>1. num_of_data' = num_of_data /\ num_batch = B /\ num_batch' \in 0..B
      BY <1>1, <2>2 DEF Batch, TypeOK, LoopInv
    <3>2. \A m \in 0..B : \A k \in 0..(m - 1) : k \in 0..(B - 1)
      OBVIOUS
    <3>3. \A k \in 0..(num_batch' - 1) : k \in 0..(num_batch - 1) /\ k \in Cells
      BY <3>1, <3>2 DEF Cells
    <3> QED
      BY <1>2, <3>1, <3>3 DEF FilledInv
  <2>3. CASE UNCHANGED <<num_of_data, num_batch>>
    <3>1. \A k \in 0..(num_batch - 1) : k \in Cells
      BY DEF TypeOK, Cells
    <3> QED
      BY <1>2, <2>3, <3>1 DEF FilledInv
  <2> QED
    BY <2>1, <2>2, <2>3 DEF Next, ParentStep, ChildStep, Terminating, vars, parentVars, Fork, ForkFails,
       Copy, Tell, EndOfData, Term, Wait, HandlerStart, HandlerRead, HandlerPrint, HandlerLoad, HandlerStore, ExitHandler
<1>4. ppc' = "copy" => \A k \in 0..(i' - 1) : Sent(k)'
  <2>1. CASE Batch
    BY <2>1 DEF Batch
  <2>2. ASSUME NEW p \in Parts, Copy(p), NEW k \in 0..(i' - 1) PROVE Sent(k)'
    <3>1. i \in Nat /\ (i' = i \/ i' = i + 1) /\ i \in Cells /\ k \in Cells
      BY <2>2 DEF Copy, TypeOK, LoopInv, Cells
    <3>2. CASE k = i
      <4>1. copied \union {p} = Parts
        BY <2>2, <3>1, <3>2 DEF Copy
      <4>2. num_of_data + i # NoMessage
        BY <3>1 DEF TypeOK, NoMessage
      <4>3. \A r \in copied : addr[i][r] # NoMessage
        BY DEF FilledInv
      <4> QED
        BY <2>2, <3>1, <3>2, <4>1, <4>2, <4>3 DEF Copy, Sent, TypeOK
    <3>3. CASE k # i
      <4>1. Sent(k)
        BY <2>2, <3>1, <3>3 DEF Copy, FilledInv
      <4> QED
        BY <1>2, <3>1, <4>1
    <3> QED
      BY <3>2, <3>3
  <2>3. CASE UNCHANGED <<ppc, i>>
    <3>1. ppc = "copy" => \A k \in 0..(i - 1) : k \in Cells
      BY DEF TypeOK, LoopInv, Cells
    <3> QED
      BY <1>2, <2>3, <3>1 DEF FilledInv
  <2>4. CASE ppc' # "copy"
    BY <2>4
  <2> QED
    BY <2>1, <2>2, <2>3, <2>4 DEF Next, ParentStep, ChildStep, Terminating, vars, parentVars, Fork, ForkFails,
       EndCopy, Tell, EndOfData, Term, Wait, HandlerStart, HandlerRead, HandlerPrint, HandlerLoad, HandlerStore, ExitHandler
<1>5. usr1' # {} => num_of_data' > 0
  <2>1. CASE Tell
    BY <2>1 DEF Tell, TypeOK, LoopInv
  <2>2. CASE EndCopy
    BY <2>2 DEF EndCopy, TypeOK, LoopInv
  <2>3. CASE usr1' \subseteq usr1 /\ UNCHANGED num_of_data
    BY <2>3 DEF FilledInv
  <2> QED
    BY <2>1, <2>2, <2>3 DEF Next, ParentStep, ChildStep, Terminating, vars, parentVars, childVars, Fork, ForkFails,
       Batch, Copy, EndOfData, Term, Wait, HandlerStart, HandlerRead, HandlerPrint, HandlerLoad, HandlerStore, ExitHandler
<1>6. ASSUME NEW d \in Children, cpc'[d] \in {"print", "store"}
      PROVE  local'[d].j <= local'[d].n /\ \A k \in 0..(local'[d].n - 1) : Sent(k)'
  <2>1. CASE HandlerStart(d)
    <3>1. local'[d].n = num_batch /\ local'[d].j = 0 /\ num_of_data > 0 /\ num_batch \in 0..B
      BY <2>1 DEF HandlerStart, TypeOK, FilledInv
    <3>2. \A k \in 0..(num_batch - 1) : Sent(k) /\ k \in Cells
      BY <3>1 DEF FilledInv, Cells
    <3> QED
      BY <1>2, <3>1, <3>2
  <2>2. CASE cpc[d] \in {"print", "store"} /\ local'[d].n = local[d].n
               /\ (local'[d].j = local[d].j \/ (local[d].j < local[d].n /\ local'[d].j = local[d].j + 1))
    <3>1. local[d].n \in 0..B /\ local[d].j \in 0..B
      BY DEF TypeOK
    <3>2. \A k \in 0..(local[d].n - 1) : Sent(k) /\ k \in Cells
      BY <2>2, <3>1 DEF FilledInv, Cells
    <3> QED
      BY <1>2, <2>2, <3>1, <3>2 DEF FilledInv
  <2>3. CASE Fork
    BY <1>6, <2>2, <2>3 DEF Fork, TypeOK
  <2>4. ASSUME NEW c \in Children, ChildStep(c), ~ HandlerStart(d)
        PROVE  cpc[d] \in {"print", "store"} /\ local'[d].n = local[d].n
               /\ (local'[d].j = local[d].j \/ (local[d].j < local[d].n /\ local'[d].j = local[d].j + 1))
    <3>1. CASE HandlerStart(c)
      BY <1>6, <2>4, <3>1 DEF HandlerStart, TypeOK
    <3>2. CASE HandlerPrint(c)
      BY <1>6, <3>2 DEF HandlerPrint, TypeOK
    <3>5. CASE \E p \in Parts : HandlerRead(c, p)
      BY <1>6, <3>5 DEF HandlerRead
    <3>3. CASE HandlerLoad(c)
      BY <1>6, <3>3 DEF HandlerLoad, TypeOK
    <3>4. CASE HandlerStore(c) \/ ExitHandler(c)
      BY <1>6, <3>4 DEF HandlerStore, ExitHandler, TypeOK
    <3> QED
      BY <2>4, <3>1, <3>2, <3>3, <3>4, <3>5 DEF ChildStep
  <2>5. CASE UNCHANGED <<cpc, local>>
    BY <1>6, <2>2, <2>5
  <2>6. ASSUME NEW c \in Children, ChildStep(c)
        PROVE  local'[d].j <= local'[d].n /\ \A k \in 0..(local'[d].n - 1) : Sent(k)'
    BY <2>1, <2>2, <2>4, <2>6
  <2> QED
    BY <2>3, <2>5, <2>6 DEF Next, ParentStep, Terminating, vars, childVars, ForkFails, Batch, Copy, EndCopy, Tell,
       EndOfData, Term, Wait
<1>7. \A p \in copied' : addr'[i'][p] # NoMessage
  <2>1. ASSUME NEW p \in Parts, Copy(p), NEW r \in copied' PROVE addr'[i'][r] # NoMessage
    <3>1. i \in Cells /\ num_of_data + i # NoMessage
      BY <2>1 DEF Copy, TypeOK, LoopInv, NoMessage, Cells
    <3>2. i' = i /\ copied' = copied \union {p}
      BY <2>1 DEF Copy
    <3> QED
      BY <2>1, <3>1, <3>2 DEF Copy, TypeOK, FilledInv
  <2>2. CASE UNCHANGED <<copied, addr, i>>
    BY <2>2 DEF FilledInv
  <2>3. CASE copied' = {}
    BY <2>3
  <2>4. ppc # "copy" => copied = {}
    BY DEF LoopInv
  <2>5. i = batch_size => copied = {}
    BY DEF LoopInv, TypeOK
  <2> QED
    BY <2>1, <2>2, <2>3, <2>4, <2>5 DEF Next, ParentStep, ChildStep, Terminating, vars, parentVars, Fork, ForkFails,
       Batch, EndCopy, Tell, EndOfData, Term, Wait, HandlerStart, HandlerRead, HandlerPrint, HandlerLoad,
       HandlerStore, ExitHandler
<1> QED
  BY <1>3, <1>4, <1>5, <1>6, <1>7 DEF FilledInv

(* Where the parts come from. *)

LEMMA Multiples ==
  ASSUME NEW q \in Nat, NEW b \in Nat \ {0}
  PROVE  (q + 1) * b = q * b + b /\ q * b \in Nat /\ q <= q * b
<1>1. (q + 1) * b = q * b + b /\ q * b \in Nat
  OBVIOUS
<1>2. \A x \in Nat : q * (x + 1) = q * x + q /\ q * x \in Nat
  OBVIOUS
<1>3. b - 1 \in Nat /\ (b - 1) + 1 = b
  OBVIOUS
<1>4. q * b = q * (b - 1) + q /\ q * (b - 1) \in Nat
  BY <1>2, <1>3
<1> QED
  BY <1>1, <1>4

\* What has been sent through a cell stays sent.
LEMMA SentThroughStays ==
  ASSUME IndInv, [Next]_vars
  PROVE  Begun \in Nat /\ Begun' \in Nat /\ Begun <= Begun'
<1>1. TypeOK'
  BY TypeNext
<1>7. Begun \in Nat
  <2>1. num_of_data \in Nat /\ batch_size \in Nat
    BY ArgumentsAssumption DEF IndInv, TypeOK
  <2> QED
    BY <2>1 DEF Begun
<1>8. Begun' \in Nat
  <2>1. num_of_data' \in Nat /\ batch_size' \in Nat
    BY <1>1, ArgumentsAssumption DEF TypeOK
  <2>2. CASE ppc' = "copy"
    <3>1. Begun' = num_of_data' + batch_size'
      BY <2>2 DEF Begun
    <3>2. \A x, y \in Nat : x + y \in Nat
      OBVIOUS
    <3>3. num_of_data' + batch_size' \in Nat
      BY <2>1, <3>2
    <3> QED
      BY <3>1, <3>3, Zenon
  <2>3. CASE ppc' # "copy"
    <3>1. Begun' = num_of_data'
      BY <2>3 DEF Begun
    <3> QED
      BY <2>1, <3>1
  <2> QED
    BY <2>2, <2>3
<1>2. Begun \in Nat /\ Begun' \in Nat
  BY <1>7, <1>8
<1> USE ArgumentsAssumption DEF IndInv, TypeOK, LoopInv, Begun
<1>3. CASE Batch
  BY <1>3 DEF Batch
<1>4. CASE EndCopy
  BY <1>4 DEF EndCopy
<1>5. CASE UNCHANGED <<ppc, num_of_data, batch_size>>
  BY <1>2, <1>5
<1>6. CASE ppc # "copy" /\ ppc' # "copy" /\ UNCHANGED num_of_data
  BY <1>6
<1> QED
  BY <1>2, <1>3, <1>4, <1>5, <1>6 DEF Next, ParentStep, ChildStep, Terminating, vars, parentVars, Fork, ForkFails,
     Copy, Tell, EndOfData, Term, Wait, HandlerStart, HandlerRead, HandlerPrint, HandlerLoad, HandlerStore, ExitHandler

LEMMA OriginNext == IndInv /\ [Next]_vars => OriginInv'
<1> SUFFICES ASSUME IndInv, [Next]_vars PROVE OriginInv'
  OBVIOUS
<1> USE ArgumentsAssumption
<1>1. TypeOK' /\ LoopInv'
  BY TypeNext, LoopNext
<1>2. \A j \in Nat, m \in Int : SentThrough(j, m) => SentThrough(j, m)'
  <2>1. Begun \in Nat /\ Begun' \in Nat /\ Begun <= Begun'
    BY SentThroughStays
  <2> QED
    BY <2>1 DEF SentThrough
\* The next batch begins at the next multiple of B, or there is none.
<1>3. num_of_data' = M \/ \E q \in 0..M : num_of_data' = q * B
  <2>1. CASE EndCopy
    <3>1. CASE batch_size = B
      <4>1. num_of_data # M
        BY <2>1 DEF EndCopy, IndInv, TypeOK, LoopInv
      <4>2. PICK q \in 0..M : num_of_data = q * B
        BY <4>1 DEF IndInv, OriginInv
      <4>3. num_of_data' = num_of_data + B /\ num_of_data' <= M
        BY <1>1, <2>1, <3>1 DEF EndCopy, TypeOK
      <4>4. num_of_data' = (q + 1) * B
        BY <4>2, <4>3, Multiples
      <4>5. q + 1 \in Nat /\ q + 1 <= (q + 1) * B /\ (q + 1) * B \in Nat
        BY Multiples
      <4>6. q + 1 \in 0..M
        BY <4>3, <4>4, <4>5
      <4> QED
        BY <4>4, <4>6
    <3>2. CASE batch_size # B
      BY <2>1, <3>2 DEF EndCopy, IndInv, TypeOK, LoopInv
    <3> QED
      BY <3>1, <3>2
  <2>2. CASE UNCHANGED num_of_data
    BY <2>2 DEF IndInv, OriginInv
  <2> QED
    BY <2>1, <2>2 DEF Next, ParentStep, ChildStep, Terminating, vars, parentVars, Fork, ForkFails,
       Batch, Copy, Tell, EndOfData, Term, Wait, HandlerStart, HandlerRead, HandlerPrint, HandlerLoad,
       HandlerStore, ExitHandler
<1>6. ppc' = "fork" => \A c \in i'..N : cpc'[c] = "unborn"
  <2>1. CASE Fork
    BY <2>1 DEF Fork, IndInv, TypeOK, LoopInv, OriginInv, Children
  <2>3. ASSUME NEW c \in Children, ChildStep(c) PROVE UNCHANGED <<ppc, i>>
    BY <2>3 DEF ChildStep, HandlerStart, HandlerRead, HandlerPrint, HandlerLoad, HandlerStore, ExitHandler, parentVars
  <2>2. ASSUME NEW c \in Children, ChildStep(c), ppc = "fork", NEW d \in i..N
        PROVE  ppc' = ppc /\ i' = i /\ cpc'[d] = "unborn"
    <3>1. cpc[d] = "unborn" /\ cpc[c] # "unborn"
      BY <2>2 DEF ChildStep, HandlerStart, HandlerRead, HandlerPrint, HandlerLoad, HandlerStore, ExitHandler,
         IndInv, OriginInv
    <3>2. \A e \in Children \ {c} : cpc'[e] = cpc[e]
      BY <2>2 DEF ChildStep, HandlerStart, HandlerRead, HandlerPrint, HandlerLoad, HandlerStore, ExitHandler,
         IndInv, TypeOK
    <3>3. d \in Children
      BY <2>2 DEF IndInv, LoopInv, TypeOK, Children
    <3> QED
      BY <2>2, <2>3, <3>1, <3>2, <3>3
  <2>4. CASE ppc' # "fork" \/ UNCHANGED <<ppc, i, cpc>>
    BY <2>4 DEF IndInv, OriginInv
  <2> QED
    BY <2>1, <2>2, <2>3, <2>4 DEF Next, ParentStep, Terminating, vars, ForkFails, Batch, Copy, EndCopy,
       Tell, EndOfData, Term, Wait
<1>4. ASSUME NEW k \in Cells, NEW r \in Parts, addr'[k][r] # NoMessage
      PROVE  SentThrough(k, addr[k][r])'
  <2>1. k \in Nat /\ addr[k][r] \in Int
    BY DEF Cells, IndInv, TypeOK
  <2>2. CASE addr'[k][r] = addr[k][r]
    <3>1. SentThrough(k, addr[k][r])
      BY <1>4, <2>2 DEF IndInv, OriginInv
    <3>2. PICK m \in Int : m = addr[k][r]
      BY <2>1
    <3>3. SentThrough(k, m)'
      BY <1>2, <2>1, <3>1, <3>2
    <3> QED
      BY <2>2, <3>2, <3>3 DEF SentThrough
  <2>3. ASSUME NEW p \in Parts, Copy(p), addr'[k][r] # addr[k][r]
        PROVE  SentThrough(k, addr[k][r])'
    <3>1. k = i /\ addr'[k][r] = num_of_data + i /\ i < batch_size /\ ppc = "copy" /\ ppc' = "copy"
          /\ UNCHANGED <<num_of_data, batch_size>>
      BY <2>3 DEF Copy, IndInv, TypeOK
    <3>2. num_of_data # M
      BY <3>1 DEF IndInv, TypeOK, LoopInv
    <3>3. PICK q \in 0..M : num_of_data = q * B
      BY <3>2 DEF IndInv, OriginInv
    <3>4. num_of_data + i < Begun'
      BY <3>1 DEF Begun, IndInv, TypeOK
    <3> QED
      BY <3>1, <3>3, <3>4 DEF SentThrough
  <2> QED
    BY <2>2, <2>3 DEF Next, ParentStep, ChildStep, Terminating, vars, parentVars, Fork, ForkFails,
       Batch, EndCopy, Tell, EndOfData, Term, Wait, HandlerStart, HandlerRead, HandlerPrint, HandlerLoad,
       HandlerStore, ExitHandler
<1>5. ASSUME NEW d \in Children, NEW r \in Parts, text'[d][r] # Unread
      PROVE  /\ cpc'[d] \in {"print", "exited"} /\ local'[d].j < local'[d].n
             /\ SentThrough(local[d].j, text[d][r])'
  <2>1. text[d][r] \in Int /\ local[d].j \in Nat
    BY DEF IndInv, TypeOK
  \* Nothing of this child's text changes.
  <2>2. CASE /\ text'[d][r] = text[d][r] /\ local'[d].j = local[d].j /\ local'[d].n = local[d].n
             /\ (cpc[d] \in {"print", "exited"} => cpc'[d] \in {"print", "exited"})
    <3>1. /\ cpc[d] \in {"print", "exited"} /\ local[d].j < local[d].n
          /\ SentThrough(local[d].j, text[d][r])
      BY <1>5, <2>2 DEF IndInv, OriginInv
    <3>2. PICK m \in Int, j \in Nat : m = text[d][r] /\ j = local[d].j
      BY <2>1
    <3>3. SentThrough(j, m)'
      BY <1>2, <3>1, <3>2
    <3> QED
      BY <2>2, <3>1, <3>2, <3>3 DEF SentThrough
  \* It loads the part that the cell has.
  <2>3. ASSUME NEW c \in Children, NEW p \in Parts, HandlerRead(c, p), c = d, p = r
        PROVE  /\ cpc'[d] \in {"print", "exited"} /\ local'[d].j < local'[d].n
               /\ SentThrough(local[d].j, text[d][r])'
    <3>1. cpc[d] = "print" /\ local[d].j < local[d].n /\ UNCHANGED <<cpc, local>>
      BY <2>3 DEF HandlerRead
    <3>2. local[d].j \in Cells /\ local[d].j \in 0..(local[d].n - 1)
      <4>1. local[d].j \in 0..B /\ local[d].n \in 0..B
        BY DEF IndInv, TypeOK
      <4> QED
        BY <3>1, <4>1 DEF Cells
    <3>3. PICK j \in Cells : j = local[d].j
      BY <3>2
    <3>4. text'[d][r] = addr[j][r]
      BY <2>3, <3>3 DEF HandlerRead, IndInv, TypeOK
    <3>5. addr[j][r] # NoMessage
      BY <3>1, <3>2, <3>3 DEF IndInv, FilledInv, Sent
    <3>6. SentThrough(j, addr[j][r])
      BY <3>5 DEF IndInv, OriginInv
    <3>7. PICK m \in Int : m = addr[j][r]
      BY DEF IndInv, TypeOK
    <3>8. SentThrough(j, m)'
      BY <1>2, <3>2, <3>3, <3>6, <3>7
    <3> QED
      BY <3>1, <3>3, <3>4, <3>7, <3>8 DEF SentThrough
  <2>4. ASSUME NEW c \in Children, NEW p \in Parts, HandlerRead(c, p), c # d \/ p # r
        PROVE  text'[d][r] = text[d][r] /\ UNCHANGED <<cpc, local>>
    BY <2>4 DEF HandlerRead, IndInv, TypeOK
  <2>5. ASSUME NEW c \in Children, HandlerPrint(c)
        PROVE  c # d /\ text'[d][r] = text[d][r] /\ local'[d] = local[d] /\ UNCHANGED cpc
    BY <1>5, <2>5 DEF HandlerPrint, NothingRead, IndInv, TypeOK
  <2>6. ASSUME NEW c \in Children, HandlerStart(c) \/ HandlerLoad(c) \/ HandlerStore(c)
        PROVE  c # d /\ UNCHANGED text /\ local'[d] = local[d] /\ cpc'[d] = cpc[d]
    <3>1. UNCHANGED text
      BY <2>6 DEF HandlerStart, HandlerLoad, HandlerStore
    <3>2. cpc[d] \in {"print", "exited"} /\ local[d].j < local[d].n
      BY <1>5, <3>1 DEF IndInv, OriginInv
    <3>3. c # d
      BY <2>6, <3>2 DEF HandlerStart, HandlerLoad, HandlerStore, IndInv, TypeOK
    <3> QED
      BY <2>6, <3>1, <3>3 DEF HandlerStart, HandlerLoad, HandlerStore, IndInv, TypeOK
  <2>7. ASSUME NEW c \in Children, ExitHandler(c)
        PROVE  UNCHANGED <<text, local>> /\ cpc'[d] \in {cpc[d], "exited"}
    BY <2>7 DEF ExitHandler, IndInv, TypeOK
  <2>8. CASE Fork
    <3>1. UNCHANGED <<text, local>> /\ i \in i..N /\ cpc[i] = "unborn"
      BY <2>8 DEF Fork, IndInv, TypeOK, LoopInv, OriginInv
    <3>2. cpc[d] \in {"print", "exited"}
      BY <1>5, <3>1 DEF IndInv, OriginInv
    <3>3. cpc'[d] = cpc[d]
      BY <2>8, <3>1, <3>2 DEF Fork, IndInv, TypeOK
    <3> QED
      BY <2>2, <3>1, <3>3
  <2>9. CASE UNCHANGED <<text, local, cpc>>
    BY <2>2, <2>9
  <2>10. ASSUME NEW c \in Children, ChildStep(c)
         PROVE  /\ cpc'[d] \in {"print", "exited"} /\ local'[d].j < local'[d].n
                /\ SentThrough(local[d].j, text[d][r])'
    <3>1. CASE HandlerPrint(c)
      BY <2>2, <2>5, <3>1
    <3>2. CASE HandlerStart(c) \/ HandlerLoad(c) \/ HandlerStore(c)
      BY <2>2, <2>6, <3>2
    <3>3. CASE ExitHandler(c)
      BY <2>2, <2>7, <3>3
    <3>4. CASE \E p \in Parts : HandlerRead(c, p)
      BY <2>2, <2>3, <2>4, <3>4
    <3> QED
      BY <2>10, <3>1, <3>2, <3>3, <3>4 DEF ChildStep
  <2> QED
    BY <2>8, <2>9, <2>10 DEF Next, ParentStep, Terminating, vars, childVars, ForkFails, Batch, Copy, EndCopy, Tell,
       EndOfData, Term, Wait
<1> QED
  BY <1>3, <1>4, <1>5, <1>6 DEF OriginInv

LEMMA ExitNext == IndInv /\ [Next]_vars => ExitInv'
<1> SUFFICES ASSUME TypeOK, LoopInv, ExitInv, [Next]_vars PROVE ExitInv'
  BY DEF IndInv
<1> USE ArgumentsAssumption DEF TypeOK, LoopInv, ExitInv, Children
<1>1. CASE Fork \/ ForkFails \/ Batch \/ (\E p \in Parts : Copy(p)) \/ EndCopy \/ Tell
  BY <1>1 DEF Fork, ForkFails, Batch, Copy, EndCopy, Tell
<1>2. CASE EndOfData
  BY <1>2 DEF EndOfData
<1>3. CASE Term
  BY <1>3 DEF Term, childVars
<1>4. CASE Wait
  <2>1. \A c \in 1..i : cpc[c] = "exited"
    BY <1>4 DEF Wait
  <2> QED
    BY <1>4, <2>1 DEF Wait, childVars
<1>5. ASSUME NEW c \in Children, ChildStep(c) PROVE ExitInv'
  <2>1. UNCHANGED <<ppc, i, program>>
    BY <1>5 DEF ChildStep, HandlerStart, HandlerRead, HandlerPrint, HandlerLoad, HandlerStore, ExitHandler, parentVars
  <2>2. \A d \in Children : cpc[d] = "exited" => cpc'[d] = "exited"
    BY <1>5 DEF ChildStep, HandlerStart, HandlerRead, HandlerPrint, HandlerLoad, HandlerStore, ExitHandler
  <2>3. ppc = "wait" \/ ppc = "term" => \A d \in 1..(i - 1) : d \in Children
    OBVIOUS
  <2> QED
    BY <2>1, <2>2, <2>3
<1>6. CASE UNCHANGED vars
  BY <1>6 DEF vars
<1> QED
  BY <1>1, <1>2, <1>3, <1>4, <1>5, <1>6 DEF Next, ParentStep, Terminating

(* The accounts. *)

LEMMA AccountType ==
  ASSUME TypeOK, LoopInv, NEW c \in Children
  PROVE  /\ Told(c) \in 0..M /\ Pending(c) \in 0..B /\ InHandler(c) \in 0..B
         /\ Account(c) \in Int /\ Account(c) <= M
<1> USE ArgumentsAssumption
<1>1. Told(c) \in 0..M
  BY DEF Told, TypeOK, LoopInv
<1>2. Pending(c) \in 0..B
  BY DEF Pending, TypeOK
<1>3. InHandler(c) \in 0..B
  BY DEF InHandler, TypeOK
<1> QED
  BY <1>1, <1>2, <1>3 DEF Account

\* The same after a step.
LEMMA AccountTypeNext ==
  ASSUME TypeOK', LoopInv', NEW c \in Children
  PROVE  /\ Told(c)' \in 0..M /\ Pending(c)' \in 0..B /\ InHandler(c)' \in 0..B
         /\ Account(c)' \in Int /\ Account(c)' <= M
<1> USE ArgumentsAssumption
<1>1. Told(c)' \in 0..M
  <2>1. \A a \in 0..M, b \in 0..B : b <= a => a - b \in 0..M
    OBVIOUS
  <2>2. num_of_data' \in 0..M /\ batch_size' \in 0..B
    BY DEF TypeOK
  <2>3. ppc' = "tell" => batch_size' <= num_of_data'
    BY DEF LoopInv
  <2> QED
    BY <2>1, <2>2, <2>3 DEF Told
<1>2. Pending(c)' \in 0..B
  BY DEF Pending, TypeOK
<1>3. InHandler(c)' \in 0..B
  BY DEF InHandler, TypeOK
<1>4. \A a \in 0..M, b \in 0..B, d \in 0..B : a - b - d \in Int /\ a - b - d <= M
  OBVIOUS
<1> QED
  BY <1>1, <1>2, <1>3, <1>4 DEF Account

LEMMA PairsFinite ==
  ASSUME NEW S \in SUBSET (Children \X (0..(M - 1)))
  PROVE  IsFiniteSet(S) /\ Cardinality(S) \in Nat /\ Cardinality(S) <= N * M
<1> USE ArgumentsAssumption
<1>1. /\ IsFiniteSet(1..N) /\ Cardinality(1..N) = N
      /\ IsFiniteSet(0..(M - 1)) /\ Cardinality(0..(M - 1)) = M
  BY FS_Interval
<1>2. /\ IsFiniteSet(Children \X (0..(M - 1)))
      /\ Cardinality(Children \X (0..(M - 1))) = N * M
  BY <1>1, FS_Product DEF Children
<1>3. IsFiniteSet(S) /\ Cardinality(S) <= N * M
  BY <1>2, FS_Subset
<1> QED
  BY <1>3, FS_CardinalityType

\* No step takes anything off an account: a Tell adds to it at least what the
\* signal may cost, and merging signals or shrinking the batch only adds.
LEMMA AccountsGrow ==
  ASSUME IndInv, [Next]_vars, NEW d \in Children
  PROVE  Account(d)' >= Account(d)
<1> USE ArgumentsAssumption DEF IndInv
<1>1. TypeOK' /\ LoopInv'
  BY TypeNext, LoopNext
<1>2. /\ Told(d) \in 0..M /\ Pending(d) \in 0..B /\ InHandler(d) \in 0..B
      /\ Told(d)' \in 0..M /\ Pending(d)' \in 0..B /\ InHandler(d)' \in 0..B
  BY <1>1, AccountType, AccountTypeNext
<1>3. SUFFICES Told(d)' - Told(d) >= (Pending(d)' - Pending(d)) + (InHandler(d)' - InHandler(d))
  BY <1>2 DEF Account
<1>4. CASE Fork
  <2>1. Told(d)' = Told(d) /\ Pending(d)' = Pending(d)
    BY <1>4 DEF Fork, Told, Pending
  <2>2. InHandler(d)' <= InHandler(d)
    BY <1>4, <1>2 DEF Fork, InHandler, TypeOK
  <2> QED
    BY <1>2, <2>1, <2>2
<1>5. CASE Batch
  <2>1. Told(d)' = Told(d) /\ InHandler(d)' = InHandler(d)
    BY <1>5 DEF Batch, Told, InHandler, childVars
  <2>2. num_batch = B /\ num_batch' \in 0..B /\ usr1' = usr1
    BY <1>1, <1>5 DEF Batch, TypeOK, LoopInv
  <2>3. Pending(d)' <= Pending(d)
    BY <2>2 DEF Pending
  <2> QED
    BY <1>2, <2>1, <2>3
<1>6. CASE EndCopy
  <2>1. Pending(d)' = Pending(d) /\ InHandler(d)' = InHandler(d)
    BY <1>6 DEF EndCopy, Pending, InHandler, childVars
  <2>2. Told(d)' = Told(d)
    BY <1>6 DEF EndCopy, Told, TypeOK, Children
  <2> QED
    BY <1>2, <2>1, <2>2
<1>7. CASE Tell
  <2>1. InHandler(d)' = InHandler(d)
    BY <1>7 DEF Tell, InHandler, childVars
  <2>2. CASE d = i
    <3>1. Told(d) = num_of_data - batch_size /\ Told(d)' = num_of_data
      BY <1>7, <2>2 DEF Tell, Told, TypeOK, Children
    <3>2. Pending(d)' = batch_size /\ batch_size \in 0..B
      BY <1>7, <2>2 DEF Tell, Pending, LoopInv, TypeOK
    <3>3. num_of_data \in Nat
      BY DEF TypeOK
    <3> QED
      BY <1>2, <2>1, <3>1, <3>2, <3>3
  <2>3. CASE d # i
    <3>1. Told(d)' = Told(d)
      BY <1>7, <2>3 DEF Tell, Told, TypeOK, LoopInv, Children
    <3>2. Pending(d)' = Pending(d)
      BY <1>7, <2>3 DEF Tell, Pending
    <3> QED
      BY <1>2, <2>1, <3>1, <3>2
  <2> QED
    BY <2>2, <2>3
<1>8. CASE ForkFails \/ (\E p \in Parts : Copy(p)) \/ EndOfData \/ Term \/ Wait
  <2>1. Told(d)' = Told(d)
    BY <1>8 DEF ForkFails, Copy, EndOfData, Term, Wait, Told
  <2>2. Pending(d)' = Pending(d) /\ InHandler(d)' = InHandler(d)
    BY <1>8 DEF ForkFails, Copy, EndOfData, Term, Wait, Pending, InHandler, childVars
  <2> QED
    BY <1>2, <2>1, <2>2
<1>9. ASSUME NEW c \in Children, ChildStep(c)
      PROVE  Told(d)' - Told(d) >= (Pending(d)' - Pending(d)) + (InHandler(d)' - InHandler(d))
  <2>1. Told(d)' = Told(d)
    BY <1>9 DEF ChildStep, HandlerStart, HandlerRead, HandlerPrint, HandlerLoad, HandlerStore, ExitHandler, parentVars, Told
  <2>2. CASE HandlerStart(c)
    <3>1. CASE d = c
      <4>1. Pending(d) = num_batch /\ Pending(d)' = 0 /\ InHandler(d) = 0 /\ InHandler(d)' = num_batch
        BY <2>2, <3>1 DEF HandlerStart, Pending, InHandler, parentVars, TypeOK
      <4> QED
        BY <1>2, <2>1, <4>1
    <3>2. CASE d # c
      <4>1. Pending(d)' = Pending(d) /\ InHandler(d)' = InHandler(d)
        BY <2>2, <3>2 DEF HandlerStart, Pending, InHandler, parentVars, TypeOK
      <4> QED
        BY <1>2, <2>1, <4>1
    <3> QED
      BY <3>1, <3>2
  <2>5. CASE \E p \in Parts : HandlerRead(c, p)
    <3>1. Pending(d)' = Pending(d) /\ InHandler(d)' = InHandler(d)
      BY <2>5 DEF HandlerRead, Pending, InHandler, parentVars
    <3> QED
      BY <1>2, <2>1, <3>1
  <2>3. CASE HandlerPrint(c) \/ HandlerLoad(c)
    <3>1. Pending(d)' = Pending(d)
      BY <2>3 DEF HandlerPrint, HandlerLoad, Pending, parentVars
    <3>2. InHandler(d)' = InHandler(d)
      <4>1. local'[d].n = local[d].n
        BY <2>3 DEF HandlerPrint, HandlerLoad, TypeOK
      <4>2. cpc'[d] = cpc[d] \/ (cpc[d] = "print" /\ cpc'[d] = "store")
        BY <2>3 DEF HandlerPrint, HandlerLoad, TypeOK
      <4> QED
        BY <4>1, <4>2 DEF InHandler
    <3> QED
      BY <1>2, <2>1, <3>1, <3>2
  <2>4. CASE HandlerStore(c) \/ ExitHandler(c)
    <3>1. Pending(d)' = Pending(d)
      BY <2>4 DEF HandlerStore, ExitHandler, Pending, parentVars
    <3>2. InHandler(d)' <= InHandler(d)
      BY <1>2, <2>4 DEF HandlerStore, ExitHandler, InHandler, TypeOK
    <3> QED
      BY <1>2, <2>1, <3>1, <3>2
  <2> QED
    BY <1>9, <2>2, <2>3, <2>4, <2>5 DEF ChildStep
<1>10. CASE UNCHANGED vars
  <2>1. Told(d)' = Told(d) /\ Pending(d)' = Pending(d) /\ InHandler(d)' = InHandler(d)
    BY <1>10 DEF vars, Told, Pending, InHandler
  <2> QED
    BY <1>2, <2>1
<1> QED
  BY <1>4, <1>5, <1>6, <1>7, <1>8, <1>9, <1>10 DEF Next, ParentStep, Terminating

LEMMA AccountsInclusion ==
  ASSUME IndInv, [Next]_vars
  PROVE  Accounts \subseteq Accounts'
<1>1. TypeOK' /\ LoopInv'
  BY TypeNext, LoopNext
<1>2. ASSUME NEW c \in Children PROVE Account(c) \in Int /\ Account(c)' \in Int /\ Account(c)' >= Account(c)
  <2>1. Account(c) \in Int
    BY AccountType DEF IndInv
  <2>2. Account(c)' \in Int
    BY <1>1, AccountTypeNext
  <2> QED
    BY <2>1, <2>2, AccountsGrow
<1>3. Accounts \subseteq Accounts'
  <2> SUFFICES ASSUME NEW x \in Children \X (0..(M - 1)), x[2] < Account(x[1])
               PROVE  x \in Accounts'
    BY DEF Accounts
  <2>1. x[1] \in Children /\ x[2] \in Int
    BY ArgumentsAssumption
  <2>2. PICK c \in Children : c = x[1]
    BY <2>1
  <2>3. x[2] < Account(c)'
    BY <1>2, <2>1, <2>2
  <2>4. x[2] < Account(x[1])'
    BY <2>2, <2>3 DEF Account, Told, Pending, InHandler
  <2> QED
    BY <2>4 DEF Accounts
<1> QED
  BY <1>3

LEMMA AccountsMonotonic ==
  ASSUME IndInv, [Next]_vars
  PROVE  Cardinality(Accounts) <= Cardinality(Accounts')
<1>1. IsFiniteSet(Accounts')
  BY PairsFinite DEF Accounts
<1> QED
  BY <1>1, AccountsInclusion, FS_Subset

\* A handler that stores moves what it added to its child's account.
LEMMA StoreGrows ==
  ASSUME IndInv, NEW c \in Children, HandlerStore(c)
  PROVE  Cardinality(Accounts) + local[c].j <= Cardinality(Accounts')
<1> USE ArgumentsAssumption
<1> DEFINE k == local[c].j
           a == Account(c)
           W == {c} \X (a..(a + k - 1))
<1>1. [Next]_vars
  BY DEF Next, ChildStep
<1>2. TypeOK' /\ LoopInv'
  BY <1>1, TypeNext, LoopNext
<1>3. k \in Nat /\ local[c].n = k
  BY DEF IndInv, TypeOK, CountInv, HandlerStore
<1>4. a \in Int /\ a >= 0
  BY AccountType DEF IndInv, CountInv
<1>5. Account(c)' = a + k /\ a + k <= M
  <2>1. Told(c)' = Told(c) /\ Pending(c)' = Pending(c)
    BY DEF HandlerStore, parentVars, Told, Pending
  <2>2. InHandler(c) = k /\ InHandler(c)' = 0
    BY <1>3 DEF HandlerStore, InHandler, IndInv, TypeOK
  <2>3. Told(c) \in Int /\ Pending(c) \in Int
    BY AccountType DEF IndInv
  <2>4. Account(c)' = a + k
    BY <1>3, <2>1, <2>2, <2>3 DEF Account
  <2> QED
    BY <1>2, <2>4, AccountTypeNext
<1>6. /\ Accounts \subseteq Accounts'
      /\ IsFiniteSet(Accounts) /\ Cardinality(Accounts) \in Nat
      /\ IsFiniteSet(Accounts') /\ Cardinality(Accounts') \in Nat
  <2>1. IsFiniteSet(Accounts) /\ Cardinality(Accounts) \in Nat
    BY PairsFinite DEF Accounts
  <2>2. IsFiniteSet(Accounts') /\ Cardinality(Accounts') \in Nat
    BY PairsFinite DEF Accounts
  <2> QED
    BY <1>1, <2>1, <2>2, AccountsInclusion
<1>7. W \subseteq Accounts'
  <2> SUFFICES ASSUME NEW x \in W PROVE x \in Accounts'
    OBVIOUS
  <2>1. PICK m \in a..(a + k - 1) : x = <<c, m>>
    OBVIOUS
  <2>2. m \in 0..(M - 1) /\ m < a + k
    BY <1>3, <1>4, <1>5, <2>1
  <2>3. x \in Children \X (0..(M - 1)) /\ x[1] = c /\ x[2] = m
    BY <2>1, <2>2
  <2>4. m < Account(c)'
    BY <1>5, <2>2
  <2>5. x[2] < Account(x[1])'
    BY <2>3, <2>4 DEF Account, Told, Pending, InHandler
  <2> QED
    BY <2>3, <2>5 DEF Accounts
<1>8. W \cap Accounts = {}
  <2> SUFFICES ASSUME NEW x \in W, x \in Accounts PROVE FALSE
    OBVIOUS
  <2>1. PICK m \in a..(a + k - 1) : x = <<c, m>>
    OBVIOUS
  <2>2. x[2] < Account(x[1]) /\ x[1] = c /\ x[2] = m
    BY <2>1 DEF Accounts
  <2>3. m < a
    BY <2>2
  <2> QED
    BY <1>3, <1>4, <2>1, <2>3
<1>9. IsFiniteSet(W) /\ Cardinality(W) = k
  <2>1. IsFiniteSet({c}) /\ Cardinality({c}) = 1
    BY FS_Singleton
  <2>2. IsFiniteSet(a..(a + k - 1)) /\ Cardinality(a..(a + k - 1)) = k
    <3>1. a + k - 1 \in Int /\ (a > a + k - 1 <=> k = 0) /\ (a + k - 1) - a + 1 = k
      BY <1>3, <1>4
    <3> QED
      BY <1>3, <1>4, <3>1, FS_Interval
  <2>3. IsFiniteSet(W) /\ Cardinality(W) = 1 * k
    BY <2>1, <2>2, FS_Product
  <2> QED
    BY <1>3, <2>3
<1> HIDE DEF k, a, W
<1>10. /\ IsFiniteSet(Accounts \cup W)
       /\ Cardinality(Accounts \cup W) = Cardinality(Accounts) + k - Cardinality({})
  <2>1. Accounts \cap W = {}
    BY <1>8
  <2> QED
    BY <1>6, <1>9, <2>1, FS_Union
<1>11. Cardinality(Accounts \cup W) <= Cardinality(Accounts')
  <2>1. Accounts \cup W \subseteq Accounts'
    BY <1>6, <1>7
  <2> QED
    BY <1>6, <2>1, FS_Subset
<1>12. Cardinality(Accounts) + k <= Cardinality(Accounts')
  BY <1>3, <1>6, <1>10, <1>11, FS_EmptySet
<1> QED
  BY <1>12 DEF k

LEMMA CountNext == IndInv /\ [Next]_vars => CountInv'
<1> SUFFICES ASSUME IndInv, [Next]_vars PROVE CountInv'
  OBVIOUS
<1>1. TypeOK' /\ LoopInv'
  BY TypeNext, LoopNext
<1>2. ASSUME NEW c \in Children PROVE Account(c)' >= 0
  <2>1. Account(c) \in Int /\ Account(c) >= 0
    BY AccountType DEF IndInv, CountInv
  <2> QED
    BY <1>1, <2>1, AccountsGrow, AccountTypeNext
<1>3. /\ Cardinality(Accounts) \in Nat /\ Cardinality(Accounts') \in Nat
      /\ Cardinality(Accounts) <= Cardinality(Accounts')
  <2>1. Cardinality(Accounts) \in Nat
    BY PairsFinite DEF Accounts
  <2>2. Cardinality(Accounts') \in Nat
    BY PairsFinite DEF Accounts
  <2> QED
    BY <2>1, <2>2, AccountsMonotonic
<1>4. received \in Nat /\ received <= Cardinality(Accounts)
  BY DEF IndInv, TypeOK, CountInv
<1>5. \A d \in Children : local[d].copy \in Nat /\ local[d].j \in Nat
  BY DEF IndInv, TypeOK
<1>6. received' <= Cardinality(Accounts')
  <2>1. ASSUME NEW c \in Children, HandlerStore(c) PROVE received' <= Cardinality(Accounts')
    <3>1. received' = local[c].copy + local[c].j /\ local[c].copy <= Cardinality(Accounts)
      BY <2>1 DEF HandlerStore, IndInv, CountInv
    <3>2. Cardinality(Accounts) + local[c].j <= Cardinality(Accounts')
      BY <2>1, StoreGrows
    <3> QED
      BY <1>3, <1>5, <3>1, <3>2
  <2>2. CASE UNCHANGED received
    BY <1>3, <1>4, <2>2
  <2> QED
    BY <2>1, <2>2 DEF Next, ParentStep, ChildStep, Terminating, vars, parentVars, childVars, Fork, ForkFails, Batch,
       Copy, EndCopy, Tell, EndOfData, Term, Wait, HandlerStart, HandlerRead, HandlerPrint, HandlerLoad, ExitHandler
<1>7. ASSUME NEW d \in Children, cpc'[d] = "store"
      PROVE  local'[d].j = local'[d].n /\ local'[d].copy <= Cardinality(Accounts')
  <2>1. CASE HandlerLoad(d)
    <3>1. local'[d].j = local'[d].n /\ local'[d].copy = received
      BY <2>1 DEF HandlerLoad, IndInv, TypeOK
    <3> QED
      BY <1>3, <1>4, <3>1
  <2>2. CASE cpc[d] = "store" /\ local'[d] = local[d]
    <3>1. local[d].j = local[d].n /\ local[d].copy <= Cardinality(Accounts)
      BY <2>2 DEF IndInv, CountInv
    <3> QED
      BY <1>3, <1>5, <2>2, <3>1
  <2>3. CASE Fork
    BY <1>7, <2>2, <2>3 DEF Fork, IndInv, TypeOK
  <2>4. ASSUME NEW c \in Children, ChildStep(c), ~ HandlerLoad(d)
        PROVE  cpc[d] = "store" /\ local'[d] = local[d]
    <3>1. CASE HandlerStart(c)
      BY <1>7, <3>1 DEF HandlerStart, IndInv, TypeOK
    <3>2. CASE HandlerPrint(c) \/ \E p \in Parts : HandlerRead(c, p)
      BY <1>7, <3>2 DEF HandlerPrint, HandlerRead, IndInv, TypeOK
    <3>3. CASE HandlerLoad(c)
      BY <1>7, <2>4, <3>3 DEF HandlerLoad, IndInv, TypeOK
    <3>4. CASE HandlerStore(c) \/ ExitHandler(c)
      BY <1>7, <3>4 DEF HandlerStore, ExitHandler, IndInv, TypeOK
    <3> QED
      BY <2>4, <3>1, <3>2, <3>3, <3>4 DEF ChildStep
  <2>5. CASE UNCHANGED <<cpc, local>>
    BY <1>7, <2>2, <2>5
  <2>6. ASSUME NEW c \in Children, ChildStep(c)
        PROVE  local'[d].j = local'[d].n /\ local'[d].copy <= Cardinality(Accounts')
    BY <2>1, <2>2, <2>4, <2>6
  <2> QED
    BY <2>3, <2>5, <2>6 DEF Next, ParentStep, Terminating, vars, childVars, ForkFails, Batch, Copy, EndCopy, Tell,
       EndOfData, Term, Wait
<1> QED
  BY <1>2, <1>6, <1>7 DEF CountInv

-----------------------------------------------------------------------------
(* The theorems. *)

LEMMA IndInvInvariant == Spec => []IndInv
<1>1. IndInv /\ [Next]_vars => IndInv'
  BY TypeNext, LoopNext, FilledNext, OriginNext, ExitNext, CountNext DEF IndInv
<1> QED
  BY <1>1, InitIndInv, PTL DEF Spec

\* Although strcpy() and printf() move a text piece by piece and nothing keeps
\* them apart, a handler reads no piece of a cell that the parent has not
\* filled, however far the parent has run ahead of it: shared_count[1] never
\* covers more of the buffer than the first batch filled, and a cell is only
\* ever given every B-th message.
THEOREM SentMessagesOnly == Spec => []OnlySentMessages
<1>1. IndInv => OnlySentMessages
  BY DEF IndInv, OriginInv, OnlySentMessages
<1> QED
  BY <1>1, IndInvInvariant, PTL

\* lossRate is not negative: merged signals and lost additions only lower
\* shared_count[0], and a signal that finds a smaller shared_count[1] than the
\* one it was sent for only lowers it too.
THEOREM CountBounded == Spec => []LossRateNotNegative
<1>1. IndInv => LossRateNotNegative
  <2> SUFFICES ASSUME IndInv PROVE received <= M * N
    BY DEF LossRateNotNegative
  <2>1. received \in Nat /\ received <= Cardinality(Accounts)
    BY DEF IndInv, TypeOK, CountInv
  <2>2. Cardinality(Accounts) \in Nat /\ Cardinality(Accounts) <= N * M
    BY PairsFinite DEF Accounts
  <2>3. N * M = M * N /\ N * M \in Nat
    BY ArgumentsAssumption
  <2> QED
    BY <2>1, <2>2, <2>3
<1> QED
  BY <1>1, IndInvInvariant, PTL

\* The statistics are final: the parent has waited for every child, so no
\* handler is left that could still add to shared_count[0].
THEOREM StatisticsFinal == Spec => FinalCountStable
<1>1. IndInv /\ [Next]_vars => [ppc = "stats" => received' = received]_vars
  <2> SUFFICES ASSUME IndInv, Next, ppc = "stats" PROVE received' = received
    OBVIOUS
  <2>1. ASSUME NEW c \in Children PROVE ~ HandlerStore(c)
    BY DEF IndInv, ExitInv, HandlerStore
  <2> QED
    BY <2>1 DEF Next, ParentStep, ChildStep, Terminating, vars, parentVars, childVars, Fork, ForkFails, Batch,
       Copy, EndCopy, Tell, EndOfData, Term, Wait, HandlerStart, HandlerRead, HandlerPrint, HandlerLoad, ExitHandler
<1> QED
  BY <1>1, IndInvInvariant, PTL DEF Spec, FinalCountStable

=============================================================================
