------------------------- MODULE SeiProcessTxsProofs -------------------------
(***************************************************************************)
(* Proofs about SeiProcessTxs, for any number of transactions, any keys    *)
(* and any declared accesses: ConcurrentEquivalent and RecordedOnce.       *)
(*                                                                         *)
(* The argument for the first: what a read returns of a key lists, in      *)
(* increasing order, the transactions that touch the key and have written. *)
(* So does the synchronous run, and there is only one such sequence.       *)
(***************************************************************************)
EXTENDS SeiProcessTxs, TLAPS, FiniteSetTheorems, WellFoundedInduction

-----------------------------------------------------------------------------
(* The inductive invariant.                                                *)

(* The sequence s lists the elements of S in increasing order.             *)
Increasing(s) == \A a, b \in DOMAIN s : a < b => s[a] < s[b]
Lists(s, S) ==
    /\ s \in Seq(Nat) /\ Increasing(s)
    /\ \A a \in DOMAIN s : s[a] \in S
    /\ \A i \in S : \E a \in DOMAIN s : s[a] = i

Code(i) == IF i \in bad THEN "invalid" ELSE "ok"
Sent(i) == tx[i] = "sent"
Written(k) == {i \in Txs : i \notin bad /\ Sent(i) /\ k \in Touches[i]}

(* The shapes of the variables, and what separates the phases: the batch    *)
(* leaves the gathering only when all goroutines are done.                  *)
Shape ==
    /\ bad \subseteq Txs
    /\ tx \in [Txs -> {"spawned", "read", "sent"}]
    /\ DOMAIN seen = Txs
    /\ phase \in {"gather", "sync", "done"}
    /\ next \in 1..(NumTxs + 1)
    /\ mem \in Seq(Txs)
    /\ cache \in [Keys -> Seq(Txs) \cup {Clean}]
    /\ phase # "gather" => \A i \in Txs : Sent(i)
    /\ phase = "gather" => badWasm = {} /\ next = 1 /\ store = [k \in Keys |-> <<>>]
    /\ phase = "sync" => badWasm # {}
    /\ phase = "done" => store = [k \in Keys |-> store[k]]

(* The results received and those in the channel are the codes of the      *)
(* transactions sent; a synchronous run overwrites them from the start.    *)
ResultInv ==
    /\ \A r \in channel : r.txIndex \in Txs /\ r.code = Code(r.txIndex)
    /\ phase = "gather" =>
          /\ DOMAIN results \subseteq Txs
          /\ \A i \in DOMAIN results : results[i] = Code(i)
          /\ \A i \in Txs : Sent(i) => \/ i \in DOMAIN results
                                       \/ \E r \in channel : r.txIndex = i
    /\ phase = "sync" => DOMAIN results = 1..(next - 1)
    /\ phase = "done" => DOMAIN results = Txs
    /\ phase # "gather" => \A i \in DOMAIN results : results[i] = "ok"
    /\ phase = "done" /\ badWasm = {} => bad = {}

(* The dex memory holds every transaction sent, or run, once.              *)
MemoryInv ==
    /\ \A a, b \in DOMAIN mem : mem[a] = mem[b] => a = b
    /\ phase = "gather" => \A i \in Txs : Sent(i) <=> \E a \in DOMAIN mem : mem[a] = i
    /\ phase = "sync" => \A i \in Txs : i < next <=> \E a \in DOMAIN mem : mem[a] = i
    /\ phase = "done" => \A i \in Txs : \E a \in DOMAIN mem : mem[a] = i

(* Two transactions that conflict do not overlap; so what a goroutine has  *)
(* read is still current when it writes.                                   *)
OrderInv ==
    phase = "gather" =>
        /\ \A i \in Txs : \A j \in Blocking(i) : tx[i] # "spawned" => Sent(j)
        /\ \A i \in Txs \ bad : tx[i] = "read" =>
              DOMAIN seen[i] = Touches[i] /\ \A k \in Touches[i] : seen[i][k] = View(k)

(* What a read of a key returns, and what a successful batch leaves in it. *)
StoreInv ==
    /\ phase = "gather" => \A k \in Keys : Lists(View(k), Written(k))
    /\ phase = "done" /\ badWasm = {} => \A k \in Keys : Lists(store[k], Written(k))

IInv == Shape /\ ResultInv /\ MemoryInv /\ OrderInv /\ StoreInv

-----------------------------------------------------------------------------
(* Sequences of transactions.                                              *)

(* A set of naturals with an element has a least one.                      *)
LEMMA LeastNatural ==
    ASSUME NEW S \in SUBSET Nat, S # {}
    PROVE  \E m \in S : \A j \in S : m <= j
<1>1. PICK m \in S : \A y \in S : ~(<<y, m>> \in OpToRel(<, Nat))
  BY NatLessThanWellFounded, WFMin, Zenon
<1>2. ASSUME NEW j \in S PROVE ~(j < m)
  BY <1>1, <1>2, Zenon DEF OpToRel
<1>3. ASSUME NEW j \in S PROVE m <= j
  BY <1>2, <1>3
<1> QED
  BY <1>3

(* Two sequences that list the same set agree as far as the first goes.    *)
LEMMA ListsAgree ==
    ASSUME NEW S, NEW s, NEW t, Lists(s, S), Lists(t, S)
    PROVE  \A m \in DOMAIN s : m \in DOMAIN t /\ s[m] = t[m]
<1> DEFINE Bad == {m \in DOMAIN s : ~(m \in DOMAIN t /\ s[m] = t[m])}
<1>1. /\ s \in Seq(Nat) /\ Len(s) \in Nat /\ DOMAIN s = 1..Len(s)
      /\ t \in Seq(Nat) /\ Len(t) \in Nat /\ DOMAIN t = 1..Len(t)
      /\ \A m \in DOMAIN s : s[m] \in Nat
      /\ \A m \in DOMAIN t : t[m] \in Nat
  BY DEF Lists
<1>2. SUFFICES ASSUME Bad # {} PROVE FALSE
  BY <1>2, Zenon
<1>3. Bad \in SUBSET Nat
  BY <1>1
<1>4. PICK m \in Bad : \A j \in Bad : m <= j
  BY <1>2, <1>3, LeastNatural, Zenon
<1> HIDE DEF Bad
<1>5. m \in DOMAIN s /\ ~(m \in DOMAIN t /\ s[m] = t[m])
  BY <1>4 DEF Bad
<1>6. \A j \in DOMAIN s : j < m => j \in DOMAIN t /\ s[j] = t[j]
  <2>1. \A j \in DOMAIN s : j < m => j \notin Bad
    BY <1>1, <1>4, <1>5
  <2> QED
    BY <2>1 DEF Bad
<1>7. PICK j \in DOMAIN t : t[j] = s[m]
  BY <1>5, Zenon DEF Lists
<1>8. j >= m
  <2>1. SUFFICES ASSUME j < m PROVE FALSE
    BY <1>1, <1>5
  <2>2. j \in DOMAIN s
    BY <1>1, <1>5, <2>1
  <2>3. s[j] < s[m]
    BY <1>5, <2>1, <2>2 DEF Lists, Increasing
  <2>4. s[j] = s[m]
    BY <1>6, <1>7, <2>1, <2>2
  <2> QED
    BY <1>1, <1>5, <2>2, <2>3, <2>4
<1>9. m \in DOMAIN t /\ t[m] <= s[m]
  <2>1. m \in DOMAIN t
    BY <1>1, <1>5, <1>8
  <2>2. m < j => t[m] < t[j]
    BY <2>1 DEF Lists, Increasing
  <2> QED
    BY <1>1, <1>5, <1>7, <1>8, <2>1, <2>2
<1>10. PICK i \in DOMAIN s : s[i] = t[m]
  BY <1>9, Zenon DEF Lists
<1>11. i >= m
  <2>1. SUFFICES ASSUME i < m PROVE FALSE
    BY <1>1, <1>5
  <2>2. i \in DOMAIN t /\ s[i] = t[i]
    BY <1>6, <2>1
  <2>3. t[i] < t[m]
    BY <1>9, <2>1, <2>2 DEF Lists, Increasing
  <2> QED
    BY <1>1, <1>9, <1>10, <2>2, <2>3
<1>12. s[m] <= t[m]
  <2>1. m < i => s[m] < s[i]
    BY <1>5 DEF Lists, Increasing
  <2> QED
    BY <1>1, <1>5, <1>9, <1>10, <1>11, <2>1
<1> QED
  BY <1>1, <1>5, <1>9, <1>12

(* There is one increasing list of a set.                                  *)
LEMMA ListsUnique ==
    ASSUME NEW S, NEW s, NEW t, Lists(s, S), Lists(t, S)
    PROVE  s = t
<1>1. \A m \in DOMAIN s : m \in DOMAIN t /\ s[m] = t[m]
  BY ListsAgree
<1>4. \A m \in DOMAIN t : m \in DOMAIN s /\ t[m] = s[m]
  BY ListsAgree
<1>2. s \in Seq(Nat) /\ t \in Seq(Nat)
  BY DEF Lists
<1>3. Len(s) = Len(t)
  <2>1. DOMAIN s = DOMAIN t
    BY <1>1, <1>4, Zenon
  <2> QED
    BY <1>2, <2>1
<1> QED
  BY <1>1, <1>2, <1>3

(* A list grows at its end by a number above all it holds.                 *)
LEMMA ListsAppend ==
    ASSUME NEW S, NEW s, NEW i \in Nat, Lists(s, S), \A j \in S : j < i
    PROVE  Lists(Append(s, i), S \cup {i})
<1> DEFINE t == Append(s, i)
<1>1. s \in Seq(Nat) /\ Len(s) \in Nat /\ DOMAIN s = 1..Len(s)
  BY DEF Lists
<1>2. /\ t \in Seq(Nat) /\ DOMAIN t = 1..(Len(s) + 1)
      /\ \A a \in DOMAIN s : t[a] = s[a]
      /\ t[Len(s) + 1] = i
  BY <1>1
<1> HIDE DEF t
<1>3. ASSUME NEW a \in DOMAIN t PROVE a \in DOMAIN s \/ a = Len(s) + 1
  BY <1>1, <1>2, <1>3
<1>4. Increasing(t)
  <2>1. ASSUME NEW a \in DOMAIN t, NEW b \in DOMAIN t, a < b PROVE t[a] < t[b]
    <3>1. a \in DOMAIN s
      BY <1>1, <1>2, <1>3, <2>1
    <3>2. CASE b \in DOMAIN s
      BY <1>2, <2>1, <3>1, <3>2 DEF Lists, Increasing
    <3>3. CASE b = Len(s) + 1
      BY <1>2, <3>1, <3>3 DEF Lists
    <3> QED
      BY <1>3, <3>2, <3>3
  <2> QED
    BY <2>1 DEF Increasing
<1>5. \A a \in DOMAIN t : t[a] \in S \cup {i}
  BY <1>2, <1>3 DEF Lists
<1>6. ASSUME NEW j \in S \cup {i} PROVE \E a \in DOMAIN t : t[a] = j
  <2>1. CASE j \in S
    <3>1. PICK a \in DOMAIN s : s[a] = j
      BY <2>1, Zenon DEF Lists
    <3>2. a \in DOMAIN t /\ t[a] = j
      BY <1>1, <1>2, <3>1
    <3> QED
      BY <3>2
  <2>2. CASE j = i
    <3>1. Len(s) + 1 \in DOMAIN t
      BY <1>1, <1>2
    <3> QED
      BY <1>2, <2>2, <3>1
  <2> QED
    BY <2>1, <2>2
<1>7. Lists(t, S \cup {i})
  BY <1>2, <1>4, <1>5, <1>6 DEF Lists
<1> QED
  BY <1>7 DEF t

-----------------------------------------------------------------------------
(* The synchronous run.                                                    *)

(* What the definition of SynchronousStore says of f on the first n.       *)
Solves(f, n) ==
    f = [m \in 0..n |-> IF m = 0 THEN [k \in Keys |-> <<>>] ELSE Delivered(f[m - 1], m)]

(* The recursive definition has a solution.                                *)
LEMMA SynchronousExists == \A n \in Nat : \E f : Solves(f, n)
<1> DEFINE Bad == {n \in Nat : ~ \E f : Solves(f, n)}
<1>1. SUFFICES ASSUME Bad # {} PROVE FALSE
  BY <1>1
<1>2. PICK n \in Bad : \A j \in Bad : n <= j
  BY <1>1, LeastNatural
<1> HIDE DEF Bad
<1>3. n \in Nat /\ ~ \E f : Solves(f, n)
  BY <1>2 DEF Bad
<1>4. n # 0
  <2>1. SUFFICES ASSUME n = 0 PROVE FALSE
    OBVIOUS
  <2> DEFINE f == [m \in 0..0 |-> [k \in Keys |-> <<>>]]
  <2>2. f = [m \in 0..0 |-> IF m = 0 THEN [k \in Keys |-> <<>>] ELSE Delivered(f[m - 1], m)]
    OBVIOUS
  <2>3. Solves(f, 0)
    BY <2>2 DEF Solves
  <2> QED
    BY <1>3, <2>1, <2>3
<1>5. n - 1 \in Nat /\ n - 1 \notin Bad
  BY <1>2, <1>3, <1>4
<1>6. PICK g : Solves(g, n - 1)
  BY <1>5 DEF Bad
<1> DEFINE f == [m \in 0..n |-> IF m = n THEN Delivered(g[n - 1], n) ELSE g[m]]
<1>7. \A m \in 0..(n - 1) :
         g[m] = IF m = 0 THEN [k \in Keys |-> <<>>] ELSE Delivered(g[m - 1], m)
  BY <1>6 DEF Solves
<1>8. ASSUME NEW m \in 0..n
      PROVE f[m] = IF m = 0 THEN [k \in Keys |-> <<>>] ELSE Delivered(f[m - 1], m)
  <2>1. CASE m = n
    <3>1. m # 0 /\ n - 1 \in 0..n /\ n - 1 # n
      BY <1>3, <1>4, <2>1
    <3>2. f[n - 1] = g[n - 1] /\ f[n] = Delivered(g[n - 1], n)
      BY <1>3, <3>1
    <3> QED
      BY <2>1, <3>1, <3>2
  <2>2. CASE m = 0
    BY <1>3, <1>4, <1>7, <2>2
  <2>3. CASE m # n /\ m # 0
    <3>1. m \in 0..(n - 1) /\ m - 1 \in 0..n /\ m - 1 # n
      BY <1>3, <2>3
    <3>2. f[m] = g[m] /\ f[m - 1] = g[m - 1]
      BY <2>3, <3>1
    <3> QED
      BY <1>7, <2>3, <3>1, <3>2
  <2> QED
    BY <2>1, <2>2, <2>3
<1>9. Solves(f, n)
  <2>1. f = [m \in 0..n |-> f[m]]
    OBVIOUS
  <2> HIDE DEF f
  <2> QED
    BY <1>8, <2>1 DEF Solves
<1> QED
  BY <1>3, <1>9

(* The recursion of SynchronousStore, one transaction at a time.           *)
LEMMA SynchronousStep ==
    /\ SynchronousStore[0] = [k \in Keys |-> <<>>]
    /\ \A n \in 1..NumTxs : SynchronousStore[n] = Delivered(SynchronousStore[n - 1], n)
<1>1. SynchronousStore = CHOOSE f : Solves(f, NumTxs)
  BY DEF SynchronousStore, Solves
<1>2. Solves(SynchronousStore, NumTxs)
  BY <1>1, SynchronousExists, TxAssumption
<1>3. \A m \in 0..NumTxs :
         SynchronousStore[m] = IF m = 0 THEN [k \in Keys |-> <<>>]
                               ELSE Delivered(SynchronousStore[m - 1], m)
  BY <1>2 DEF Solves
<1> QED
  BY <1>3, TxAssumption

(* A synchronous run leaves in a key the transactions that touch it, in    *)
(* the order of the block.                                                 *)
LEMMA SynchronousLists ==
    \A n \in 0..NumTxs : \A k \in Keys :
        Lists(SynchronousStore[n][k], {i \in 1..n : k \in Touches[i]})
<1> DEFINE P(n) == \A k \in Keys : Lists(SynchronousStore[n][k], {i \in 1..n : k \in Touches[i]})
           Bad == {n \in 0..NumTxs : ~ P(n)}
<1>1. SUFFICES ASSUME Bad # {} PROVE FALSE
  BY <1>1
<1>2. Bad \in SUBSET Nat
  OBVIOUS
<1>3. PICK n \in Bad : \A j \in Bad : n <= j
  BY <1>1, <1>2, LeastNatural
<1>4. n \in 0..NumTxs /\ ~ P(n)
  BY <1>3
<1> HIDE DEF Bad
<1>5. n # 0
  <2>1. \A k \in Keys : SynchronousStore[0][k] = <<>>
    BY SynchronousStep
  <2>2. Lists(<<>>, {})
    BY DEF Lists, Increasing
  <2>3. \A k \in Keys : {i \in 1..0 : k \in Touches[i]} = {}
    OBVIOUS
  <2>4. P(0)
    BY <2>1, <2>2, <2>3
  <2> QED
    BY <1>4, <2>4
<1>6. n \in 1..NumTxs /\ n - 1 \in 0..NumTxs /\ P(n - 1)
  <2>1. n \in 1..NumTxs /\ n - 1 \in 0..NumTxs
    BY <1>4, <1>5, TxAssumption
  <2>2. n - 1 \notin Bad
    BY <1>3, <1>4, <2>1
  <2> QED
    BY <2>1, <2>2 DEF Bad
<1>7. ASSUME NEW k \in Keys
      PROVE Lists(SynchronousStore[n][k], {i \in 1..n : k \in Touches[i]})
  <2> DEFINE s == SynchronousStore[n - 1][k]
             S == {i \in 1..(n - 1) : k \in Touches[i]}
  <2>1. Lists(s, S)
    BY <1>6
  <2>2. SynchronousStore[n][k] = IF k \in Touches[n] THEN Append(s, n) ELSE s
    <3>1. SynchronousStore[n] = Delivered(SynchronousStore[n - 1], n)
      BY <1>6, SynchronousStep
    <3> QED
      BY <3>1 DEF Delivered
  <2>3. CASE k \in Touches[n]
    <3>1. {i \in 1..n : k \in Touches[i]} = S \cup {n}
      BY <1>6, <2>3
    <3>2. \A j \in S : j < n
      BY <1>6
    <3> HIDE DEF s, S
    <3>3. Lists(Append(s, n), S \cup {n})
      BY <1>6, <2>1, <3>2, ListsAppend
    <3> QED
      BY <2>2, <2>3, <3>1, <3>3
  <2>4. CASE k \notin Touches[n]
    <3>1. {i \in 1..n : k \in Touches[i]} = S
      BY <1>6, <2>4
    <3> QED
      BY <2>1, <2>2, <2>4, <3>1
  <2> QED
    BY <2>3, <2>4
<1> QED
  BY <1>4, <1>7

-----------------------------------------------------------------------------
(* The steps of the batch.                                                 *)

(* Nothing is written or recorded when the batch starts.                   *)
LEMMA InitIInv == Init => IInv
<1> SUFFICES ASSUME Init PROVE IInv
  OBVIOUS
<1> USE TxAssumption
<1>1. Shape
  BY DEF Init, Shape, Txs, Sent
<1>2. ResultInv
  BY DEF Init, ResultInv, Sent
<1>3. MemoryInv
  BY DEF Init, MemoryInv, Sent
<1>4. OrderInv
  BY DEF Init, OrderInv, Sent
<1>5. ASSUME NEW k \in Keys PROVE Lists(View(k), Written(k))
  <2>1. View(k) = <<>> /\ Written(k) = {}
    BY DEF Init, View, Written, Sent
  <2> QED
    BY <2>1 DEF Lists, Increasing
<1>6. StoreInv
  BY <1>5 DEF Init, StoreInv
<1> QED
  BY <1>1, <1>2, <1>3, <1>4, <1>6 DEF IInv

(* A goroutine reads: it has waited for those it conflicts with.           *)
LEMMA DeliverReadIInv ==
    ASSUME IInv, NEW i \in Txs, DeliverRead(i) PROVE IInv'
<1> USE DEF IInv
<1>1. phase = "gather"
  BY DEF Shape, DeliverRead, Sent
<1>2. \A j \in Txs : (tx'[j] = "sent") = (tx[j] = "sent")
  BY DEF Shape, DeliverRead
<1>3. Shape'
  BY <1>1 DEF Shape, DeliverRead, Sent
<1>4. ResultInv'
  BY <1>1, <1>2 DEF ResultInv, DeliverRead, Sent, Code
<1>5. MemoryInv'
  BY <1>1, <1>2 DEF MemoryInv, DeliverRead, Sent
<1>6. OrderInv'
  <2>1. ASSUME NEW m \in Txs, NEW j \in Blocking(m)', tx'[m] # "spawned" PROVE Sent(j)'
    <3>1. j \in Blocking(m) /\ j \in Txs
      <4>1. j \in Blocking(m)
        BY <2>1 DEF Blocking, DeliverRead
      <4> QED
        BY <4>1, TxAssumption DEF Blocking, Txs
    <3>2. CASE m = i
      BY <1>2, <3>1, <3>2 DEF DeliverRead, Sent
    <3>3. CASE m # i
      <4>1. tx[m] # "spawned"
        BY <2>1, <3>3 DEF DeliverRead, Shape
      <4> QED
        BY <1>1, <1>2, <3>1, <4>1 DEF OrderInv, Sent
    <3> QED
      BY <3>2, <3>3
  <2>2. ASSUME NEW m \in Txs \ bad', tx'[m] = "read"
        PROVE DOMAIN seen'[m] = Touches[m] /\ \A k \in Touches[m] : seen'[m][k] = View(k)'
    <3>1. \A k : View(k)' = View(k)
      BY DEF View, DeliverRead
    <3>2. CASE m = i
      BY <3>1, <3>2 DEF DeliverRead, Shape
    <3>3. CASE m # i
      <4>1. tx[m] = "read" /\ seen'[m] = seen[m] /\ m \in Txs \ bad
        BY <2>2, <3>3 DEF DeliverRead, Shape
      <4> QED
        BY <1>1, <3>1, <4>1 DEF OrderInv
    <3> QED
      BY <3>2, <3>3
  <2> QED
    BY <2>1, <2>2 DEF OrderInv
<1>7. StoreInv'
  <2>1. \A k \in Keys : View(k)' = View(k) /\ Written(k)' = Written(k)
    BY <1>2 DEF View, Written, Sent, DeliverRead
  <2> QED
    BY <1>1, <2>1 DEF StoreInv, DeliverRead
<1> QED
  BY <1>3, <1>4, <1>5, <1>6, <1>7

(* A goroutine writes: for every key it touches it is the last so far.     *)
LEMMA DeliverWriteIInv ==
    ASSUME IInv, NEW i \in Txs, DeliverWrite(i) PROVE IInv'
<1> USE DEF IInv
<1>1. phase = "gather" /\ phase' = "gather" /\ bad' = bad /\ store' = store /\ seen' = seen
  BY DEF Shape, DeliverWrite, Sent
<1>2. /\ ~ Sent(i) /\ Sent(i)'
      /\ \A j \in Txs : j # i => tx'[j] = tx[j]
      /\ tx' \in [Txs -> {"spawned", "read", "sent"}]
  BY DEF Shape, DeliverWrite, Sent
<1>3. \A k \in Keys : View(k) \in Seq(Nat) /\ View(k) \in Seq(Txs)
  <2>1. \A k \in Keys : View(k) \in Seq(Txs)
    <3>1. ASSUME NEW k \in Keys PROVE store[k] \in Seq(Txs) /\ cache[k] \in Seq(Txs) \cup {Clean}
      <4>1. store[k] = <<>>
        BY <1>1 DEF Shape
      <4>2. cache[k] \in Seq(Txs) \cup {Clean}
        BY DEF Shape
      <4> QED
        BY <4>1, <4>2
    <3> QED
      BY <3>1 DEF View
  <2> QED
    BY <1>1, <2>1 DEF StoreInv, Lists
<1>4. ASSUME i \notin bad, NEW k \in Touches[i]
      PROVE /\ k \in Keys /\ seen[i][k] = View(k)
            /\ \A j \in Written(k) : j < i
            /\ \A j \in Txs \ bad : j # i /\ k \in Touches[j] => tx[j] # "read"
  <2>1. k \in Keys /\ seen[i][k] = View(k)
    BY <1>1, <1>4, TxAssumption DEF OrderInv, DeliverWrite
  <2>2. ASSUME NEW j \in Txs \ bad, j > i, k \in Touches[j] PROVE tx[j] = "spawned"
    <3>1. i \in Blocking(j)
      BY <1>4, <2>2, TxAssumption DEF Blocking, Txs
    <3> QED
      BY <1>1, <1>2, <3>1 DEF OrderInv
  <2>3. ASSUME NEW j \in Txs \ bad, j < i, k \in Touches[j] PROVE Sent(j)
    <3>1. j \in Blocking(i)
      BY <1>4, <2>3, TxAssumption DEF Blocking, Txs
    <3>2. tx[i] # "spawned"
      BY DEF DeliverWrite
    <3> QED
      BY <1>1, <3>1, <3>2 DEF OrderInv
  <2>4. ASSUME NEW j \in Written(k) PROVE j < i
    <3>1. j \in Txs \ bad /\ Sent(j) /\ k \in Touches[j]
      BY DEF Written
    <3>2. j # i /\ ~ (j > i)
      BY <1>2, <2>2, <3>1 DEF Sent
    <3> QED
      BY <3>1, <3>2, TxAssumption DEF Txs
  <2>5. ASSUME NEW j \in Txs \ bad, j # i, k \in Touches[j] PROVE tx[j] # "read"
    <3>1. j < i \/ j > i
      BY <2>5, TxAssumption DEF Txs
    <3> QED
      BY <2>2, <2>3, <2>5, <3>1 DEF Sent
  <2> QED
    BY <2>1, <2>4, <2>5
<1>5. ASSUME NEW k \in Keys
      PROVE View(k)' = IF i \notin bad /\ k \in Touches[i] THEN Append(View(k), i) ELSE View(k)
  <2>1. CASE i \notin bad /\ k \in Touches[i]
    <3>1. cache'[k] = Append(View(k), i)
      BY <1>4, <2>1 DEF DeliverWrite
    <3>2. cache'[k] \in Seq(Txs)
      BY <1>3, <3>1
    <3> QED
      BY <2>1, <3>1, <3>2, CleanAssumption DEF View
  <2>2. CASE ~(i \notin bad /\ k \in Touches[i])
    <3>1. cache'[k] = cache[k]
      BY <2>2 DEF DeliverWrite
    <3> QED
      BY <1>1, <2>2, <3>1 DEF View
  <2> QED
    BY <2>1, <2>2
<1>6. Shape'
  <2>1. cache' \in [Keys -> Seq(Txs) \cup {Clean}]
    <3>1. CASE i \in bad
      BY <3>1 DEF DeliverWrite, Shape
    <3>2. CASE i \notin bad
      <4>1. \A k \in Touches[i] : Append(seen[i][k], i) \in Seq(Txs)
        BY <1>3, <1>4, <3>2
      <4> QED
        BY <3>2, <4>1 DEF DeliverWrite, Shape
    <3> QED
      BY <3>1, <3>2
  <2>2. mem' \in Seq(Txs)
    BY DEF DeliverWrite, Shape
  <2> QED
    BY <1>1, <1>2, <2>1, <2>2 DEF Shape, DeliverWrite
<1>7. ResultInv'
  <2>1. \A j : Code(j)' = Code(j)
    BY <1>1 DEF Code
  <2>2. channel' = channel \cup {[txIndex |-> i, code |-> Code(i)]}
    BY DEF DeliverWrite, Code
  <2>3. \A r \in channel' : r.txIndex \in Txs /\ r.code = Code(r.txIndex)
    BY <2>2 DEF ResultInv
  <2>4. ASSUME NEW j \in Txs, Sent(j)', j \notin DOMAIN results
        PROVE \E r \in channel' : r.txIndex = j
    <3>1. CASE j = i
      <4>1. [txIndex |-> i, code |-> Code(i)].txIndex = j
        BY <3>1
      <4> QED
        BY <2>2, <4>1
    <3>2. CASE j # i
      BY <1>1, <1>2, <2>2, <2>4, <3>2 DEF ResultInv, Sent
    <3> QED
      BY <3>1, <3>2
  <2>5. results' = results
    BY DEF DeliverWrite
  <2> QED
    BY <1>1, <2>1, <2>3, <2>4, <2>5 DEF ResultInv
<1>8. MemoryInv'
  <2>1. /\ mem \in Seq(Txs) /\ Len(mem) \in Nat /\ DOMAIN mem = 1..Len(mem)
        /\ mem' = Append(mem, i) /\ DOMAIN mem' = 1..(Len(mem) + 1)
        /\ \A a \in DOMAIN mem : mem'[a] = mem[a]
        /\ mem'[Len(mem) + 1] = i
    BY DEF DeliverWrite, Shape
  <2>2. \A a \in DOMAIN mem : mem[a] # i
    BY <1>1, <1>2 DEF MemoryInv
  <2>3. \A a \in DOMAIN mem' : a \in DOMAIN mem \/ a = Len(mem) + 1
    BY <2>1
  <2>4. \A a, b \in DOMAIN mem' : mem'[a] = mem'[b] => a = b
    BY <2>1, <2>2, <2>3 DEF MemoryInv
  <2>5. ASSUME NEW j \in Txs PROVE Sent(j)' <=> \E a \in DOMAIN mem' : mem'[a] = j
    <3>1. CASE j = i
      BY <1>2, <2>1, <3>1
    <3>2. CASE j # i
      <4>1. Sent(j)' <=> \E a \in DOMAIN mem : mem[a] = j
        BY <1>1, <1>2, <3>2 DEF MemoryInv, Sent
      <4>2. (\E a \in DOMAIN mem' : mem'[a] = j) <=> (\E a \in DOMAIN mem : mem[a] = j)
        BY <2>1, <2>3, <3>2
      <4> QED
        BY <4>1, <4>2
    <3> QED
      BY <3>1, <3>2
  <2> QED
    BY <1>1, <2>4, <2>5 DEF MemoryInv
<1>9. OrderInv'
  <2>1. ASSUME NEW m \in Txs, NEW j \in Blocking(m)', tx'[m] # "spawned" PROVE Sent(j)'
    <3>1. j \in Blocking(m) /\ j \in Txs
      <4>1. j \in Blocking(m)
        BY <1>1, <2>1 DEF Blocking
      <4> QED
        BY <4>1, TxAssumption DEF Blocking, Txs
    <3>2. tx[m] # "spawned"
      BY <1>2, <2>1 DEF DeliverWrite
    <3>3. Sent(j)
      BY <1>1, <3>1, <3>2 DEF OrderInv
    <3> QED
      BY <1>2, <3>1, <3>3 DEF Sent
  <2>2. ASSUME NEW m \in Txs \ bad, tx'[m] = "read"
        PROVE DOMAIN seen[m] = Touches[m] /\ \A k \in Touches[m] : seen[m][k] = View(k)'
    <3>1. m # i /\ tx[m] = "read"
      BY <1>2, <2>2 DEF Sent
    <3>2. DOMAIN seen[m] = Touches[m] /\ \A k \in Touches[m] : k \in Keys /\ seen[m][k] = View(k)
      BY <1>1, <3>1, TxAssumption DEF OrderInv
    <3>3. \A k \in Touches[m] : ~(i \notin bad /\ k \in Touches[i])
      BY <1>4, <3>1
    <3> QED
      BY <1>5, <3>2, <3>3
  <2> QED
    BY <1>1, <2>1, <2>2 DEF OrderInv
<1>10. ASSUME NEW k \in Keys PROVE Lists(View(k)', Written(k)')
  <2>1. CASE i \notin bad /\ k \in Touches[i]
    <3>1. Written(k)' = Written(k) \cup {i}
      BY <1>1, <1>2, <2>1 DEF Written, Sent
    <3>2. Lists(Append(View(k), i), Written(k) \cup {i})
      <4>1. i \in Nat
        BY TxAssumption DEF Txs
      <4> QED
        BY <1>1, <1>4, <2>1, <4>1, ListsAppend DEF StoreInv
    <3> QED
      BY <1>5, <2>1, <3>1, <3>2
  <2>2. CASE ~(i \notin bad /\ k \in Touches[i])
    <3>1. Written(k)' = Written(k)
      BY <1>1, <1>2, <2>2 DEF Written, Sent
    <3> QED
      BY <1>1, <1>5, <2>2, <3>1 DEF StoreInv
  <2> QED
    BY <2>1, <2>2
<1>11. StoreInv'
  BY <1>1, <1>10 DEF StoreInv
<1> QED
  BY <1>6, <1>7, <1>8, <1>9, <1>11

(* A result is received from the channel.                                  *)
LEMMA ReceiveIInv ==
    ASSUME IInv, Receive PROVE IInv'
<1> USE DEF IInv
<1>1. PICK r \in channel :
          /\ channel' = channel \ {r}
          /\ results' = [i \in DOMAIN results \cup {r.txIndex} |->
                            IF i = r.txIndex THEN r.code ELSE results[i]]
  BY DEF Receive
<1>2. /\ phase = "gather"
      /\ UNCHANGED <<bad, store, cache, mem, tx, seen, phase, next, badWasm>>
  BY DEF Receive
<1>3. Shape' /\ MemoryInv'
  <2>1. Shape'
    BY <1>2 DEF Shape, Sent
  <2>2. MemoryInv'
    BY <1>2 DEF MemoryInv, Sent
  <2> QED
    BY <2>1, <2>2
<1>4. OrderInv'
  BY <1>2 DEF OrderInv, Sent, Blocking, View
<1>5. StoreInv'
  <2>1. \A k : View(k)' = View(k) /\ Written(k)' = Written(k)
    BY <1>2 DEF View, Written, Sent
  <2> QED
    BY <1>2, <2>1 DEF StoreInv
<1>6. ResultInv'
  <2>1. r.txIndex \in Txs /\ r.code = Code(r.txIndex)
    BY DEF ResultInv
  <2>2. \A j : Code(j)' = Code(j) /\ (Sent(j)' <=> Sent(j))
    BY <1>2 DEF Code, Sent
  <2>3. DOMAIN results' \subseteq Txs /\ \A i \in DOMAIN results' : results'[i] = Code(i)
    BY <1>1, <1>2, <2>1 DEF ResultInv
  <2>4. ASSUME NEW j \in Txs, Sent(j), j \notin DOMAIN results'
        PROVE \E q \in channel' : q.txIndex = j
    <3>1. j \notin DOMAIN results /\ j # r.txIndex
      BY <1>1, <2>4
    <3>2. PICK q \in channel : q.txIndex = j
      BY <1>2, <2>4, <3>1 DEF ResultInv
    <3> QED
      BY <1>1, <3>1, <3>2
  <2>5. \A q \in channel' : q.txIndex \in Txs /\ q.code = Code(q.txIndex)
    BY <1>1 DEF ResultInv
  <2> QED
    BY <1>2, <2>2, <2>3, <2>4, <2>5 DEF ResultInv
<1> QED
  BY <1>3, <1>4, <1>5, <1>6

(* When the channel is closed there is a result for every transaction.     *)
LEMMA ClosedComplete ==
    ASSUME IInv, phase = "gather", Closed
    PROVE  /\ DOMAIN results = Txs /\ \A i \in Txs : results[i] = Code(i)
           /\ Invalid = {} => bad = {}
<1>1. DOMAIN results = Txs /\ \A i \in Txs : results[i] = Code(i)
  <2>1. \A i \in Txs : i \in DOMAIN results
    BY DEF IInv, ResultInv, Closed, Sent
  <2> QED
    BY <2>1 DEF IInv, ResultInv
<1>2. ASSUME Invalid = {}, NEW i \in bad PROVE FALSE
  <2>1. i \in Txs /\ Code(i) = "invalid"
    BY DEF IInv, Shape, Code
  <2> QED
    BY <1>1, <1>2, <2>1 DEF Invalid
<1> QED
  BY <1>1, <1>2

(* The cached writes of a successful batch are flushed.                    *)
LEMMA WriteBackIInv ==
    ASSUME IInv, WriteBack PROVE IInv'
<1> USE DEF IInv
<1>1. /\ phase = "gather" /\ phase' = "done" /\ Closed /\ Invalid = {} /\ store' = Flushed
      /\ UNCHANGED <<bad, cache, mem, tx, seen, channel, results, next, badWasm>>
  BY DEF WriteBack
<1>2. /\ bad = {} /\ DOMAIN results = Txs
      /\ \A i \in Txs : results[i] = "ok"
  BY <1>1, ClosedComplete DEF Code
<1>3. \A i \in Txs : Sent(i)
  BY <1>1 DEF Closed, Sent
<1>4. Shape'
  <2>1. store' = [k \in Keys |-> store'[k]]
    BY <1>1 DEF Flushed
  <2> QED
    BY <1>1, <1>3, <2>1 DEF Shape, Sent
<1>5. ResultInv'
  <2>1. \A j : Code(j)' = Code(j)
    BY <1>1 DEF Code
  <2> QED
    BY <1>1, <1>2, <2>1 DEF ResultInv
<1>6. MemoryInv'
  BY <1>1, <1>3 DEF MemoryInv
<1>7. OrderInv'
  BY <1>1 DEF OrderInv
<1>8. StoreInv'
  <2>1. \A k : Written(k)' = Written(k)
    BY <1>1 DEF Written, Sent
  <2>2. \A k \in Keys : store'[k] = View(k)
    BY <1>1 DEF Flushed
  <2> QED
    BY <1>1, <2>1, <2>2 DEF StoreInv
<1> QED
  BY <1>4, <1>5, <1>6, <1>7, <1>8

(* A failed batch starts again with neither results nor memory.            *)
LEMMA FallbackIInv ==
    ASSUME IInv, Fallback PROVE IInv'
<1> USE DEF IInv
<1>1. /\ phase = "gather" /\ phase' = "sync" /\ Closed
      /\ badWasm' # {} /\ mem' = <<>> /\ DOMAIN results' = {}
      /\ UNCHANGED <<bad, store, cache, tx, seen, channel, next>>
  BY DEF Fallback
<1>2. next = 1
  BY <1>1 DEF Shape
<1>3. Shape'
  BY <1>1 DEF Shape, Closed, Sent
<1>4. ResultInv'
  <2>1. \A j : Code(j)' = Code(j)
    BY <1>1 DEF Code
  <2> QED
    BY <1>1, <1>2, <2>1 DEF ResultInv
<1>5. MemoryInv'
  <2>1. \A i \in Txs : ~(i < next')
    BY <1>1, <1>2, TxAssumption DEF Txs
  <2> QED
    BY <1>1, <2>1 DEF MemoryInv
<1>6. OrderInv' /\ StoreInv'
  BY <1>1 DEF OrderInv, StoreInv
<1> QED
  BY <1>3, <1>4, <1>5, <1>6

(* One transaction of the synchronous run.                                 *)
LEMMA DeliverSyncIInv ==
    ASSUME IInv, DeliverSync PROVE IInv'
<1> USE DEF IInv
<1>1. /\ phase = "sync" /\ phase' = "sync" /\ next \in Txs /\ next' = next + 1
      /\ mem' = Append(mem, next)
      /\ results' = [i \in DOMAIN results \cup {next} |-> IF i = next THEN "ok" ELSE results[i]]
      /\ UNCHANGED <<bad, cache, tx, seen, channel, badWasm>>
  BY DEF DeliverSync
<1>2. next \in Nat /\ next >= 1 /\ next <= NumTxs
  BY <1>1, TxAssumption DEF Txs
<1>3. Shape'
  <2>1. next' \in 1..(NumTxs + 1) /\ mem' \in Seq(Txs)
    BY <1>1, <1>2, TxAssumption DEF Shape
  <2> QED
    BY <1>1, <2>1 DEF Shape, Sent
<1>4. ResultInv'
  <2>1. \A j : Code(j)' = Code(j)
    BY <1>1 DEF Code
  <2>2. DOMAIN results' = 1..(next' - 1)
    <3>1. DOMAIN results' = 1..(next - 1) \cup {next}
      BY <1>1 DEF ResultInv
    <3> QED
      BY <1>1, <1>2, <3>1
  <2>3. \A i \in DOMAIN results' : results'[i] = "ok"
    BY <1>1 DEF ResultInv
  <2> QED
    BY <1>1, <2>1, <2>2, <2>3 DEF ResultInv
<1>5. MemoryInv'
  <2>1. /\ mem \in Seq(Txs) /\ Len(mem) \in Nat /\ DOMAIN mem = 1..Len(mem)
        /\ DOMAIN mem' = 1..(Len(mem) + 1)
        /\ \A a \in DOMAIN mem : mem'[a] = mem[a]
        /\ mem'[Len(mem) + 1] = next
    BY <1>1 DEF Shape
  <2>2. \A a \in DOMAIN mem : mem[a] # next
    <3>1. ~(next < next)
      BY <1>2
    <3> QED
      BY <1>1, <3>1 DEF MemoryInv
  <2>3. \A a \in DOMAIN mem' : a \in DOMAIN mem \/ a = Len(mem) + 1
    BY <2>1
  <2>4. \A a, b \in DOMAIN mem' : mem'[a] = mem'[b] => a = b
    BY <2>1, <2>2, <2>3 DEF MemoryInv
  <2>5. ASSUME NEW j \in Txs PROVE j < next' <=> \E a \in DOMAIN mem' : mem'[a] = j
    <3>1. j < next' <=> j < next \/ j = next
      BY <1>1, <1>2, TxAssumption DEF Txs
    <3>2. (\E a \in DOMAIN mem' : mem'[a] = j) <=> (\E a \in DOMAIN mem : mem[a] = j) \/ j = next
      BY <2>1, <2>3
    <3> QED
      BY <1>1, <3>1, <3>2 DEF MemoryInv
  <2> QED
    BY <1>1, <2>4, <2>5 DEF MemoryInv
<1>6. OrderInv' /\ StoreInv'
  BY <1>1 DEF OrderInv, StoreInv
<1> QED
  BY <1>3, <1>4, <1>5, <1>6

(* The flush after the synchronous run.                                    *)
LEMMA FallbackWriteIInv ==
    ASSUME IInv, FallbackWrite PROVE IInv'
<1> USE DEF IInv
<1>1. /\ phase = "sync" /\ phase' = "done" /\ next \notin Txs
      /\ UNCHANGED <<bad, cache, mem, tx, seen, channel, results, next, badWasm>>
  BY DEF FallbackWrite
<1>2. badWasm # {} /\ next = NumTxs + 1
  BY <1>1, TxAssumption DEF Shape, Txs
<1>3. Shape'
  <2>1. store' = [k \in Keys |-> store'[k]]
    BY DEF FallbackWrite, Flushed
  <2> QED
    BY <1>1, <1>2, <2>1 DEF Shape, Sent
<1>4. ResultInv'
  <2>1. \A j : Code(j)' = Code(j)
    BY <1>1 DEF Code
  <2>2. DOMAIN results = Txs
    BY <1>1, <1>2, TxAssumption DEF ResultInv, Txs
  <2> QED
    BY <1>1, <1>2, <2>1, <2>2 DEF ResultInv
<1>5. MemoryInv'
  <2>1. \A i \in Txs : i < next
    BY <1>2, TxAssumption DEF Txs
  <2> QED
    BY <1>1, <2>1 DEF MemoryInv
<1>6. OrderInv' /\ StoreInv'
  BY <1>1, <1>2 DEF OrderInv, StoreInv
<1> QED
  BY <1>3, <1>4, <1>5, <1>6

(* Every step preserves the invariant.                                     *)
LEMMA NextIInv == IInv /\ [Next]_vars => IInv'
<1> SUFFICES ASSUME IInv, [Next]_vars PROVE IInv'
  OBVIOUS
<1>1. CASE UNCHANGED vars
  <2>1. UNCHANGED <<bad, store, cache, mem, tx, seen, channel, results, phase, next, badWasm>>
    BY <1>1 DEF vars
  <2>2. Shape' /\ MemoryInv'
    <3>1. Shape'
      BY <2>1 DEF IInv, Shape, Sent
    <3>2. MemoryInv'
      BY <2>1 DEF IInv, MemoryInv, Sent
    <3> QED
      BY <3>1, <3>2
  <2>3. ResultInv'
    BY <2>1 DEF IInv, ResultInv, Sent, Code
  <2>4. OrderInv'
    BY <2>1 DEF IInv, OrderInv, Sent, Blocking, View
  <2>5. StoreInv'
    <3>1. \A k : View(k)' = View(k) /\ Written(k)' = Written(k)
      BY <2>1 DEF View, Written, Sent
    <3> QED
      BY <2>1, <3>1 DEF IInv, StoreInv
  <2> QED
    BY <2>2, <2>3, <2>4, <2>5 DEF IInv
<1> QED
  BY <1>1, DeliverReadIInv, DeliverWriteIInv, ReceiveIInv, WriteBackIInv, FallbackIInv,
     DeliverSyncIInv, FallbackWriteIInv DEF Next, Returned

(* The invariant holds throughout.                                         *)
LEMMA Invariance == Spec => []IInv
BY InitIInv, NextIInv, PTL DEF Spec

-----------------------------------------------------------------------------

(* A batch whose declared accesses were right leaves the store of the      *)
(* synchronous run, however the goroutines of ProcessBlockConcurrent were  *)
(* interleaved, for any number of transactions and any conflicts.          *)
THEOREM ConcurrentIsSynchronous == Spec => []ConcurrentEquivalent
<1>1. IInv => ConcurrentEquivalent
  <2> SUFFICES ASSUME IInv, phase = "done", badWasm = {} PROVE store = SequentialStore
    BY DEF ConcurrentEquivalent
  <2>1. bad = {} /\ \A i \in Txs : Sent(i)
    BY DEF IInv, Shape, ResultInv
  <2>2. ASSUME NEW k \in Keys PROVE store[k] = SequentialStore[k]
    <3>1. Written(k) = {i \in 1..NumTxs : k \in Touches[i]}
      BY <2>1 DEF Written, Txs
    <3>2. Lists(store[k], Written(k))
      BY DEF IInv, StoreInv
    <3>3. Lists(SequentialStore[k], Written(k))
      <4>1. NumTxs \in 0..NumTxs
        BY TxAssumption
      <4>2. Lists(SynchronousStore[NumTxs][k], {i \in 1..NumTxs : k \in Touches[i]})
        BY <4>1, SynchronousLists
      <4> QED
        BY <3>1, <4>2 DEF SequentialStore
    <3> QED
      BY <3>2, <3>3, ListsUnique
  <2>3. store = [k \in Keys |-> store[k]]
    BY DEF IInv, Shape
  <2>4. SequentialStore = [k \in Keys |-> SequentialStore[k]]
    <3>1. CASE NumTxs = 0
      BY <3>1, SynchronousStep DEF SequentialStore
    <3>2. CASE NumTxs # 0
      <4>1. NumTxs \in 1..NumTxs
        BY <3>2, TxAssumption
      <4>2. SequentialStore = Delivered(SynchronousStore[NumTxs - 1], NumTxs)
        BY <4>1, SynchronousStep DEF SequentialStore
      <4> QED
        BY <4>2 DEF Delivered
    <3> QED
      BY <3>1, <3>2
  <2> QED
    BY <2>2, <2>3, <2>4
<1> QED
  BY <1>1, Invariance, PTL

(* A sequence that holds every one of the first n numbers once has length  *)
(* n.                                                                      *)
LEMMA EachOnce ==
    ASSUME NEW n \in Nat, NEW s \in Seq(1..n),
           \A a, b \in DOMAIN s : s[a] = s[b] => a = b,
           \A i \in 1..n : \E a \in DOMAIN s : s[a] = i
    PROVE  Len(s) = n
<1>1. Len(s) \in Nat /\ DOMAIN s = 1..Len(s) /\ s \in [1..Len(s) -> 1..n]
  OBVIOUS
<1>2. s \in Bijection(1..Len(s), 1..n)
  BY <1>1 DEF Bijection, Injection, Surjection, IsInjective
<1>3. IsFiniteSet(1..Len(s)) /\ Cardinality(1..Len(s)) = Len(s) /\ Cardinality(1..n) = n
  <2>1. ASSUME NEW m \in Nat PROVE IsFiniteSet(1..m) /\ Cardinality(1..m) = m
    <3>1. IsFiniteSet(1..m) /\ Cardinality(1..m) = IF 1 > m THEN 0 ELSE m - 1 + 1
      BY FS_Interval
    <3> QED
      BY <3>1
  <2> QED
    BY <1>1, <2>1
<1>4. Cardinality(1..n) = Cardinality(1..Len(s))
  BY <1>2, <1>3, FS_Bijection DEF ExistsBijection
<1> QED
  BY <1>3, <1>4

(* When ProcessTxs returns, after a fallback too, there is one result and  *)
(* one record in the dex memory per transaction.                           *)
THEOREM ResultsRecordedOnce == Spec => []RecordedOnce
<1>1. IInv => RecordedOnce
  <2> SUFFICES ASSUME IInv, phase = "done"
               PROVE /\ DOMAIN results = Txs /\ \A i \in Txs : results[i] = "ok"
                     /\ Len(mem) = NumTxs /\ \A i \in Txs : \E k \in DOMAIN mem : mem[k] = i
    BY DEF RecordedOnce
  <2>1. DOMAIN results = Txs /\ \A i \in Txs : results[i] = "ok"
    BY DEF IInv, ResultInv
  <2>2. \A i \in Txs : \E k \in DOMAIN mem : mem[k] = i
    BY DEF IInv, MemoryInv
  <2>3. mem \in Seq(1..NumTxs) /\ \A a, b \in DOMAIN mem : mem[a] = mem[b] => a = b
    BY DEF IInv, MemoryInv, Shape, Txs
  <2>4. Len(mem) = NumTxs
    BY <2>2, <2>3, EachOnce, TxAssumption DEF Txs
  <2> QED
    BY <2>1, <2>2, <2>4
<1> QED
  BY <1>1, Invariance, PTL
=============================================================================
