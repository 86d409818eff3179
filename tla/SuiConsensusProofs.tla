------------------------- MODULE SuiConsensusProofs -------------------------
(***************************************************************************)
(* Proofs about the consensus path of the Sui benchmark, for every set of  *)
(* certificates, every use of shared objects and every channel capacity.   *)
(*                                                                         *)
(* InOnePlace, with TypeOK, is inductive: each action moves a certificate  *)
(* from one place to the next one, and the channel is moved through at its *)
(* two ends only.                                                          *)
(*                                                                         *)
(* ExecutedInDecidedOrder rests on the versions.  What a certificate       *)
(* writes is above all that it reads, so along the decided order the       *)
(* version to read an object at is never below what an earlier user        *)
(* writes (DecidedInv), and a live version above the first one was written *)
(* by an executed user (LiveInv).  A certificate whose versions are live   *)
(* then has all its predecessors executed.                                 *)
(***************************************************************************)
EXTENDS SuiConsensus, FiniteSetTheorems, WellFoundedInduction, TLAPS

Places == {"client", "channel", "consensus", "manager"}

(* What a channel holds after a certificate is sent: the old elements and  *)
(* the new one, once if it was not there.                                  *)
LEMMA Sent ==
    ASSUME NEW s \in Seq(Certs), NEW c \in Certs,
           \A i, j \in DOMAIN s : s[i] = s[j] => i = j,
           \A i \in DOMAIN s : s[i] # c
    PROVE  /\ Append(s, c) \in Seq(Certs)
           /\ \A d : (\E i \in DOMAIN Append(s, c) : Append(s, c)[i] = d)
                     <=> (d = c \/ \E i \in DOMAIN s : s[i] = d)
           /\ \A i, j \in DOMAIN Append(s, c) : Append(s, c)[i] = Append(s, c)[j] => i = j
<1>1. DOMAIN s = 1..Len(s) /\ DOMAIN Append(s, c) = 1..(Len(s) + 1) /\ Len(s) \in Nat
  OBVIOUS
<1>2. Append(s, c)[Len(s) + 1] = c /\ \A i \in 1..Len(s) : Append(s, c)[i] = s[i]
  OBVIOUS
<1>3. \A d : (\E i \in DOMAIN Append(s, c) : Append(s, c)[i] = d)
             <=> (d = c \/ \E i \in DOMAIN s : s[i] = d)
  BY <1>1, <1>2
<1>4. \A i, j \in DOMAIN Append(s, c) : Append(s, c)[i] = Append(s, c)[j] => i = j
  BY <1>1, <1>2
<1> QED
  BY <1>3, <1>4

(* What a channel without repetition holds after its head is received: the *)
(* old elements except the head.                                           *)
LEMMA Received ==
    ASSUME NEW s \in Seq(Certs), s # << >>,
           \A i, j \in DOMAIN s : s[i] = s[j] => i = j
    PROVE  /\ Head(s) \in Certs /\ Tail(s) \in Seq(Certs)
           /\ \E i \in DOMAIN s : s[i] = Head(s)
           /\ \A d : (\E i \in DOMAIN Tail(s) : Tail(s)[i] = d)
                     <=> (d # Head(s) /\ \E i \in DOMAIN s : s[i] = d)
           /\ \A i, j \in DOMAIN Tail(s) : Tail(s)[i] = Tail(s)[j] => i = j
<1>1. /\ DOMAIN s = 1..Len(s) /\ Len(s) \in Nat \ {0} /\ s[1] = Head(s)
      /\ DOMAIN Tail(s) = 1..(Len(s) - 1)
      /\ \A i \in 1..(Len(s) - 1) : Tail(s)[i] = s[i + 1]
      /\ Head(s) \in Certs /\ Tail(s) \in Seq(Certs)
  OBVIOUS
<1>2. \E i \in DOMAIN s : s[i] = Head(s)
  BY <1>1
<1>3. ASSUME NEW d
      PROVE  (\E i \in DOMAIN Tail(s) : Tail(s)[i] = d)
             <=> (d # Head(s) /\ \E i \in DOMAIN s : s[i] = d)
  <2>1. ASSUME NEW i \in DOMAIN Tail(s), Tail(s)[i] = d
        PROVE  d # Head(s) /\ \E k \in DOMAIN s : s[k] = d
    <3>1. i + 1 \in DOMAIN s /\ 1 \in DOMAIN s /\ i + 1 # 1 /\ s[i + 1] = d
      BY <1>1, <2>1
    <3> QED
      BY <1>1, <3>1
  <2>2. ASSUME NEW i \in DOMAIN s, s[i] = d, d # Head(s)
        PROVE  \E k \in DOMAIN Tail(s) : Tail(s)[k] = d
    <3>1. i # 1 /\ i - 1 \in DOMAIN Tail(s) /\ Tail(s)[i - 1] = s[(i - 1) + 1]
      BY <1>1, <2>2
    <3> QED
      BY <1>1, <2>2, <3>1
  <2> QED
    BY <2>1, <2>2
<1>4. ASSUME NEW i \in DOMAIN Tail(s), NEW j \in DOMAIN Tail(s), Tail(s)[i] = Tail(s)[j]
      PROVE  i = j
  <2>1. i + 1 \in DOMAIN s /\ j + 1 \in DOMAIN s /\ s[i + 1] = s[j + 1]
    BY <1>1, <1>4
  <2> QED
    BY <1>1, <2>1
<1> QED
  BY <1>1, <1>2, <1>3, <1>4

(* A certificate's four possible whereabouts, and the invariant in these   *)
(* terms.                                                                  *)
Sending(c) == \E i \in DOMAIN channel : channel[i] = c
Where(c) ==
    \/ client[c] = "start" /\ ~Sending(c) /\ handling # c /\ c \notin enqueued
    \/ client[c] # "start" /\ Sending(c) /\ handling # c /\ c \notin enqueued
    \/ client[c] # "start" /\ ~Sending(c) /\ handling = c /\ c \notin enqueued
    \/ client[c] # "start" /\ ~Sending(c) /\ handling # c /\ c \in enqueued
Distinct == \A i, j \in DOMAIN channel : channel[i] = channel[j] => i = j
IInv == TypeOK /\ Distinct /\ \A c \in Certs : Shared(c) => Where(c)

(* Being in one place is one of these four cases.                          *)
LEMMA OnePlace == IInv => InOnePlace
<1> SUFFICES ASSUME IInv, NEW c \in Certs, Shared(c)
             PROVE  \E here \in Places : \A place \in Places : At(c, place) <=> place = here
  BY DEF IInv, InOnePlace, Distinct, Places
<1>1. /\ At(c, "client") <=> client[c] = "start"
      /\ At(c, "channel") <=> Sending(c)
      /\ At(c, "consensus") <=> handling = c
      /\ At(c, "manager") <=> c \in enqueued
  BY DEF At, Sending
<1>2. Where(c)
  BY DEF IInv
<1> QED
  BY <1>1, <1>2 DEF Where, Places

(* The client tasks of the initial state hold every certificate.           *)
LEMMA Initially == Init => IInv
  BY ConsensusAssumption DEF Init, IInv, TypeOK, Distinct, Where, Sending, Shared

(* What submitting a certificate does to the channel.                      *)
LEMMA Submits ==
    ASSUME IInv, NEW c \in Certs, SubmitToConsensus(c)
    PROVE  /\ ~Sending(c) /\ handling # c /\ c \notin enqueued
           /\ channel' \in Seq(Certs) /\ Distinct'
           /\ \A d : Sending(d)' <=> (d = c \/ Sending(d))
<1>1. Where(c) /\ client[c] = "start"
  BY DEF IInv, SubmitToConsensus
<1>2. ~Sending(c) /\ handling # c /\ c \notin enqueued
  BY <1>1 DEF Where
<1>3. /\ channel \in Seq(Certs) /\ \A i \in DOMAIN channel : channel[i] # c
      /\ \A i, j \in DOMAIN channel : channel[i] = channel[j] => i = j
      /\ channel' = Append(channel, c)
  BY <1>2 DEF IInv, TypeOK, Distinct, Sending, SubmitToConsensus
<1>4. /\ Append(channel, c) \in Seq(Certs)
      /\ \A d : (\E i \in DOMAIN Append(channel, c) : Append(channel, c)[i] = d)
                <=> (d = c \/ \E i \in DOMAIN channel : channel[i] = d)
      /\ \A i, j \in DOMAIN Append(channel, c) :
            Append(channel, c)[i] = Append(channel, c)[j] => i = j
  BY <1>3, Sent, Zenon
<1> QED
  BY <1>2, <1>3, <1>4, Zenon DEF Distinct, Sending

(* What receiving the head of the channel does to it.                      *)
LEMMA Takes ==
    ASSUME IInv, Receive
    PROVE  /\ Head(channel) \in Certs /\ channel' \in Seq(Certs) /\ Distinct'
           /\ Sending(Head(channel))
           /\ \A d : Sending(d)' <=> (d # Head(channel) /\ Sending(d))
<1>1. /\ channel \in Seq(Certs) /\ channel # << >> /\ channel' = Tail(channel)
      /\ \A i, j \in DOMAIN channel : channel[i] = channel[j] => i = j
  BY DEF IInv, TypeOK, Distinct, Receive
<1>2. /\ Head(channel) \in Certs /\ Tail(channel) \in Seq(Certs)
      /\ \E i \in DOMAIN channel : channel[i] = Head(channel)
      /\ \A d : (\E i \in DOMAIN Tail(channel) : Tail(channel)[i] = d)
                <=> (d # Head(channel) /\ \E i \in DOMAIN channel : channel[i] = d)
      /\ \A i, j \in DOMAIN Tail(channel) :
            Tail(channel)[i] = Tail(channel)[j] => i = j
  BY <1>1, Received, Zenon
<1> QED
  BY <1>1, <1>2, Zenon DEF Distinct, Sending

(* Every step keeps every certificate in one place.                        *)
LEMMA Inductive == IInv /\ [Next]_vars => IInv'
<1> SUFFICES ASSUME IInv, [Next]_vars
             PROVE  IInv'
  OBVIOUS
<1>t. TypeOK /\ Distinct /\ None \notin Certs
  BY ConsensusAssumption DEF IInv
<1>1. ASSUME NEW c \in Certs, SubmitToConsensus(c)
      PROVE  IInv'
  <2>1. /\ channel' = Append(channel, c) /\ client' = [client EXCEPT ![c] = "waiting"]
        /\ received' = received /\ handling' = handling /\ enqueued' = enqueued
        /\ executed' = executed
    BY <1>1 DEF SubmitToConsensus
  <2>2. /\ ~Sending(c) /\ handling # c /\ c \notin enqueued
        /\ channel' \in Seq(Certs) /\ Distinct'
        /\ \A d : Sending(d)' <=> (d = c \/ Sending(d))
    BY <1>1, Submits
  <2>3. TypeOK'
    BY <1>t, <2>1, <2>2 DEF TypeOK
  <2>4. ASSUME NEW d \in Certs, Shared(d)
        PROVE  Where(d)'
    <3>1. Where(d)
      BY <2>4 DEF IInv
    <3>2. client'[d] = IF d = c THEN "waiting" ELSE client[d]
      BY <1>t, <2>1 DEF TypeOK
    <3> QED
      BY <2>1, <2>2, <3>1, <3>2 DEF Where
  <2> QED
    BY <2>2, <2>3, <2>4 DEF IInv, Shared
<1>2. ASSUME NEW c \in Certs, EnqueueOwned(c)
      PROVE  IInv'
  <2>1. /\ ~Shared(c) /\ client' = [client EXCEPT ![c] = "waiting"]
        /\ enqueued' = enqueued \cup {c} /\ channel' = channel /\ received' = received
        /\ handling' = handling /\ executed' = executed
    BY <1>2 DEF EnqueueOwned
  <2>2. TypeOK' /\ Distinct'
    BY <1>t, <2>1 DEF TypeOK, Distinct
  <2>3. ASSUME NEW d \in Certs, Shared(d)
        PROVE  Where(d)'
    <3>1. Where(d) /\ d # c
      BY <2>1, <2>3 DEF IInv
    <3>2. client'[d] = client[d]
      BY <1>t, <2>1, <3>1 DEF TypeOK
    <3> QED
      BY <2>1, <3>1, <3>2 DEF Where, Sending
  <2> QED
    BY <2>2, <2>3 DEF IInv, Shared
<1>3. CASE Receive
  <2>1. /\ handling = None /\ channel # << >>
        /\ handling' = Head(channel) /\ channel' = Tail(channel)
        /\ received' = Append(received, Head(channel))
        /\ client' = client /\ enqueued' = enqueued /\ executed' = executed
    BY <1>3 DEF Receive
  <2>2. /\ Head(channel) \in Certs /\ channel' \in Seq(Certs) /\ Distinct'
        /\ Sending(Head(channel))
        /\ \A d : Sending(d)' <=> (d # Head(channel) /\ Sending(d))
    BY <1>3, Takes
  <2>3. TypeOK'
    BY <1>t, <2>1, <2>2 DEF TypeOK
  <2>4. ASSUME NEW d \in Certs, Shared(d)
        PROVE  Where(d)'
    <3>1. Where(d) /\ handling # d
      BY <1>t, <2>1, <2>4 DEF IInv
    <3> QED
      BY <2>1, <2>2, <3>1 DEF Where
  <2> QED
    BY <2>2, <2>3, <2>4 DEF IInv, Shared
<1>4. CASE EnqueueReceived
  <2>1. /\ handling \in Certs /\ handling' = None
        /\ enqueued' = IF Shared(handling) THEN enqueued \cup {handling} ELSE enqueued
        /\ client' = client /\ channel' = channel /\ received' = received
        /\ executed' = executed
    BY <1>t, <1>4 DEF EnqueueReceived, TypeOK
  <2>2. TypeOK' /\ Distinct'
    BY <1>t, <2>1 DEF TypeOK, Distinct
  <2>3. ASSUME NEW d \in Certs, Shared(d)
        PROVE  Where(d)'
    <3>1. Where(d)
      BY <2>3 DEF IInv
    <3> QED
      BY <1>t, <2>1, <2>3, <3>1 DEF Where, Sending
  <2> QED
    BY <2>2, <2>3 DEF IInv, Shared
<1>5. ASSUME NEW c \in Certs, Execute(c)
      PROVE  IInv'
  <2>1. /\ executed' = Append(executed, c) /\ client' = client /\ channel' = channel
        /\ received' = received /\ handling' = handling /\ enqueued' = enqueued
    BY <1>5 DEF Execute
  <2> QED
    BY <1>t, <2>1 DEF IInv, TypeOK, Distinct, Where, Sending, Shared
<1>6. ASSUME NEW c \in Certs, Respond(c)
      PROVE  IInv'
  <2>1. /\ client[c] = "waiting" /\ client' = [client EXCEPT ![c] = "done"]
        /\ channel' = channel /\ received' = received /\ handling' = handling
        /\ enqueued' = enqueued /\ executed' = executed
    BY <1>6 DEF Respond
  <2>2. TypeOK' /\ Distinct'
    BY <1>t, <2>1 DEF TypeOK, Distinct
  <2>3. ASSUME NEW d \in Certs, Shared(d)
        PROVE  Where(d)'
    <3>1. Where(d)
      BY <2>3 DEF IInv
    <3>2. client'[d] = "start" <=> client[d] = "start"
      BY <1>t, <2>1 DEF TypeOK
    <3> QED
      BY <2>1, <3>1, <3>2 DEF Where, Sending
  <2> QED
    BY <2>2, <2>3 DEF IInv, Shared
<1>7. CASE UNCHANGED vars
  BY <1>7 DEF vars, IInv, TypeOK, Distinct, Where, Sending, Shared
<1> QED
  BY <1>1, <1>2, <1>3, <1>4, <1>5, <1>6, <1>7 DEF Next, CertNext

(* Under any schedule of the certificate tasks and of the consensus loop,  *)
(* a certificate with shared objects is with its client, in the channel,   *)
(* with run_impl or with the transaction manager, and in one place only:   *)
(* the mock consensus neither loses nor repeats a submission.              *)
THEOREM CertificatesInOnePlace == Spec => []InOnePlace
<1>1. Spec => []IInv
  BY Initially, Inductive, PTL DEF Spec
<1> QED
  BY <1>1, OnePlace, PTL
-----------------------------------------------------------------------------
(* Versions.                                                               *)

(* A set of naturals with an element has a least one.                      *)
LEMMA LeastNatural ==
    ASSUME NEW S \in SUBSET Nat, S # {}
    PROVE  \E m \in S : \A j \in S : m <= j
<1>1. PICK m \in S : \A y \in S : ~(<<y, m>> \in OpToRel(<, Nat))
  BY NatLessThanWellFounded, WFMin, Zenon
<1>2. ASSUME NEW j \in S PROVE ~(j < m)
  BY <1>1, <1>2, Zenon DEF OpToRel
<1>3. ASSUME NEW j \in S PROVE m <= j
  BY <1>2, <1>3
<1> QED
  BY <1>3

(* The maximum of a finite set of naturals is one of them, above the rest: *)
(* a subset without one, of the least size, would have one after all.      *)
LEMMA MaxOfFinite ==
    ASSUME NEW S \in SUBSET Nat, IsFiniteSet(S), S # {}
    PROVE  Max(S) \in S /\ \A y \in S : y <= Max(S)
<1> DEFINE Tops(s) == {m \in s : \A y \in s : m >= y}
           Bad == {s \in SUBSET S : s # {} /\ Tops(s) = {}}
           Sizes == {Cardinality(s) : s \in Bad}
<1>1. \A s \in SUBSET S : IsFiniteSet(s) /\ Cardinality(s) \in Nat
  BY FS_Subset, FS_CardinalityType
<1>2. Bad = {}
  <2>1. SUFFICES ASSUME Bad # {} PROVE FALSE
    OBVIOUS
  <2>2. Sizes \in SUBSET Nat /\ Sizes # {}
    BY <1>1, <2>1
  <2> HIDE DEF Sizes
  <2>3. PICK n \in Sizes : \A j \in Sizes : n <= j
    BY <2>2, LeastNatural
  <2>4. PICK s \in Bad : n = Cardinality(s)
    BY <2>3 DEF Sizes
  <2>5. PICK x \in s : x \in Nat
    BY <2>4
  <2>6. Cardinality(s \ {x}) = Cardinality(s) - 1 /\ Cardinality(s) \in Nat
    BY <1>1, <2>4, <2>5, FS_RemoveElement
  <2>7. s \ {x} \notin Bad
    <3>1. SUFFICES ASSUME s \ {x} \in Bad PROVE FALSE
      OBVIOUS
    <3>2. Cardinality(s \ {x}) \in Sizes
      BY <3>1 DEF Sizes
    <3> HIDE DEF Bad
    <3> QED
      BY <2>3, <2>4, <2>6, <3>2
  <2>8. CASE s \ {x} = {}
    <3>1. x \in Tops(s)
      BY <2>5, <2>8
    <3> QED
      BY <2>4, <3>1
  <2>9. CASE s \ {x} # {}
    <3>1. PICK m \in s \ {x} : \A y \in s \ {x} : m >= y
      BY <2>4, <2>7, <2>9
    <3>2. s \in SUBSET Nat /\ m \in Nat
      BY <2>4, <3>1
    <3>3. CASE m >= x
      <4>1. m \in Tops(s)
        BY <3>1, <3>2, <3>3
      <4> QED
        BY <2>4, <4>1
    <3>4. CASE x >= m
      <4>1. x \in Tops(s)
        BY <2>5, <3>1, <3>2, <3>4
      <4> QED
        BY <2>4, <4>1
    <3> QED
      BY <2>5, <3>2, <3>3, <3>4
  <2> QED
    BY <2>8, <2>9
<1>3. \E m \in S : \A y \in S : m >= y
  BY <1>2
<1>4. Max(S) \in S /\ \A y \in S : Max(S) >= y
  BY <1>3 DEF Max
<1> QED
  BY <1>4

(* What is computed from each member of a finite set makes a finite set.   *)
LEMMA FiniteImage ==
    ASSUME NEW f, NEW S, IsFiniteSet(S)
    PROVE  IsFiniteSet({f[x] : x \in S})
<1> DEFINE T == {f[x] : x \in S}
           g == [x \in S |-> f[x]]
<1>1. g \in [S -> T] /\ \A y \in T : \E x \in S : g[x] = y
  OBVIOUS
<1>2. g \in Surjection(S, T)
  BY <1>1 DEF Surjection
<1> HIDE DEF T, g
<1>3. IsFiniteSet(T)
  BY <1>2, FS_Surjection
<1> QED
  BY <1>3 DEF T

(* The inputs of a certificate, as the versions EffectsVersion looks at.   *)
LEMMA InputVersions ==
    ASSUME NEW c \in Certs, NEW ver
    PROVE  {r.ver : r \in InputRefs(CertTx(c), ver)} = {1} \cup {ver[o] : o \in Uses[c]}
<1>1. InputRefs(CertTx(c), ver) = {Ref(<<"gas", c>>, 1)} \cup {Ref(o, ver[o]) : o \in Uses[c]}
  BY DEF InputRefs, OwnedRefs, CertTx, Tx
<1>2. \A id, v : Ref(id, v).ver = v
  BY DEF Ref
<1> HIDE DEF Ref
<1> QED
  BY <1>1, <1>2

(* A certificate writes a version above every one that it reads.           *)
LEMMA EffectsAbove ==
    ASSUME NEW c \in Certs, NEW ver, \A o \in Uses[c] : ver[o] \in Nat
    PROVE  /\ EffectsVersion(CertTx(c), ver) \in Nat
           /\ EffectsVersion(CertTx(c), ver) > 1
           /\ \A o \in Uses[c] : ver[o] < EffectsVersion(CertTx(c), ver)
<1> DEFINE V == {1} \cup {ver[o] : o \in Uses[c]}
<1>1. V \in SUBSET Nat /\ V # {}
  OBVIOUS
<1>2. IsFiniteSet(V)
  <2>1. IsFiniteSet({ver[o] : o \in Uses[c]})
    BY FiniteImage, ConsensusAssumption
  <2>2. IsFiniteSet({1})
    BY FS_Singleton
  <2> QED
    BY <2>1, <2>2, FS_Union
<1>3. 1 \in V /\ \A o \in Uses[c] : ver[o] \in V
  OBVIOUS
<1>4. EffectsVersion(CertTx(c), ver) = 1 + Max(V)
  BY InputVersions DEF EffectsVersion
<1> HIDE DEF V
<1>5. Max(V) \in V /\ \A y \in V : y <= Max(V)
  BY <1>1, <1>2, MaxOfFinite
<1>6. Max(V) \in Nat /\ 1 <= Max(V) /\ \A o \in Uses[c] : ver[o] <= Max(V)
  BY <1>1, <1>3, <1>5
<1> HIDE DEF EffectsVersion
<1>7. PICK m \in Nat : m = Max(V)
  BY <1>6
<1> QED
  BY <1>4, <1>6, <1>7

(* The version it writes depends on the versions it reads only.            *)
LEMMA EffectsSame ==
    ASSUME NEW c \in Certs, NEW ver, NEW wer, \A o \in Uses[c] : ver[o] = wer[o]
    PROVE  EffectsVersion(CertTx(c), ver) = EffectsVersion(CertTx(c), wer)
<1>1. {ver[o] : o \in Uses[c]} = {wer[o] : o \in Uses[c]}
  OBVIOUS
<1> QED
  BY <1>1, InputVersions DEF EffectsVersion

(* The versions after one more transaction of the certified vector, and    *)
(* what the recursion in AssignedVersions says of f on the first n.        *)
After(store, tx, ver) ==
    [id \in DOMAIN store |-> IF id \in tx.shared THEN EffectsVersion(tx, ver) ELSE ver[id]]
Follows(f, store, txs, n) ==
    f = [i \in 0..n |-> IF i = 0 THEN store ELSE After(store, txs[i], f[i - 1])]

(* The recursion has a solution.                                           *)
LEMMA FollowsExists ==
    ASSUME NEW store, NEW txs
    PROVE  \A n \in Nat : \E f : Follows(f, store, txs, n)
<1> DEFINE Bad == {n \in Nat : ~ \E f : Follows(f, store, txs, n)}
<1>1. SUFFICES ASSUME Bad # {} PROVE FALSE
  BY <1>1
<1>2. PICK n \in Bad : \A j \in Bad : n <= j
  BY <1>1, LeastNatural
<1> HIDE DEF Bad
<1>3. n \in Nat /\ ~ \E f : Follows(f, store, txs, n)
  BY <1>2 DEF Bad
<1>4. n # 0
  <2>1. SUFFICES ASSUME n = 0 PROVE FALSE
    OBVIOUS
  <2> DEFINE f == [i \in 0..0 |-> store]
  <2>2. f = [i \in 0..0 |-> IF i = 0 THEN store ELSE After(store, txs[i], f[i - 1])]
    OBVIOUS
  <2>3. Follows(f, store, txs, 0)
    BY <2>2 DEF Follows
  <2> QED
    BY <1>3, <2>1, <2>3
<1>5. n - 1 \in Nat /\ n - 1 \notin Bad
  BY <1>2, <1>3, <1>4
<1>6. PICK g : Follows(g, store, txs, n - 1)
  BY <1>5 DEF Bad
<1> DEFINE f == [i \in 0..n |-> IF i = n THEN After(store, txs[n], g[n - 1]) ELSE g[i]]
<1>7. \A i \in 0..(n - 1) : g[i] = IF i = 0 THEN store ELSE After(store, txs[i], g[i - 1])
  BY <1>6 DEF Follows
<1>8. ASSUME NEW i \in 0..n
      PROVE f[i] = IF i = 0 THEN store ELSE After(store, txs[i], f[i - 1])
  <2>1. CASE i = n
    <3>1. i # 0 /\ n - 1 \in 0..n /\ n - 1 # n
      BY <1>3, <1>4, <2>1
    <3>2. f[n - 1] = g[n - 1] /\ f[n] = After(store, txs[n], g[n - 1])
      BY <1>3, <3>1
    <3> QED
      BY <2>1, <3>1, <3>2
  <2>2. CASE i = 0
    BY <1>3, <1>4, <1>7, <2>2
  <2>3. CASE i # n /\ i # 0
    <3>1. i \in 0..(n - 1) /\ i - 1 \in 0..n /\ i - 1 # n
      BY <1>3, <2>3
    <3>2. f[i] = g[i] /\ f[i - 1] = g[i - 1]
      BY <2>3, <3>1
    <3> QED
      BY <1>7, <2>3, <3>1, <3>2
  <2> QED
    BY <2>1, <2>2, <2>3
<1>9. Follows(f, store, txs, n)
  <2>1. f = [i \in 0..n |-> f[i]]
    OBVIOUS
  <2> HIDE DEF f
  <2> QED
    BY <1>8, <2>1 DEF Follows
<1> QED
  BY <1>3, <1>9

(* AssignedVersions, one transaction of the vector at a time.              *)
Steps(f, store, txs, n) ==
    /\ f[0] = store
    /\ \A i \in 1..n : f[i] = After(store, txs[i], f[i - 1])
    /\ \A i \in 1..n :
          AssignedVersions(store, txs)[i] = [o \in txs[i].shared |-> f[i - 1][o]]

(* There is a function that goes through these steps.                      *)
LEMMA AssignedStep ==
    ASSUME NEW store, NEW txs, NEW n \in Nat, Len(txs) = n
    PROVE  \E f : Steps(f, store, txs, n)
<1> DEFINE f == CHOOSE g : Follows(g, store, txs, Len(txs))
<1>1. Follows(f, store, txs, Len(txs))
  BY FollowsExists
<1>2. AssignedVersions(store, txs) = [i \in 1..Len(txs) |-> [o \in txs[i].shared |-> f[i - 1][o]]]
  BY DEF AssignedVersions, Follows, After
<1> HIDE DEF f
<1>3. \A i \in 0..n : f[i] = IF i = 0 THEN store ELSE After(store, txs[i], f[i - 1])
  BY <1>1 DEF Follows
<1>4. f[0] = store /\ \A i \in 1..n : f[i] = After(store, txs[i], f[i - 1])
  BY <1>3
<1>5. Steps(f, store, txs, n)
  BY <1>2, <1>4 DEF Steps
<1> QED
  BY <1>5

(* The chain of versions along a sequence of n certificates, and versions  *)
(* assigned to the certificates from it.                                   *)
Chain(f, s, n) ==
    /\ \A o \in Objects : f[0][o] = 1
    /\ \A i \in 1..n : \A o \in Objects :
          f[i][o] = IF o \in Uses[s[i]] THEN EffectsVersion(CertTx(s[i]), f[i - 1])
                    ELSE f[i - 1][o]
From(a, f, s, n) == \A i \in 1..n : \A o \in Uses[s[i]] : a[s[i]][o] = f[i - 1][o]

(* The versions of a chain grow, and what each certificate is assigned     *)
(* from it increases past what the ones before write.                      *)
LEMMA Increasing ==
    ASSUME NEW n \in Nat, NEW s \in [1..n -> Certs], NEW f, NEW a,
           Chain(f, s, n), From(a, f, s, n)
    PROVE  /\ \A i \in 1..n : \A o \in Uses[s[i]] : a[s[i]][o] \in Nat
           /\ \A i, j \in 1..n : i < j =>
                 \A o \in Uses[s[i]] \cap Uses[s[j]] :
                     EffectsVersion(CertTx(s[i]), a[s[i]]) <= a[s[j]][o]
<1>1. \A i \in 1..n : s[i] \in Certs /\ Uses[s[i]] \subseteq Objects
  BY ConsensusAssumption
<1> DEFINE Grows(j) == \A o \in Objects : /\ f[j][o] \in Nat
                                          /\ \A i \in 0..j : f[i][o] <= f[j][o]
           Bad == {j \in 0..n : ~Grows(j)}
<1>2. \A j \in 0..n : Grows(j)
  <2>1. SUFFICES ASSUME Bad # {} PROVE FALSE
    OBVIOUS
  <2>2. PICK j \in Bad : \A k \in Bad : j <= k
    <3>1. Bad \in SUBSET Nat
      OBVIOUS
    <3> HIDE DEF Bad
    <3> QED
      BY <2>1, <3>1, LeastNatural
  <2>3. j \in 0..n /\ ~Grows(j)
    BY <2>2
  <2>4. j # 0
    <3>1. \A i \in 0..0 : i = 0
      OBVIOUS
    <3>2. Grows(0)
      BY <3>1 DEF Chain
    <3> QED
      BY <2>3, <3>2
  <2>5. j \in 1..n /\ j - 1 \in 0..n /\ j - 1 \in Nat
    BY <2>3, <2>4
  <2>6. Grows(j - 1)
    <3>1. j - 1 \notin Bad
      BY <2>2, <2>5
    <3> HIDE DEF Grows
    <3> QED
      BY <2>5, <3>1
  <2>7. ASSUME NEW o \in Objects
        PROVE  f[j][o] \in Nat /\ \A i \in 0..j : f[i][o] <= f[j][o]
    <3>1. f[j - 1][o] \in Nat /\ \A i \in 0..(j - 1) : f[i][o] <= f[j - 1][o]
      BY <2>6
    <3>2. f[j][o] \in Nat /\ f[j - 1][o] <= f[j][o]
      <4>1. CASE o \in Uses[s[j]]
        <5>1. \A p \in Uses[s[j]] : f[j - 1][p] \in Nat
          BY <1>1, <2>5, <2>6
        <5>2. s[j] \in Certs /\ f[j][o] = EffectsVersion(CertTx(s[j]), f[j - 1])
          BY <1>1, <2>5, <4>1 DEF Chain
        <5>3. f[j][o] \in Nat /\ f[j - 1][o] < f[j][o]
          BY <4>1, <5>1, <5>2, EffectsAbove
        <5> QED
          BY <3>1, <5>3
      <4>2. CASE o \notin Uses[s[j]]
        BY <2>5, <3>1, <4>2 DEF Chain
      <4> QED
        BY <4>1, <4>2
    <3>3. ASSUME NEW i \in 0..j
          PROVE  f[i][o] <= f[j][o]
      <4>1. CASE i = j
        BY <3>2, <4>1
      <4>2. CASE i # j
        <5>1. i \in 0..(j - 1)
          BY <2>5, <4>2
        <5>2. PICK x \in Int : x = f[i][o]
          <6>1. i \in 0..n /\ ~(i \in Bad)
            BY <2>2, <2>5, <5>1
          <6> QED
            BY <6>1
        <5> QED
          BY <3>1, <3>2, <5>1, <5>2
      <4> QED
        BY <4>1, <4>2
    <3> QED
      BY <3>2, <3>3
  <2> QED
    BY <2>3, <2>7
<1>3. ASSUME NEW i \in 1..n, NEW o \in Uses[s[i]]
      PROVE  a[s[i]][o] \in Nat
  <2>1. o \in Objects /\ i - 1 \in 0..n
    BY <1>1
  <2> QED
    BY <1>2, <2>1 DEF From
<1> HIDE DEF Grows
<1>4. ASSUME NEW i \in 1..n, NEW j \in 1..n, i < j, NEW o \in Uses[s[i]] \cap Uses[s[j]]
      PROVE  EffectsVersion(CertTx(s[i]), a[s[i]]) <= a[s[j]][o]
  <2>1. o \in Objects /\ s[i] \in Certs
    BY <1>1
  <2>2. EffectsVersion(CertTx(s[i]), a[s[i]]) = EffectsVersion(CertTx(s[i]), f[i - 1])
    <3>1. \A p \in Uses[s[i]] : a[s[i]][p] = f[i - 1][p]
      BY DEF From
    <3> QED
      BY <2>1, <3>1, EffectsSame
  <2>3. f[i][o] = EffectsVersion(CertTx(s[i]), f[i - 1])
    BY <2>1 DEF Chain
  <2>4. a[s[j]][o] = f[j - 1][o]
    BY DEF From
  <2>5. j - 1 \in 0..n /\ i \in 0..(j - 1)
    BY <1>4
  <2>6. f[i][o] <= f[j - 1][o]
    BY <1>2, <2>1, <2>5 DEF Grows
  <2> QED
    BY <2>2, <2>3, <2>4, <2>6
<1> QED
  BY <1>3, <1>4

(* The versions assigned along a sequence of certificates are from a chain. *)
LEMMA VectorVersions ==
    ASSUME NEW n \in Nat, NEW s \in [1..n -> Certs], NEW a,
           \A i \in 1..n :
               a[s[i]] = AssignedVersions(Store, [k \in 1..n |-> CertTx(s[k])])[i]
    PROVE  \E f : Chain(f, s, n) /\ From(a, f, s, n)
<1> DEFINE txs == [k \in 1..n |-> CertTx(s[k])]
           ver == AssignedVersions(Store, txs)
<1>1. /\ Len(txs) = n
      /\ \A i \in 1..n : txs[i] = CertTx(s[i]) /\ txs[i].shared = Uses[s[i]]
  <2>1. DOMAIN txs = 1..n /\ \A i \in 1..n : txs[i] = CertTx(s[i])
    OBVIOUS
  <2>2. \A c : CertTx(c).shared = Uses[c]
    BY DEF CertTx, Tx
  <2>3. Len(txs) = n
    OBVIOUS
  <2> HIDE DEF txs
  <2> QED
    BY <2>1, <2>2, <2>3
<1>2. \A i \in 1..n : a[s[i]] = ver[i]
  OBVIOUS
<1> HIDE DEF txs
<1>3. PICK f : Steps(f, Store, txs, n)
  BY <1>1, AssignedStep, Zenon
<1>4. /\ f[0] = Store
      /\ \A i \in 1..n : f[i] = After(Store, txs[i], f[i - 1])
      /\ \A i \in 1..n : ver[i] = [o \in txs[i].shared |-> f[i - 1][o]]
  BY <1>3, Zenon DEF Steps
<1> HIDE DEF ver
<1>5. ASSUME NEW i \in 1..n, NEW o \in Objects
      PROVE  f[i][o] = IF o \in Uses[s[i]] THEN EffectsVersion(CertTx(s[i]), f[i - 1])
                       ELSE f[i - 1][o]
  <2>1. o \in DOMAIN Store
    BY DEF Store
  <2>2. txs[i] = CertTx(s[i]) /\ txs[i].shared = Uses[s[i]]
        /\ f[i] = After(Store, txs[i], f[i - 1])
    BY <1>1, <1>4
  <2> QED
    BY <2>1, <2>2 DEF After
<1>6. ASSUME NEW i \in 1..n, NEW o \in Uses[s[i]]
      PROVE  a[s[i]][o] = f[i - 1][o]
  <2>1. o \in txs[i].shared
    BY <1>1
  <2>2. a[s[i]] = [p \in txs[i].shared |-> f[i - 1][p]]
    BY <1>2, <1>4
  <2> QED
    BY <2>1, <2>2, Zenon
<1>7. \A o \in Objects : f[0][o] = 1
  BY <1>4 DEF Store
<1>8. Chain(f, s, n)
  BY <1>5, <1>7 DEF Chain
<1>9. From(a, f, s, n)
  BY <1>6 DEF From
<1> QED
  BY <1>8, <1>9, Zenon

(* The certified vector and the versions of the initial state.             *)
Vector(s) == s \in {t \in [1..Cardinality(Certs) -> Certs] : Range(t) = Certs}
Along(a, s) ==
    a = LET ver == AssignedVersions(Store, [i \in DOMAIN s |-> CertTx(s[i])])
        IN  [c \in Certs |-> ver[CHOOSE i \in DOMAIN s : s[i] = c]]

(* Every certificate is in the vector once, so its versions are from a     *)
(* chain too.                                                              *)
LEMMA BatchVersions ==
    ASSUME NEW s, Vector(s), NEW a, Along(a, s)
    PROVE  /\ s \in Seq(Certs) /\ \A c \in Certs : \E i \in DOMAIN s : s[i] = c
           /\ \A c \in Certs : \A o \in Uses[c] : a[c][o] \in Nat
           /\ \A i, j \in DOMAIN s : i < j =>
                 \A o \in Uses[s[i]] \cap Uses[s[j]] :
                     EffectsVersion(CertTx(s[i]), a[s[i]]) <= a[s[j]][o]
<1>1. PICK n \in Nat : n = Cardinality(Certs)
  BY ConsensusAssumption, FS_CardinalityType
<1>2. s \in [1..n -> Certs] /\ DOMAIN s = 1..n /\ \A c \in Certs : \E i \in 1..n : s[i] = c
  BY <1>1 DEF Vector, Range
<1>3. \A i, j \in 1..n : s[i] = s[j] => i = j
  <2>1. s \in Surjection(1..n, Certs)
    BY <1>2 DEF Surjection
  <2>2. IsFiniteSet(1..n) /\ Cardinality(1..n) = n
    BY FS_Interval
  <2>3. s \in Injection(1..n, Certs)
    BY <1>1, <2>1, <2>2, FS_Surjection
  <2> QED
    BY <2>3 DEF Injection, IsInjective
<1>4. \A i \in 1..n : s[i] \in Certs /\ (CHOOSE k \in DOMAIN s : s[k] = s[i]) = i
  BY <1>2, <1>3
<1>5. \A i \in 1..n :
         a[s[i]] = AssignedVersions(Store, [k \in 1..n |-> CertTx(s[k])])[i]
  <2>1. PICK ver : /\ ver = AssignedVersions(Store, [k \in 1..n |-> CertTx(s[k])])
                   /\ a = [c \in Certs |-> ver[CHOOSE i \in DOMAIN s : s[i] = c]]
    BY <1>2, Zenon DEF Along
  <2>2. \A i \in 1..n : a[s[i]] = ver[i]
    <3>1. ASSUME NEW i \in 1..n
          PROVE  a[s[i]] = ver[i]
      <4>1. a[s[i]] = ver[CHOOSE k \in DOMAIN s : s[k] = s[i]]
        BY <1>4, <2>1, Zenon
      <4> QED
        BY <1>4, <4>1, Zenon
    <3> QED
      BY <3>1
  <2> QED
    BY <2>1, <2>2, Zenon
<1>6. PICK f : Chain(f, s, n) /\ From(a, f, s, n)
  BY <1>2, <1>5, VectorVersions, Zenon
<1>7. /\ \A i \in 1..n : \A o \in Uses[s[i]] : a[s[i]][o] \in Nat
      /\ \A i, j \in 1..n : i < j =>
            \A o \in Uses[s[i]] \cap Uses[s[j]] :
                EffectsVersion(CertTx(s[i]), a[s[i]]) <= a[s[j]][o]
  BY <1>2, <1>6, Increasing, Zenon
<1>8. \A c \in Certs : \A o \in Uses[c] : a[c][o] \in Nat
  BY <1>2, <1>7, Zenon
<1>9. s \in Seq(Certs)
  BY <1>2
<1> QED
  BY <1>2, <1>7, <1>8, <1>9, Zenon

-----------------------------------------------------------------------------
(* The decided order.                                                      *)

(* What the proof below says of the versions.                              *)
Effects(c) == EffectsVersion(CertTx(c), assigned[c])
Got(c) == \E i \in DOMAIN received : received[i] = c

(* What went through the consensus is what the manager was given of the    *)
(* certificates with shared objects, and what run_impl still holds.        *)
PassedInv ==
    /\ consensus_mode \in {"Noop", "DirectSequencing"}
    /\ batch \in Seq(Certs) /\ \A c \in Certs : \E i \in DOMAIN batch : batch[i] = c
    /\ \A c \in Certs : Sending(c) \/ handling = c => Shared(c)
    /\ \A c \in Certs : Got(c) <=> handling = c \/ (Shared(c) /\ c \in enqueued)
    /\ \A m \in DOMAIN executed : executed[m] \in enqueued

VersionsInv ==
    /\ Objects \subseteq DOMAIN live /\ Objects \subseteq DOMAIN next /\ DOMAIN assigned = Certs
    /\ \A o \in Objects : live[o] \in Nat /\ next[o] \in Nat
    /\ \A c \in Certs : \A o \in Uses[c] : assigned[c][o] \in Nat

(* Along the decided order the versions to read an object at increase past *)
(* what the certificates before write.                                     *)
DecidedInv ==
    \A i, j \in DOMAIN DecidedOrder : i < j =>
        \A o \in Uses[DecidedOrder[i]] \cap Uses[DecidedOrder[j]] :
            Effects(DecidedOrder[i]) <= assigned[DecidedOrder[j]][o]

(* The versions kept for the next certificate are past all of them.        *)
NextInv ==
    consensus_mode = "DirectSequencing" =>
        \A i \in DOMAIN received : \A o \in Uses[received[i]] : Effects(received[i]) <= next[o]

(* A live version is the first one or what an executed certificate wrote.  *)
LiveInv ==
    \A o \in Objects :
        \/ live[o] = 1
        \/ \E m \in DOMAIN executed : o \in Uses[executed[m]] /\ live[o] = Effects(executed[m])

OrderInv ==
    /\ PassedInv /\ VersionsInv /\ DecidedInv /\ NextInv /\ LiveInv
    /\ ExecutedInDecidedOrder

(* Appending to a sequence of certificates.                                *)
LEMMA Appended ==
    ASSUME NEW s \in Seq(Certs), NEW c \in Certs
    PROVE  /\ Append(s, c) \in Seq(Certs) /\ Len(s) \in Nat
           /\ DOMAIN s = 1..Len(s) /\ DOMAIN Append(s, c) = 1..(Len(s) + 1)
           /\ Append(s, c)[Len(s) + 1] = c /\ \A i \in 1..Len(s) : Append(s, c)[i] = s[i]
  OBVIOUS

(* A certificate with shared objects that the manager knows has its place  *)
(* in the decided order.                                                   *)
LEMMA HasPlace ==
    ASSUME TypeOK, PassedInv
    PROVE  /\ DecidedOrder \in Seq(Certs) /\ DOMAIN DecidedOrder = 1..Len(DecidedOrder)
           /\ Len(DecidedOrder) \in Nat
           /\ \A c \in enqueued : Shared(c) => \E j \in DOMAIN DecidedOrder : DecidedOrder[j] = c
<1>1. CASE consensus_mode = "DirectSequencing"
  <2>1. DecidedOrder = received /\ received \in Seq(Certs) /\ enqueued \subseteq Certs
    BY <1>1 DEF DecidedOrder, TypeOK
  <2> QED
    BY <2>1 DEF PassedInv, Got
<1>2. CASE consensus_mode # "DirectSequencing"
  <2>1. DecidedOrder = batch /\ batch \in Seq(Certs) /\ enqueued \subseteq Certs
    BY <1>2 DEF DecidedOrder, TypeOK, PassedInv
  <2> QED
    BY <2>1 DEF PassedInv
<1> QED
  BY <1>1, <1>2

(* The initial versions.                                                   *)
LEMMA OrderInit == Init => OrderInv
<1> SUFFICES ASSUME Init PROVE OrderInv
  OBVIOUS
<1>1. /\ consensus_mode \in {"Noop", "DirectSequencing"}
      /\ live = Store /\ next = Store /\ Vector(batch) /\ Along(assigned, batch)
      /\ channel = <<>> /\ received = <<>> /\ handling = None
      /\ enqueued = {} /\ executed = <<>>
  BY Zenon DEF Init, Vector, Along
<1>2. /\ batch \in Seq(Certs) /\ \A c \in Certs : \E i \in DOMAIN batch : batch[i] = c
      /\ \A c \in Certs : \A o \in Uses[c] : assigned[c][o] \in Nat
      /\ \A i, j \in DOMAIN batch : i < j =>
            \A o \in Uses[batch[i]] \cap Uses[batch[j]] :
                EffectsVersion(CertTx(batch[i]), assigned[batch[i]]) <= assigned[batch[j]][o]
  BY <1>1, BatchVersions, Zenon
<1>3. DOMAIN assigned = Certs
  BY <1>1, Zenon DEF Along
<1>4. /\ Objects \subseteq DOMAIN live /\ Objects \subseteq DOMAIN next
      /\ \A o \in Objects : live[o] = 1 /\ next[o] = 1
  BY <1>1 DEF Store
<1>5. PassedInv
  BY <1>1, <1>2, ConsensusAssumption DEF PassedInv, Sending, Got
<1>6. VersionsInv
  BY <1>2, <1>3, <1>4 DEF VersionsInv
<1>7. DecidedInv
  <2>1. DecidedOrder = received \/ DecidedOrder = batch
    BY DEF DecidedOrder
  <2>2. DOMAIN received = {}
    BY <1>1
  <2> QED
    BY <1>2, <2>1, <2>2 DEF DecidedInv, Effects
<1>8. NextInv
  BY <1>1 DEF NextInv
<1>9. LiveInv
  BY <1>4 DEF LiveInv
<1>10. ExecutedInDecidedOrder
  BY <1>1 DEF ExecutedInDecidedOrder
<1> QED
  BY <1>5, <1>6, <1>7, <1>8, <1>9, <1>10 DEF OrderInv

(* A step that neither decides nor executes leaves the versions alone.     *)
LEMMA OrderKept ==
    ASSUME OrderInv,
           UNCHANGED <<consensus_mode, batch, assigned, next, live, received, executed>>,
           PassedInv'
    PROVE  OrderInv'
<1>1. VersionsInv'
  BY DEF OrderInv, VersionsInv
<1>2. DecidedInv'
  BY DEF OrderInv, DecidedInv, DecidedOrder, Effects
<1>3. NextInv'
  BY DEF OrderInv, NextInv, Effects
<1>4. LiveInv'
  BY DEF OrderInv, LiveInv, Effects
<1>5. ExecutedInDecidedOrder'
  BY DEF OrderInv, ExecutedInDecidedOrder, DecidedOrder, Shared
<1> QED
  BY <1>1, <1>2, <1>3, <1>4, <1>5 DEF OrderInv

(* What goes through the consensus, and through nothing else, is received. *)
LEMMA PassedKept ==
    ASSUME IInv, PassedInv, [Next]_vars
    PROVE  PassedInv'
<1>t. None \notin Certs /\ channel \in Seq(Certs) /\ received \in Seq(Certs)
      /\ executed \in Seq(Certs) /\ handling \in Certs \cup {None}
  BY ConsensusAssumption DEF IInv, TypeOK
<1>1. ASSUME NEW c \in Certs, SubmitToConsensus(c)
      PROVE  PassedInv'
  <2>1. \A d : Sending(d)' <=> (d = c \/ Sending(d))
    BY <1>1, Submits
  <2>2. Shared(c) /\ UNCHANGED <<consensus_mode, batch, received, handling, enqueued, executed>>
    BY <1>1 DEF SubmitToConsensus
  <2> QED
    BY <2>1, <2>2 DEF PassedInv, Got, Shared
<1>2. ASSUME NEW c \in Certs, EnqueueOwned(c)
      PROVE  PassedInv'
  <2>1. /\ ~Shared(c) /\ enqueued' = enqueued \cup {c}
        /\ UNCHANGED <<consensus_mode, batch, channel, received, handling, executed>>
    BY <1>2 DEF EnqueueOwned
  <2> QED
    BY <2>1 DEF PassedInv, Got, Sending, Shared
<1>3. CASE Receive
  <2>1. PICK h \in Certs : h = Head(channel)
    BY <1>3, Takes
  <2>2. Sending(h) /\ \A d : Sending(d)' <=> (d # h /\ Sending(d))
    BY <1>3, <2>1, Takes
  <2>3. /\ handling = None /\ handling' = h /\ received' = Append(received, h)
        /\ UNCHANGED <<consensus_mode, batch, enqueued, executed>>
    BY <1>3, <2>1 DEF Receive
  <2>4. \A d : Got(d)' <=> (d = h \/ Got(d))
    <3>1. /\ Len(received) \in Nat
          /\ DOMAIN received = 1..Len(received) /\ DOMAIN received' = 1..(Len(received) + 1)
          /\ received'[Len(received) + 1] = h
          /\ \A i \in 1..Len(received) : received'[i] = received[i]
      BY <1>t, <2>3, Appended
    <3> QED
      BY <3>1 DEF Got
  <2>5. Shared(h)
    BY <2>2 DEF PassedInv
  <2> QED
    BY <1>t, <2>2, <2>3, <2>4, <2>5 DEF PassedInv, Shared
<1>4. CASE EnqueueReceived
  <2>1. PICK h \in Certs : h = handling
    BY <1>t, <1>4 DEF EnqueueReceived
  <2>2. Shared(h) /\ handling' = None /\ enqueued' = enqueued \cup {h}
        /\ UNCHANGED <<consensus_mode, batch, channel, received, executed>>
    BY <1>4, <2>1 DEF EnqueueReceived, PassedInv
  <2> QED
    BY <1>t, <2>1, <2>2 DEF PassedInv, Got, Sending, Shared
<1>5. ASSUME NEW c \in Certs, Execute(c)
      PROVE  PassedInv'
  <2>1. /\ c \in enqueued /\ executed' = Append(executed, c)
        /\ UNCHANGED <<consensus_mode, batch, channel, received, handling, enqueued>>
    BY <1>5 DEF Execute
  <2>2. \A m \in DOMAIN executed' : executed'[m] \in enqueued'
    <3>1. /\ Len(executed) \in Nat
          /\ DOMAIN executed = 1..Len(executed) /\ DOMAIN executed' = 1..(Len(executed) + 1)
          /\ executed'[Len(executed) + 1] = c
          /\ \A i \in 1..Len(executed) : executed'[i] = executed[i]
      BY <1>t, <2>1, Appended
    <3> QED
      BY <2>1, <3>1 DEF PassedInv
  <2> QED
    BY <2>1, <2>2 DEF PassedInv, Got, Sending, Shared
<1>6. ASSUME NEW c \in Certs, Respond(c)
      PROVE  PassedInv'
  BY <1>6 DEF Respond, PassedInv, Got, Sending, Shared
<1>7. CASE UNCHANGED vars
  BY <1>7 DEF vars, PassedInv, Got, Sending, Shared
<1> QED
  BY <1>1, <1>2, <1>3, <1>4, <1>5, <1>6, <1>7 DEF Next, CertNext

(* Sequencing puts the received certificate at the end of the decided      *)
(* order, at versions past all that is written before it.                  *)
LEMMA ReceiveOrder ==
    ASSUME IInv, OrderInv, PassedInv', Receive
    PROVE  OrderInv'
<1>t. received \in Seq(Certs) /\ executed \in Seq(Certs) /\ enqueued \subseteq Certs
  BY DEF IInv, TypeOK
<1>1. PICK h \in Certs : h = Head(channel)
  BY Takes
<1>2. /\ received' = Append(received, h)
      /\ UNCHANGED <<consensus_mode, batch, live, enqueued, executed>>
  BY <1>1 DEF Receive
<1>3. CASE consensus_mode # "DirectSequencing"
  <2>1. UNCHANGED <<assigned, next>> /\ DecidedOrder = batch /\ DecidedOrder' = batch
    BY <1>2, <1>3 DEF Receive, DecidedOrder
  <2>2. VersionsInv'
    BY <1>2, <2>1 DEF OrderInv, VersionsInv
  <2>3. DecidedInv'
    BY <2>1 DEF OrderInv, DecidedInv, Effects
  <2>4. NextInv'
    BY <1>2, <1>3 DEF NextInv
  <2>5. LiveInv'
    BY <1>2, <2>1 DEF OrderInv, LiveInv, Effects
  <2>6. ExecutedInDecidedOrder'
    BY <1>2, <2>1 DEF OrderInv, ExecutedInDecidedOrder, Shared
  <2> QED
    BY <2>2, <2>3, <2>4, <2>5, <2>6 DEF OrderInv
<1>4. CASE consensus_mode = "DirectSequencing"
  <2> DEFINE e == EffectsVersion(CertTx(h), next)
             n == Len(received)
  <2>1. Shared(h) /\ h \notin enqueued /\ handling # h
    <3>1. Sending(h)
      BY <1>1, Takes
    <3>2. Shared(h)
      BY <3>1 DEF OrderInv, PassedInv
    <3> QED
      BY <3>1, <3>2 DEF IInv, Where
  <2>2. /\ \A i \in DOMAIN received : received[i] \in Certs /\ received[i] # h
        /\ \A m \in DOMAIN executed : executed[m] \in Certs /\ executed[m] # h
    BY <1>t, <2>1 DEF OrderInv, PassedInv, Got
  <2>3. /\ n \in Nat /\ DOMAIN received = 1..n /\ DOMAIN received' = 1..(n + 1)
        /\ received'[n + 1] = h /\ \A i \in 1..n : received'[i] = received[i]
    BY <1>t, <1>2, Appended
  <2>4. /\ assigned' = [assigned EXCEPT ![h] = [o \in Uses[h] |-> next[o]]]
        /\ next' = [o \in DOMAIN next |-> IF o \in Uses[h] THEN e ELSE next[o]]
    BY <1>1, <1>4 DEF Receive, Sequence
  <2>5. /\ DOMAIN assigned' = Certs
        /\ \A c \in Certs : c # h => assigned'[c] = assigned[c]
        /\ assigned'[h] = [o \in Uses[h] |-> next[o]]
    BY <2>4 DEF OrderInv, VersionsInv
  <2>6. /\ Objects \subseteq DOMAIN next'
        /\ \A o \in Objects : next'[o] = IF o \in Uses[h] THEN e ELSE next[o]
    BY <2>4 DEF OrderInv, VersionsInv
  <2>7. Uses[h] \subseteq Objects /\ \A o \in Objects : next[o] \in Nat /\ live[o] \in Nat
    BY ConsensusAssumption DEF OrderInv, VersionsInv
  <2>8. e \in Nat /\ \A o \in Uses[h] : next[o] < e
    BY <2>7, EffectsAbove
  <2>9. /\ EffectsVersion(CertTx(h), assigned'[h]) = e
        /\ \A c \in Certs : c # h => EffectsVersion(CertTx(c), assigned'[c]) = Effects(c)
    <3>1. EffectsVersion(CertTx(h), assigned'[h]) = e
      <4>1. \A o \in Uses[h] : assigned'[h][o] = next[o]
        BY <2>5
      <4> QED
        BY <4>1, EffectsSame, Zenon
    <3> QED
      BY <2>5, <3>1 DEF Effects
  <2> HIDE DEF e, n
  <2>10. VersionsInv'
    <3>1. \A c \in Certs : \A o \in Uses[c] : assigned'[c][o] \in Nat
      BY <2>5, <2>7 DEF OrderInv, VersionsInv
    <3>2. \A o \in Objects : next'[o] \in Nat /\ live'[o] \in Nat
      BY <1>2, <2>6, <2>7, <2>8
    <3>3. Objects \subseteq DOMAIN live'
      BY <1>2 DEF OrderInv, VersionsInv
    <3> QED
      BY <2>5, <2>6, <3>1, <3>2, <3>3 DEF VersionsInv
  <2>11. ASSUME NEW i \in 1..n, NEW o \in Uses[received[i]]
         PROVE  /\ Effects(received[i]) \in Nat /\ Effects(received[i]) <= next[o]
                /\ o \in Objects
    <3>1. received[i] \in Certs /\ Effects(received[i]) <= next[o]
      BY <1>4, <2>2, <2>3 DEF OrderInv, NextInv
    <3>2. Effects(received[i]) \in Nat
      BY <3>1, EffectsAbove DEF Effects, OrderInv, VersionsInv
    <3> QED
      BY <3>1, <3>2, ConsensusAssumption
  <2>12. DecidedInv'
    <3>1. DecidedOrder = received /\ DecidedOrder' = received'
      BY <1>2, <1>4 DEF DecidedOrder
    <3>2. ASSUME NEW i \in 1..(n + 1), NEW j \in 1..(n + 1), i < j,
                 NEW o \in Uses[received'[i]] \cap Uses[received'[j]]
          PROVE  EffectsVersion(CertTx(received'[i]), assigned'[received'[i]])
                   <= assigned'[received'[j]][o]
      <4>1. i \in 1..n /\ received'[i] = received[i]
        BY <2>3, <3>2
      <4>2. EffectsVersion(CertTx(received'[i]), assigned'[received'[i]]) = Effects(received[i])
        BY <2>2, <2>3, <2>9, <4>1
      <4>3. CASE j = n + 1
        <5>1. received'[j] = h /\ assigned'[h][o] = next[o]
          BY <2>3, <2>5, <4>3
        <5> QED
          BY <2>11, <4>1, <4>2, <5>1
      <4>4. CASE j # n + 1
        <5>1. j \in 1..n /\ received'[j] = received[j]
          BY <2>3, <4>4
        <5>2. assigned'[received[j]] = assigned[received[j]]
          BY <2>2, <2>3, <2>5, <5>1
        <5>3. Effects(received[i]) <= assigned[received[j]][o]
          BY <2>3, <3>1, <3>2, <4>1, <5>1 DEF OrderInv, DecidedInv
        <5> QED
          BY <4>2, <5>1, <5>2, <5>3
      <4> QED
        BY <4>3, <4>4
    <3> QED
      BY <2>3, <3>1, <3>2 DEF DecidedInv, Effects
  <2>13. NextInv'
    <3>1. ASSUME NEW i \in 1..(n + 1), NEW o \in Uses[received'[i]]
          PROVE  EffectsVersion(CertTx(received'[i]), assigned'[received'[i]]) <= next'[o]
      <4>1. CASE i = n + 1
        <5>1. received'[i] = h /\ next'[o] = e
          BY <2>3, <2>6, <2>7, <4>1
        <5> QED
          BY <2>8, <2>9, <5>1
      <4>2. CASE i # n + 1
        <5>1. i \in 1..n /\ received'[i] = received[i]
          BY <2>3, <4>2
        <5>2. EffectsVersion(CertTx(received'[i]), assigned'[received'[i]]) = Effects(received[i])
          BY <2>2, <2>3, <2>9, <5>1
        <5>3. /\ Effects(received[i]) \in Nat /\ Effects(received[i]) <= next[o]
              /\ o \in Objects
          BY <2>11, <5>1
        <5>4. next'[o] = next[o] \/ (next[o] < e /\ next'[o] = e)
          BY <2>6, <2>8, <5>3
        <5> QED
          BY <2>7, <2>8, <5>2, <5>3, <5>4
      <4> QED
        BY <4>1, <4>2
    <3> QED
      BY <2>3, <3>1 DEF NextInv, Effects
  <2>14. LiveInv'
    <3>1. \A m \in DOMAIN executed :
             EffectsVersion(CertTx(executed[m]), assigned'[executed[m]]) = Effects(executed[m])
      BY <2>2, <2>9
    <3>2. ASSUME NEW o \in Objects, live[o] # 1
          PROVE  \E m \in DOMAIN executed :
                    /\ o \in Uses[executed[m]]
                    /\ live[o] = EffectsVersion(CertTx(executed[m]), assigned'[executed[m]])
      BY <3>1, <3>2 DEF OrderInv, LiveInv
    <3> QED
      BY <1>2, <3>2 DEF LiveInv, Effects
  <2>15. ExecutedInDecidedOrder'
    <3>1. DecidedOrder = received /\ DecidedOrder' = received'
      BY <1>2, <1>4 DEF DecidedOrder
    <3>2. ASSUME NEW m \in DOMAIN executed, Shared(executed[m])
          PROVE  \E j \in DOMAIN received' :
                    /\ received'[j] = executed[m]
                    /\ \A i \in 1..(j - 1) : Uses[received'[i]] \cap Uses[executed[m]] # {} =>
                          \E l \in 1..(m - 1) : executed[l] = received'[i]
      <4>1. PICK j \in DOMAIN received :
               /\ received[j] = executed[m]
               /\ \A i \in 1..(j - 1) : Uses[received[i]] \cap Uses[executed[m]] # {} =>
                     \E l \in 1..(m - 1) : executed[l] = received[i]
        BY <3>1, <3>2 DEF OrderInv, ExecutedInDecidedOrder
      <4>2. j \in 1..n /\ j \in DOMAIN received' /\ \A i \in 1..(j - 1) : i \in 1..n
        BY <2>3
      <4> QED
        BY <2>3, <4>1, <4>2
    <3>3. \A l, m \in DOMAIN executed : executed[l] = executed[m] => l = m
      BY DEF OrderInv, ExecutedInDecidedOrder
    <3>4. \A m \in DOMAIN executed : Uses[executed[m]] # {} =>
             \E j \in DOMAIN received' :
                /\ received'[j] = executed[m]
                /\ \A i \in 1..(j - 1) : Uses[received'[i]] \cap Uses[executed[m]] # {} =>
                      \E l \in 1..(m - 1) : executed[l] = received'[i]
      BY <3>2, Zenon DEF Shared
    <3>5. executed' = executed
      BY <1>2
    <3> QED
      BY <3>1, <3>3, <3>4, <3>5 DEF ExecutedInDecidedOrder, Shared
  <2> QED
    BY <2>10, <2>12, <2>13, <2>14, <2>15 DEF OrderInv
<1> QED
  BY <1>3, <1>4

(* The two halves of ExecutedInDecidedOrder, for an execution x of the     *)
(* order y.                                                                *)
Once(x) ==
    \A l, m \in DOMAIN x : x[l] = x[m] => l = m

InOrder(x, y) ==
    \A m \in DOMAIN x : Shared(x[m]) =>
        \E j \in DOMAIN y :
            /\ y[j] = x[m]
            /\ \A i \in 1..(j - 1) : Uses[y[i]] \cap Uses[x[m]] # {} =>
                  \E l \in 1..(m - 1) : x[l] = y[i]

(* Executing a certificate finds its objects at the versions that those    *)
(* before it in the decided order wrote last, so they are executed.        *)
LEMMA ExecuteOrder ==
    ASSUME IInv, OrderInv, PassedInv', NEW c \in Certs, Execute(c)
    PROVE  OrderInv'
<1> DEFINE e == EffectsVersion(CertTx(c), assigned[c])
           D == DecidedOrder
           n == Len(executed)
<1>t. executed \in Seq(Certs) /\ enqueued \subseteq Certs /\ TypeOK
  BY DEF IInv, TypeOK
<1>1. /\ c \in enqueued /\ c \notin Range(executed) /\ executed' = Append(executed, c)
      /\ live' = CommitObjects(live, CertTx(c), assigned[c])
      /\ UNCHANGED <<consensus_mode, batch, assigned, next, received, enqueued>>
  BY DEF Execute
<1>2. \A o \in Uses[c] : live[o] = assigned[c][o]
  <2>1. \A r \in InputRefs(CertTx(c), assigned[c]) : live[r.id] = r.ver
    BY DEF Execute, ReadObjects
  <2>2. ASSUME NEW o \in Uses[c]
        PROVE  Ref(o, assigned[c][o]) \in InputRefs(CertTx(c), assigned[c])
    BY DEF InputRefs, CertTx, Tx
  <2>3. \A id, v : Ref(id, v).id = id /\ Ref(id, v).ver = v
    BY DEF Ref
  <2> QED
    BY <2>1, <2>2, <2>3
<1>3. /\ Objects \subseteq DOMAIN live'
      /\ \A o \in Objects : live'[o] = IF o \in Uses[c] THEN e ELSE live[o]
  <2>1. CertTx(c).consumed = {} /\ ObjectsWritten(CertTx(c)) = {<<"gas", c>>} \cup Uses[c]
    <3>1. /\ CertTx(c).gas = Ref(<<"gas", c>>, 1) /\ CertTx(c).owned = {}
          /\ CertTx(c).shared = Uses[c] /\ CertTx(c).creates = {} /\ CertTx(c).consumed = {}
      BY DEF CertTx, Tx
    <3>2. Ref(<<"gas", c>>, 1).id = <<"gas", c>>
      BY DEF Ref
    <3>3. {r.id : r \in OwnedRefs(CertTx(c))} = {<<"gas", c>>}
      BY <3>1, <3>2 DEF OwnedRefs
    <3> QED
      BY <3>1, <3>3 DEF ObjectsWritten
  <2>2. PICK W : W = {<<"gas", c>>} \cup Uses[c]
    OBVIOUS
  <2>3. live' = [id \in DOMAIN live \cup W |-> IF id \in W THEN e ELSE live[id]]
    <3>1. DOMAIN live \ CertTx(c).consumed = DOMAIN live /\ ObjectsWritten(CertTx(c)) = W
      BY <2>1, <2>2
    <3> QED
      BY <1>1, <3>1 DEF CommitObjects
  <2>4. /\ Objects \subseteq DOMAIN live
        /\ \A o \in Objects : o \in W <=> o \in Uses[c]
    BY <2>2, ConsensusAssumption DEF OrderInv, VersionsInv
  <2> HIDE DEF e
  <2> QED
    BY <2>3, <2>4
<1>4. /\ n \in Nat /\ DOMAIN executed = 1..n /\ DOMAIN executed' = 1..(n + 1)
      /\ executed'[n + 1] = c /\ \A m \in 1..n : executed'[m] = executed[m]
  BY <1>t, <1>1, Appended
<1>5. \A d \in Certs : Effects(d) \in Nat /\ Effects(d) > 1
                       /\ \A o \in Uses[d] : assigned[d][o] < Effects(d)
  BY EffectsAbove DEF Effects, OrderInv, VersionsInv
<1>6. D' = D /\ D \in Seq(Certs) /\ DOMAIN D = 1..Len(D) /\ Len(D) \in Nat
  BY <1>t, <1>1, HasPlace DEF OrderInv, DecidedOrder
<1>7. e = Effects(c) /\ e \in Nat
  BY <1>5 DEF Effects
<1> HIDE DEF e, D, n
<1>8. VersionsInv'
  <2>1. \A o \in Objects : live'[o] \in Nat /\ next'[o] \in Nat
    BY <1>1, <1>3, <1>7 DEF OrderInv, VersionsInv
  <2> QED
    BY <1>1, <1>3, <2>1 DEF OrderInv, VersionsInv
<1>9. DecidedInv' /\ NextInv'
  <2>1. DecidedInv'
    BY <1>1 DEF OrderInv, DecidedInv, DecidedOrder, Effects
  <2>2. NextInv'
    BY <1>1 DEF OrderInv, NextInv, Effects
  <2> QED
    BY <2>1, <2>2
<1>10. LiveInv'
  <2>1. ASSUME NEW o \in Objects, live'[o] # 1
        PROVE  \E m \in DOMAIN executed' :
                  o \in Uses[executed'[m]] /\ live'[o] = Effects(executed'[m])
    <3>1. CASE o \in Uses[c]
      <4>1. n + 1 \in DOMAIN executed' /\ executed'[n + 1] = c /\ live'[o] = Effects(c)
        BY <1>3, <1>4, <1>7, <3>1
      <4> QED
        BY <3>1, <4>1
    <3>2. CASE o \notin Uses[c]
      <4>1. live'[o] = live[o] /\ live[o] # 1
        BY <1>3, <2>1, <3>2
      <4>2. PICK m \in DOMAIN executed : o \in Uses[executed[m]] /\ live[o] = Effects(executed[m])
        BY <4>1 DEF OrderInv, LiveInv
      <4>3. m \in DOMAIN executed' /\ executed'[m] = executed[m]
        BY <1>4
      <4> QED
        BY <4>1, <4>2, <4>3
    <3> QED
      BY <3>1, <3>2
  <2> QED
    BY <1>1, <2>1 DEF LiveInv, Effects
<1>11. ASSUME NEW i \in DOMAIN D, NEW j \in DOMAIN D, D[j] = c, i < j,
              NEW o \in Uses[D[i]] \cap Uses[c]
       PROVE  \E l \in 1..n : executed[l] = D[i]
  <2>1. D[i] \in Certs /\ o \in Objects
    BY <1>6, ConsensusAssumption
  <2>2. Effects(D[i]) <= live[o]
    <3>1. Effects(D[i]) <= assigned[c][o]
      BY <1>11 DEF OrderInv, DecidedInv, D
    <3> QED
      BY <1>2, <3>1
  <2>3. live[o] # 1 /\ live[o] \in Nat
    <3>1. Effects(D[i]) \in Nat /\ Effects(D[i]) > 1 /\ live[o] \in Nat
      BY <1>5, <2>1 DEF OrderInv, VersionsInv
    <3> QED
      BY <2>2, <3>1
  <2>4. PICK m \in DOMAIN executed : o \in Uses[executed[m]] /\ live[o] = Effects(executed[m])
    BY <2>1, <2>3 DEF OrderInv, LiveInv
  <2>5. Shared(executed[m])
    BY <2>4 DEF Shared
  <2>6. PICK k \in DOMAIN D :
           /\ D[k] = executed[m]
           /\ \A q \in 1..(k - 1) : Uses[D[q]] \cap Uses[executed[m]] # {} =>
                 \E l \in 1..(m - 1) : executed[l] = D[q]
    BY <2>5 DEF OrderInv, ExecutedInDecidedOrder, D
  <2>7. CASE k < i
    <3>1. Effects(D[k]) <= assigned[D[i]][o]
      BY <2>4, <2>6, <2>7 DEF OrderInv, DecidedInv, D
    <3>2. assigned[D[i]][o] < Effects(D[i]) /\ Effects(D[i]) \in Nat /\ assigned[D[i]][o] \in Nat
      BY <1>5, <2>1 DEF OrderInv, VersionsInv
    <3>3. Effects(D[k]) = live[o]
      BY <2>4, <2>6
    <3> QED
      BY <2>2, <2>3, <3>1, <3>2, <3>3
  <2>8. CASE k = i
    BY <1>4, <2>6, <2>8
  <2>9. CASE i < k
    <3>1. i \in 1..(k - 1) /\ Uses[D[i]] \cap Uses[executed[m]] # {}
      BY <1>6, <2>4, <2>9
    <3>2. PICK l \in 1..(m - 1) : executed[l] = D[i]
      BY <2>6, <3>1
    <3>3. l \in 1..n
      BY <1>4
    <3> QED
      BY <3>2, <3>3
  <2> QED
    BY <1>6, <2>7, <2>8, <2>9
<1>12. \A l, m \in DOMAIN executed' : executed'[l] = executed'[m] => l = m
  <2>1. \A l, m \in 1..n : executed[l] = executed[m] => l = m
    BY <1>4 DEF OrderInv, ExecutedInDecidedOrder
  <2>2. \A l \in 1..n : executed[l] # c
    BY <1>1, <1>4 DEF Range
  <2> QED
    BY <1>4, <2>1, <2>2
<1>13. ASSUME NEW m \in DOMAIN executed', Shared(executed'[m])
       PROVE  \E j \in DOMAIN D :
                 /\ D[j] = executed'[m]
                 /\ \A i \in 1..(j - 1) : Uses[D[i]] \cap Uses[executed'[m]] # {} =>
                       \E l \in 1..(m - 1) : executed'[l] = D[i]
  <2>1. CASE m = n + 1
    <3>1. PICK j \in DOMAIN D : D[j] = c
      <4>1. Shared(c)
        BY <1>4, <1>13, <2>1
      <4> QED
        BY <1>t, <1>1, <4>1, HasPlace DEF OrderInv, D
    <3>2. ASSUME NEW i \in 1..(j - 1), Uses[D[i]] \cap Uses[c] # {}
          PROVE  \E l \in 1..(m - 1) : executed'[l] = D[i]
      <4>1. i \in DOMAIN D /\ i < j
        BY <1>6
      <4>2. PICK l \in 1..n : executed[l] = D[i]
        BY <1>11, <3>1, <3>2, <4>1
      <4>3. l \in 1..(m - 1) /\ executed'[l] = D[i]
        BY <1>4, <2>1, <4>2
      <4> QED
        BY <4>3
    <3> QED
      BY <1>4, <2>1, <3>1, <3>2
  <2>2. CASE m # n + 1
    <3>1. m \in 1..n /\ m \in DOMAIN executed /\ executed'[m] = executed[m]
      BY <1>4, <2>2
    <3>2. PICK j \in DOMAIN D :
             /\ D[j] = executed[m]
             /\ \A i \in 1..(j - 1) : Uses[D[i]] \cap Uses[executed[m]] # {} =>
                   \E l \in 1..(m - 1) : executed[l] = D[i]
      BY <1>13, <3>1 DEF OrderInv, ExecutedInDecidedOrder, D
    <3>3. \A l \in 1..(m - 1) : executed'[l] = executed[l]
      BY <1>4, <3>1
    <3> QED
      BY <3>1, <3>2, <3>3
  <2> QED
    BY <2>1, <2>2
<1>14. ExecutedInDecidedOrder'
  <2>1. Once(executed')
    BY <1>12, Zenon DEF Once
  <2>2. InOrder(executed', D)
    BY <1>13, Zenon DEF InOrder
  <2>3. DecidedOrder' = D
    BY <1>6 DEF D
  <2>4. InOrder(executed', DecidedOrder')
    BY <2>2, <2>3, Zenon
  <2> QED
    BY <2>1, <2>4, Zenon DEF ExecutedInDecidedOrder, Once, InOrder
<1> QED
  BY <1>8, <1>9, <1>10, <1>14 DEF OrderInv

(* Every step keeps the order.                                             *)
LEMMA OrderInductive == IInv /\ OrderInv /\ [Next]_vars => OrderInv'
<1> SUFFICES ASSUME IInv, OrderInv, [Next]_vars
             PROVE  OrderInv'
  OBVIOUS
<1>1. PassedInv'
  BY PassedKept DEF OrderInv
<1>2. CASE Receive
  BY <1>1, <1>2, ReceiveOrder
<1>3. ASSUME NEW c \in Certs, Execute(c)
      PROVE  OrderInv'
  BY <1>1, <1>3, ExecuteOrder
<1>4. ASSUME UNCHANGED <<consensus_mode, batch, assigned, next, live, received, executed>>
      PROVE  OrderInv'
  BY <1>1, <1>4, OrderKept
<1>5. CASE EnqueueReceived
  BY <1>4, <1>5 DEF EnqueueReceived
<1>6. ASSUME NEW c \in Certs, SubmitToConsensus(c) \/ EnqueueOwned(c) \/ Respond(c)
      PROVE  OrderInv'
  BY <1>4, <1>6 DEF SubmitToConsensus, EnqueueOwned, Respond
<1>7. CASE UNCHANGED vars
  BY <1>4, <1>7 DEF vars
<1> QED
  BY <1>2, <1>3, <1>5, <1>6, <1>7 DEF Next, CertNext

(* With either consensus and under any schedule, the certificates executed *)
(* on a shared object are the first ones of the order that decided the     *)
(* versions, in that order: the version a certificate waits for is written *)
(* by the one before it and by no other.                                   *)
THEOREM DecidedOrderExecuted == Spec => []ExecutedInDecidedOrder
<1>1. OrderInv => ExecutedInDecidedOrder
  BY DEF OrderInv
<1>2. Spec => [](IInv /\ OrderInv)
  BY Initially, Inductive, OrderInit, OrderInductive, PTL DEF Spec
<1> QED
  BY <1>1, <1>2, PTL
=============================================================================
