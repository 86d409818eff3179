---------------------------- MODULE SuiConsensus ----------------------------
(***************************************************************************)
(* The two components of sui-single-node-benchmark that go through the     *)
(* consensus adapter: every certificate is handled by a task of its own,   *)
(* shared-object certificates reach the transaction manager only through   *)
(* the mock consensus client, a bounded channel drained by one task.       *)
(*   "Noop"             ValidatorWithoutConsensus: the versions assigned   *)
(*                      from the certified vector are used                 *)
(*   "DirectSequencing" ValidatorWithFakeConsensus: the received order     *)
(*                      assigns the versions                               *)
(***************************************************************************)
EXTENDS SuiValidator

CONSTANTS
    Certs,       \* the certificates
    Objects,     \* the shared objects
    Uses,        \* certificate -> shared objects it writes
    Capacity,    \* of the channel (1000000 in the code)
    None

ASSUME ConsensusAssumption ==
    /\ IsFiniteSet(Certs)
    /\ Uses \in [Certs -> SUBSET Objects] /\ \A c \in Certs : IsFiniteSet(Uses[c])
    /\ \A c \in Certs : <<"gas", c>> \notin Objects
    /\ Capacity \in Nat \ {0} /\ None \notin Certs

VARIABLES
    consensus_mode,
    batch,       \* the certified vector
    assigned,    \* certificate -> shared object -> version to read
    next,        \* DirectSequencing: versions to assign next
    live,        \* the validator's store
    client,      \* state of the task that handles a certificate
    channel,     \* submitted, not yet received
    received,    \* what run_impl received, oldest first
    handling,    \* the certificate run_impl has sequenced and not enqueued yet
    enqueued,    \* certificates the transaction manager knows
    executed     \* certificates executed, oldest first

vars == <<consensus_mode, batch, assigned, next, live, client, channel, received,
          handling, enqueued, executed>>

CertTx(c) == Tx(c, Ref(<<"gas", c>>, 1), {}, Uses[c], {}, {})
Store == [id \in Objects \cup {<<"gas", c>> : c \in Certs} |-> 1]

(* SingleValidator::new and assigned_shared_object_versions. *)
Init ==
    /\ consensus_mode \in {"Noop", "DirectSequencing"}
    /\ batch \in {s \in [1..Cardinality(Certs) -> Certs] : Range(s) = Certs}
    /\ live = Store /\ next = Store
    /\ assigned = LET ver == AssignedVersions(Store, [i \in DOMAIN batch |-> CertTx(batch[i])])
                  IN  [c \in Certs |-> ver[CHOOSE i \in DOMAIN batch : batch[i] = c]]
    /\ client = [c \in Certs |-> "start"]
    /\ channel = <<>> /\ received = <<>> /\ handling = None
    /\ enqueued = {} /\ executed = <<>>

Shared(c) == Uses[c] # {}

(* Mutant: the certificate is also enqueued by its own task, as under      *)
(* WithTxManager.                                                          *)
SubmitToConsensusAndEnqueue(c) ==
    /\ client[c] = "start" /\ Shared(c)
    /\ Len(channel) < Capacity
    /\ channel' = Append(channel, c)
    /\ client' = [client EXCEPT ![c] = "waiting"]
    /\ enqueued' = enqueued \cup {c}
    /\ UNCHANGED <<consensus_mode, batch, assigned, next, live, received, handling, executed>>

(* submit_to_consensus waits while the channel is full. *)
SubmitToConsensus(c) ==
    /\ client[c] = "start" /\ Shared(c)
    /\ Len(channel) < Capacity
    /\ channel' = Append(channel, c)
    /\ client' = [client EXCEPT ![c] = "waiting"]
    /\ UNCHANGED <<consensus_mode, batch, assigned, next, live, received, handling, enqueued, executed>>

(* A certificate without shared objects is enqueued by the validator       *)
(* service itself (external).                                              *)
EnqueueOwned(c) ==
    /\ client[c] = "start" /\ ~Shared(c)
    /\ enqueued' = enqueued \cup {c}
    /\ client' = [client EXCEPT ![c] = "waiting"]
    /\ UNCHANGED <<consensus_mode, batch, assigned, next, live, channel, received, handling, executed>>

(* process_consensus_transactions_for_tests (external): c is next in line  *)
(* for each of its objects.                                                *)
Sequence(c) ==
    /\ assigned' = [assigned EXCEPT ![c] = [o \in Uses[c] |-> next[o]]]
    /\ next' = [o \in DOMAIN next |->
                  IF o \in Uses[c] THEN EffectsVersion(CertTx(c), next) ELSE next[o]]

Receive ==
    /\ handling = None /\ channel # <<>>
    /\ handling' = Head(channel) /\ channel' = Tail(channel)
    /\ received' = Append(received, Head(channel))
    /\ IF consensus_mode = "DirectSequencing" THEN Sequence(Head(channel))
       ELSE UNCHANGED <<assigned, next>>
    /\ UNCHANGED <<consensus_mode, batch, live, client, enqueued, executed>>

(* Mutant: the no-op consensus does not enqueue either.                    *)
EnqueueReceivedUnlessNoop ==
    /\ handling # None
    /\ enqueued' = IF consensus_mode = "Noop" THEN enqueued ELSE enqueued \cup {handling}
    /\ handling' = None
    /\ UNCHANGED <<consensus_mode, batch, assigned, next, live, client, channel, received, executed>>

EnqueueReceived ==
    /\ handling # None
    /\ enqueued' = IF Shared(handling) THEN enqueued \cup {handling} ELSE enqueued
    /\ handling' = None
    /\ UNCHANGED <<consensus_mode, batch, assigned, next, live, client, channel, received, executed>>

(* The transaction manager (external) runs what has all its inputs. *)
Execute(c) ==
    /\ c \in enqueued /\ c \notin Range(executed)
    /\ ReadObjects(live, InputRefs(CertTx(c), assigned[c]))
    /\ live' = CommitObjects(live, CertTx(c), assigned[c])
    /\ executed' = Append(executed, c)
    /\ UNCHANGED <<consensus_mode, batch, assigned, next, client, channel, received, handling, enqueued>>

(* execute_certificate_for_testing returns the effects. *)
Respond(c) ==
    /\ client[c] = "waiting" /\ c \in Range(executed)
    /\ client' = [client EXCEPT ![c] = "done"]
    /\ UNCHANGED <<consensus_mode, batch, assigned, next, live, channel, received, handling, enqueued, executed>>

CertNext(c) == SubmitToConsensus(c) \/ EnqueueOwned(c) \/ Execute(c) \/ Respond(c)
Next == Receive \/ EnqueueReceived \/ \E c \in Certs : CertNext(c)

(* Every task and the consensus loop are polled by tokio until they end. *)
Spec == /\ Init /\ [][Next]_vars
        /\ WF_vars(Receive \/ EnqueueReceived) /\ \A c \in Certs : WF_vars(CertNext(c))
-----------------------------------------------------------------------------
TypeOK ==
    /\ client \in [Certs -> {"start", "waiting", "done"}]
    /\ channel \in Seq(Certs) /\ received \in Seq(Certs) /\ handling \in Certs \cup {None}
    /\ enqueued \subseteq Certs /\ executed \in Seq(Certs)

At(c, place) ==
    \/ place = "client" /\ client[c] = "start"
    \/ place = "channel" /\ \E i \in DOMAIN channel : channel[i] = c
    \/ place = "consensus" /\ handling = c
    \/ place = "manager" /\ c \in enqueued

(* A certificate with shared objects is in one place only: with its        *)
(* client, in the channel, with run_impl, or with the transaction manager. *)
(* Nothing is lost or enqueued twice between submit and enqueue.           *)
InOnePlace ==
    /\ \A i, j \in DOMAIN channel : channel[i] = channel[j] => i = j
    /\ \A c \in Certs : Shared(c) =>
          \E here \in {"client", "channel", "consensus", "manager"} :
              \A place \in {"client", "channel", "consensus", "manager"} :
                  At(c, place) <=> place = here

(* The order that decides the versions: what was received, or the vector. *)
DecidedOrder == IF consensus_mode = "DirectSequencing" THEN received ELSE batch

(* Whatever order certificates are enqueued and become ready in, one is    *)
(* executed once, has a place in the decided order if it uses shared       *)
(* objects, and comes after every certificate decided before it with which *)
(* it shares an object: on each object the executed certificates are the   *)
(* first ones of the decided order, in that order.                         *)
ExecutedInDecidedOrder ==
    /\ \A l, m \in DOMAIN executed : executed[l] = executed[m] => l = m
    /\ \A m \in DOMAIN executed : Shared(executed[m]) =>
          \E j \in DOMAIN DecidedOrder :
              /\ DecidedOrder[j] = executed[m]
              /\ \A i \in 1..(j - 1) : Uses[DecidedOrder[i]] \cap Uses[executed[m]] # {} =>
                    \E l \in 1..(m - 1) : executed[l] = DecidedOrder[i]

(* Every certificate's effects are returned: no version is waited for that *)
(* nobody writes, and the full channel only delays its senders.            *)
EveryCertificateAnswered == <>(\A c \in Certs : client[c] = "done")
=============================================================================
