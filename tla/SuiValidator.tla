---------------------------- MODULE SuiValidator ----------------------------
(***************************************************************************)
(* The single validator of sui-single-node-benchmark, as operators over an *)
(* object store: what a transaction reads, what running it writes, and how *)
(* the shared-object versions of a batch are assigned.                     *)
(*                                                                         *)
(* A store maps the id of every live object to its version.  A transaction *)
(* names its gas and owned inputs by reference (id and version), its       *)
(* shared inputs by id only; `consumed` are the owned inputs it deletes,   *)
(* `creates` the ids it brings to life.  Object contents are left out.     *)
(***************************************************************************)
EXTENDS Integers, Sequences, FiniteSets, FiniteSetsExt

Ref(id, ver) == [id |-> id, ver |-> ver]

Tx(sender, gas, owned, shared, consumed, creates) ==
    [sender |-> sender, gas |-> gas, owned |-> owned, shared |-> shared,
     consumed |-> consumed, creates |-> creates]

OwnedRefs(tx) == {tx.gas} \cup tx.owned

(* The inputs of tx when its shared objects are taken at the versions ver. *)
InputRefs(tx, ver) == OwnedRefs(tx) \cup {Ref(o, ver[o]) : o \in tx.shared}

(* Every input is in the store at exactly the version asked for. *)
ReadObjects(store, refs) ==
    \A r \in refs : r.id \in DOMAIN store /\ store[r.id] = r.ver

(* Sui's input checks (external): the gas coin is not an input as well. *)
CheckInput(tx) == \A r \in tx.owned : r.id # tx.gas.id

(* Sui's versioning (external): one new version, above every input's, for  *)
(* all that a transaction writes or creates.                               *)
EffectsVersion(tx, ver) == 1 + Max({r.ver : r \in InputRefs(tx, ver)})

ObjectsWritten(tx) ==
    ({r.id : r \in OwnedRefs(tx)} \cup tx.shared \cup tx.creates) \ tx.consumed

CommitObjects(store, tx, ver) ==
    [id \in (DOMAIN store \ tx.consumed) \cup ObjectsWritten(tx) |->
        IF id \in ObjectsWritten(tx) THEN EffectsVersion(tx, ver) ELSE store[id]]

(* Mutant: every transaction is given the current version. *)
AssignedVersionsCurrent(store, txs) ==
    [i \in 1..Len(txs) |-> [o \in txs[i].shared |-> store[o]]]

(* Versions each transaction of the batch is to see its shared objects at: *)
(* the batch order decides (external: assign_versions_from_consensus).     *)
AssignedVersions(store, txs) ==
    LET next[i \in 0..Len(txs)] ==
            IF i = 0 THEN store
            ELSE [id \in DOMAIN store |->
                    IF id \in txs[i].shared
                    THEN EffectsVersion(txs[i], next[i - 1]) ELSE next[i - 1][id]]
    IN  [i \in 1..Len(txs) |-> [o \in txs[i].shared |-> next[i - 1][o]]]
=============================================================================
