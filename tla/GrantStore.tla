----------------------------- MODULE GrantStore -----------------------------
(***************************************************************************)
(* The transactional key-value store the access statements run against,   *)
(* restricted to the grant keys of one access method at one level         *)
(* (key::{root,namespace,database}::access::gr).  Every statement runs in *)
(* one transaction: it reads the committed store as it was when the        *)
(* transaction began (a snapshot), buffers its writes, and commits them    *)
(* atomically or not at all.                                               *)
(*                                                                         *)
(* The store engine is not part of src/: this module models the contract  *)
(* spec.md sections 5 and 6 state for it.  Whether a commit is refused     *)
(* when another transaction committed one of its keys after it began       *)
(* (write-write conflict detection) is a parameter, because spec.md does   *)
(* not list it among the store's guarantees.                               *)
(***************************************************************************)
EXTENDS Naturals, FiniteSets

CONSTANTS
  Ids,                  \* grant identifiers (key ids) of the access method
  Sessions,             \* callers running statements concurrently
  NoGrant,              \* the value of a key that holds no grant
  DetectWriteConflicts  \* does commit refuse a write to a key committed since begin?

ASSUME DetectWriteConflicts \in BOOLEAN

VARIABLES
  store,  \* store[g]: the committed value of grant key g, or NoGrant
  tx      \* tx[s]: the open transaction of session s, if any

storeVars == <<store, tx>>

(* A transaction's writes are a partial function from keys to the value   *)
(* written (NoGrant for a delete).  dirty holds the keys other            *)
(* transactions committed after this one began.                           *)
NoTx == [open |-> FALSE, writes |-> << >>, dirty |-> {}]

TxTypeOK(Values) ==
  /\ store \in [Ids -> Values \cup {NoGrant}]
  /\ \A s \in Sessions :
       /\ tx[s].open \in BOOLEAN
       /\ DOMAIN tx[s].writes \subseteq Ids
       /\ \A g \in DOMAIN tx[s].writes : tx[s].writes[g] \in Values \cup {NoGrant}
       /\ tx[s].dirty \subseteq Ids

StoreInit ==
  /\ store = [g \in Ids |-> NoGrant]
  /\ tx = [s \in Sessions |-> NoTx]

(* A statement's body has run against the snapshot `store` and leaves     *)
(* its buffered writes in the transaction.                                *)
TxBegin(s, writes) ==
  /\ ~tx[s].open
  /\ tx' = [tx EXCEPT ![s] = [open |-> TRUE, writes |-> writes, dirty |-> {}]]

(* Commit is refused when a written key was committed by another         *)
(* transaction after this one began.                                      *)
Conflicts(s) ==
  DetectWriteConflicts /\ DOMAIN tx[s].writes \cap tx[s].dirty # {}

(* The value a key has once the writes are applied.                       *)
Applied(writes) ==
  [g \in Ids |-> IF g \in DOMAIN writes THEN writes[g] ELSE store[g]]

(* A successful commit: the writes become visible at once, and every      *)
(* other open transaction now has those keys changed under it.            *)
TxCommit(s) ==
  /\ tx[s].open
  /\ ~Conflicts(s)
  /\ store' = Applied(tx[s].writes)
  /\ tx' = [t \in Sessions |->
              IF t = s THEN NoTx
              ELSE [tx[t] EXCEPT !.dirty = @ \cup
                       IF tx[t].open THEN DOMAIN tx[s].writes ELSE {}]]

(* Cancel, or a failed commit: the buffered writes are dropped.           *)
TxCancel(s) ==
  /\ tx[s].open
  /\ tx' = [tx EXCEPT ![s] = NoTx]
  /\ UNCHANGED store

=============================================================================
