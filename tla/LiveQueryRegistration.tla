------------------------- MODULE LiveQueryRegistration -------------------------
(***************************************************************************)
(* LiveStatement::compute (src/crates/core/src/expr/statements/live.rs).  *)
(* A LIVE SELECT on a table writes two keys in the statement's            *)
(* transaction, the node live-query key (value: the Live record) and the  *)
(* table live-query key (value: the LiveStatement), then bumps the        *)
(* table's live-query cache version and clears the transaction cache.     *)
(* The transaction commits after compute returns, or is cancelled.         *)
(*                                                                         *)
(* The transaction is the store contract of GrantStore, instantiated on   *)
(* the live-query keys.  The live-query cache is not in the repository:  *)
(* it is modelled as a versioned entry that a reader of the table's live  *)
(* queries (the notification path) fills from its own snapshot under the *)
(* version it read, which is what new_live_queries_version invalidates.  *)
(***************************************************************************)
EXTENDS Naturals, FiniteSets, Sequences

CONSTANTS
  Writers,   \* sessions each running one LIVE SELECT; its id is the writer
  Readers,   \* tasks looking up the table's live queries
  Absent,    \* the value of a key that is not set
  NoEntry    \* the cache before anything is cached

VARIABLES
  kv,        \* the committed live-query keys
  ktx,       \* each writer's open transaction
  version,   \* the table's live-query cache version
  cache,     \* [ver, lives]: the cached table live queries, or NoEntry
  wpc,       \* wpc[w]: "idle", "ran" (compute returned Ok), "failed", "done"
  rpc,       \* rpc[r]: "idle", "ver" (version read), "fill" (lives read)
  rver,      \* rver[r]: the version reader r read
  rlives     \* rlives[r]: the table live queries reader r read

vars == <<kv, ktx, version, cache, wpc, rpc, rver, rlives>>

(* key::node::lq::new(nid, id) and key::table::lq::new(ns, db, tb, id).   *)
LqKeys == {"node", "table"} \X Writers

KV == INSTANCE GrantStore WITH
  Ids <- LqKeys, Sessions <- Writers, NoGrant <- Absent,
  DetectWriteConflicts <- TRUE, store <- kv, tx <- ktx

(* The ids of the live queries whose table key is in the committed store. *)
TableLives == {w \in Writers : kv[<<"table", w>>] # Absent}

-----------------------------------------------------------------------------
(* Mutant: the table key is never written.                                *)
LiveWritesNodeOnly(w) == << <<<<"node", w>>, "Live">> >>

(* Mutant: the table key is given lq, the node key's value.               *)
LiveWritesSwapped(w) ==
  << <<<<"node", w>>, "Live">>, <<<<"table", w>>, "Live">> >>

(* The replace calls compute makes, in order, as <<key, value>>: lq, the  *)
(* Live record, under the node key; stm, the LiveStatement, under the     *)
(* table key.                                                              *)
LiveWrites(w) ==
  << <<<<"node", w>>, "Live">>, <<<<"table", w>>, "LiveStatement">> >>

(* The writes of the first n replace calls, as the transaction buffers   *)
(* them.                                                                   *)
Buffered(w, n) ==
  LET done == {LiveWrites(w)[i] : i \in 1..n}
  IN [k \in {d[1] : d \in done} |-> CHOOSE v \in {d[2] : d \in done} : <<k, v>> \in done]

(* LiveStatement::compute.  Every check before the writes (realtime,      *)
(* valid_for_db, a what that is not a table, ensure_ns_db_tb) and either  *)
(* replace may fail: the statement then returns the error with the writes *)
(* made so far buffered.  When both writes succeed the cache version is   *)
(* bumped, inside the still open transaction, and the transaction cache   *)
(* cleared.                                                                *)
Compute(w) ==
  /\ wpc[w] = "idle"
  /\ \E n \in 0..Len(LiveWrites(w)) :
       /\ KV!TxBegin(w, Buffered(w, n))
       /\ IF n = Len(LiveWrites(w))
          THEN wpc' = [wpc EXCEPT ![w] = "ran"] /\ version' = version + 1
          ELSE wpc' = [wpc EXCEPT ![w] = "failed"] /\ UNCHANGED version
  /\ UNCHANGED <<kv, cache, rpc, rver, rlives>>

(* The statement's transaction commits when compute returned Ok.         *)
Commit(w) ==
  /\ wpc[w] = "ran"
  /\ KV!TxCommit(w)
  /\ wpc' = [wpc EXCEPT ![w] = "done"]
  /\ UNCHANGED <<version, cache, rpc, rver, rlives>>

(* It is cancelled when compute failed, or when the caller cancels.       *)
Cancel(w) ==
  /\ wpc[w] \in {"ran", "failed"}
  /\ KV!TxCancel(w)
  /\ wpc' = [wpc EXCEPT ![w] = "done"]
  /\ UNCHANGED <<version, cache, rpc, rver, rlives>>

-----------------------------------------------------------------------------
(* A reader of the table's live queries: it reads the cache version, then *)
(* the cached entry for that version, or, when there is none, the table  *)
(* live-query keys from a snapshot, which it caches under that version.  *)

ReadVersion(r) ==
  /\ rpc[r] = "idle"
  /\ rver' = [rver EXCEPT ![r] = version]
  /\ rpc' = [rpc EXCEPT ![r] = "ver"]
  /\ UNCHANGED <<kv, ktx, version, cache, wpc, rlives>>

ReadLives(r) ==
  /\ rpc[r] = "ver"
  /\ IF cache # NoEntry /\ cache.ver = rver[r]
     THEN rpc' = [rpc EXCEPT ![r] = "idle"] /\ UNCHANGED rlives
     ELSE /\ rlives' = [rlives EXCEPT ![r] = TableLives]
          /\ rpc' = [rpc EXCEPT ![r] = "fill"]
  /\ UNCHANGED <<kv, ktx, version, cache, wpc, rver>>

Fill(r) ==
  /\ rpc[r] = "fill"
  /\ cache' = [ver |-> rver[r], lives |-> rlives[r]]
  /\ rpc' = [rpc EXCEPT ![r] = "idle"]
  /\ UNCHANGED <<kv, ktx, version, wpc, rver, rlives>>

-----------------------------------------------------------------------------
Init ==
  /\ KV!StoreInit
  /\ version = 0
  /\ cache = NoEntry
  /\ wpc = [w \in Writers |-> "idle"]
  /\ rpc = [r \in Readers |-> "idle"]
  /\ rver = [r \in Readers |-> 0]
  /\ rlives = [r \in Readers |-> {}]

Next ==
  \/ \E w \in Writers : Compute(w) \/ Commit(w) \/ Cancel(w)
  \/ \E r \in Readers : ReadVersion(r) \/ ReadLives(r) \/ Fill(r)

Spec == Init /\ [][Next]_vars

-----------------------------------------------------------------------------
TypeOK ==
  /\ kv \in [LqKeys -> {"Live", "LiveStatement", Absent}]
  /\ \A k \in LqKeys : kv[k] # Absent => kv[k] = IF k[1] = "node" THEN "Live" ELSE "LiveStatement"
  /\ version \in Nat
  /\ wpc \in [Writers -> {"idle", "ran", "failed", "done"}]
  /\ rpc \in [Readers -> {"idle", "ver", "fill"}]

(* A live query is registered on this node exactly when it is registered *)
(* on its table: compute writes both keys in one transaction, and a      *)
(* failure between the two replace calls never commits the first alone.  *)
LiveKeysPaired ==
  \A w \in Writers : (kv[<<"node", w>>] # Absent) <=> (kv[<<"table", w>>] # Absent)

(* Once no LIVE statement is in flight, a cache entry under the current  *)
(* version holds the committed live queries of the table: bumping the    *)
(* version invalidates every list cached before the new key was visible. *)
Quiescent == \A w \in Writers : ~ktx[w].open

CachedLivesCurrent ==
  Quiescent /\ cache # NoEntry /\ cache.ver = version => cache.lives = TableLives

================================================================================
