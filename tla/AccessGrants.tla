---------------------------- MODULE AccessGrants ----------------------------
(***************************************************************************)
(* The access-grant lifecycle of src/crates/core/src/expr/statements/     *)
(* access.rs: ACCESS ... GRANT (create_grant), SHOW (compute_show),        *)
(* REVOKE (revoke_grant) and PURGE (compute_purge), run by several         *)
(* sessions at once, each statement in its own transaction of the         *)
(* GrantStore, against the grants of one access method AC at one level.  *)
(*                                                                         *)
(* A statement's body is one action: it reads the transaction's snapshot  *)
(* (the committed store when the transaction began), runs the whole       *)
(* handler, and leaves its writes buffered and its result pending.  Commit *)
(* or Abort then ends the transaction; only a committed statement's result *)
(* reaches the caller.  An error raised before the handler wrote or logged *)
(* anything leaves no trace in the state and is the absence of a step.     *)
(***************************************************************************)
EXTENDS GrantStore, Integers, Sequences, SequencesExt, TLC

CONSTANTS
  Users,          \* user names a grant subject may be (Subject::User)
  Records,        \* record ids a grant subject may be (Subject::Record)
  ExistingUsers,  \* the users defined at the level (get_*_user succeeds)
  Secrets,        \* the random secret parts a bearer key may draw
  AC,             \* the access method: [kind, bearer, subject, duration]
  Level,          \* the level the statements run at: "root", "ns" or "db"
  Editors,        \* sessions allowed Action::Edit on ResourceKind::Access
  Graces,         \* grace durations (seconds) a PURGE may give
  MaxTime,        \* the last second the clock reaches
  U64,            \* 2^w for the w-bit unsigned cast in compute_purge
  NoTime          \* an absent Option<Datetime>

Subjects == Users \cup Records

ASSUME
  /\ ExistingUsers \subseteq Users
  /\ AC.kind \in {"jwt", "record", "bearer"}
  /\ AC.bearer \in BOOLEAN
  /\ AC.subject \in {"user", "record"}
  /\ AC.duration \in Nat \cup {NoTime}
  /\ Level \in {"root", "ns", "db"}
  /\ Editors \subseteq Sessions
  /\ Graces \subseteq Nat
  /\ Ids \subseteq Nat
  /\ U64 > MaxTime + 1

VARIABLES
  now,      \* the wall clock in seconds (Datetime::default())
  pending,  \* pending[s]: the statement session s is running, until it ends
  issued    \* history: the plaintext keys create results handed to callers

vars == <<store, tx, now, pending, issued>>

-----------------------------------------------------------------------------
(* Bearer keys: GrantBearer::new and GrantBearer::hashed.  A key string   *)
(* is modelled by what it carries: the token "prefix-id-secret" in plain, *)
(* the SHA-256 of that token, or the redaction marker.                     *)

Token(g, sec) == [prefix |-> AC.kind, id |-> g, secret |-> sec]
Plain(t)    == [kind |-> "plain", of |-> t]
Sha256(t)   == [kind |-> "sha256", of |-> t]
Redacted    == [kind |-> "redacted", of |-> "[REDACTED]"]

(* Mutant: the grant is stored as generated, key in plain.                *)
HashedMutant(gr) == gr

(* Mutant: the hash taken over the key's quoted display form rather than *)
(* its string (to_string instead of as_string).                           *)
HashedDisplayForm(gr) == [gr EXCEPT !.key = Sha256(gr.key)]

(* GrantBearer::hashed: the key is replaced by the hash of the token.     *)
Hashed(gr) == [gr EXCEPT !.key = Sha256(gr.key.of)]

(* AccessGrant::redacted: a bearer key is replaced by "[REDACTED]".        *)
Redact(gr) == [gr EXCEPT !.key = Redacted]

RedactAll(grs) == [i \in DOMAIN grs |-> Redact(grs[i])]

Stored(g) == store[g] # NoGrant

(* Grants of the scan (all_*_access_grants), in key order.                *)
InScanOrder(ids) == SetToSortSeq(ids, <)

GrantsOf(ids) == [i \in DOMAIN InScanOrder(ids) |-> store[InScanOrder(ids)[i]]]

-----------------------------------------------------------------------------
(* create_grant: the checks it makes, in the order it makes them.  The    *)
(* first failing check is the error the statement returns.                 *)

Check(fails, err) == [fails |-> fails, err |-> err]

FirstError(checks) ==
  LET failing == SelectSeq(checks, LAMBDA c : c.fails)
  IN  IF failing = << >> THEN "ok" ELSE Head(failing).err

RecordAccessChecks(sub) ==
  << Check(sub \in Users, "AccessGrantInvalidSubject"),
     Check(Level # "db", "DbEmpty"),
     Check(~AC.bearer, "AccessMethodMismatch") >>

(* Mutant: a user subject is not looked up.                              *)
BearerAccessChecksNoUserLookup(sub) ==
  IF sub \in Users
  THEN << Check(AC.subject # "user", "AccessGrantInvalidSubject") >>
  ELSE << Check(Level # "db", "DbEmpty"),
          Check(AC.subject # "record", "AccessGrantInvalidSubject") >>

BearerAccessChecks(sub) ==
  IF sub \in Users
  THEN << Check(AC.subject # "user", "AccessGrantInvalidSubject"),
          Check(sub \notin ExistingUsers, "UserNotFound") >>
  ELSE << Check(Level # "db", "DbEmpty"),
          Check(AC.subject # "record", "AccessGrantInvalidSubject") >>

CreateError(s, sub) ==
  FirstError(<< Check(s \notin Editors, "Denied") >> \o
             CASE AC.kind = "jwt"    -> << Check(TRUE, "Unimplemented") >>
               [] AC.kind = "record" -> RecordAccessChecks(sub)
               [] AC.kind = "bearer" -> BearerAccessChecks(sub))

(* The new grant.  creation and expiration read the clock separately:     *)
(* `later` is the second the second read returns.                          *)
NewGrant(g, sub, sec, later) ==
  [id         |-> g,
   creation   |-> now,
   expiration |-> IF AC.duration = NoTime THEN NoTime ELSE AC.duration + later,
   revocation |-> NoTime,
   subject    |-> sub,
   key        |-> Plain(Token(g, sec))]

-----------------------------------------------------------------------------
(* compute_purge: (now.timestamp().saturating_sub(t) as u64) > grace,     *)
(* guarded by now >= t.  The cast keeps the value modulo 2^w.              *)

AsU64(x) == x % U64

(* Mutant: the now >= t guard dropped, leaving the cast to wrap.          *)
PastGraceUnguarded(t, grace) == AsU64(now - t) > grace

PastGrace(t, grace) ==
  /\ now >= t
  /\ AsU64(now - t) > grace

PurgeDue(gr, st) ==
  \/ st.expired /\ gr.expiration # NoTime /\ PastGrace(gr.expiration, st.grace)
  \/ st.revoked /\ gr.revocation # NoTime /\ PastGrace(gr.revocation, st.grace)

-----------------------------------------------------------------------------
(* The statement a session runs.  ok is FALSE when the handler failed     *)
(* after it had written and logged part of its work.  created is the      *)
(* grant create_grant returns; shown holds the keys of every grant the    *)
(* other handlers put in their result or hand to the WHERE condition.     *)
(* purge holds PURGE's flags.  What a handler logged is what it wrote.    *)

NoPurge == [expired |-> FALSE, revoked |-> FALSE, grace |-> 0]
Idle == [op |-> "none", ok |-> TRUE, created |-> << >>, shown |-> {},
         purge |-> NoPurge]

Run(s, op, ok, created, shown, st) ==
  pending' = [pending EXCEPT ![s] =
                [op |-> op, ok |-> ok, created |-> created, shown |-> shown, purge |-> st]]

KeysOf(grs) == {grs[i].key : i \in DOMAIN grs}

Ready(s) == pending[s].op = "none" /\ ~tx[s].open

(* A bulk handler that fails after handling the first k of `todo`:        *)
(* the writes and results of those k are all it leaves.                    *)
Prefix(todo, k) == SubSeq(todo, 1, k)

WritesOf(grs) == [g \in {grs[i].id : i \in DOMAIN grs} |->
                    CHOOSE v \in {grs[i] : i \in DOMAIN grs} : v.id = g]

(* The grant revoked now (revocation = Some(Datetime::default())).        *)
Revoked(gr) == [gr EXCEPT !.revocation = now]

(* Mutant: revoke_grant without its AccessGrantRevoked check.              *)
NotRevokedUnchecked(gr) == TRUE

(* ensure!(revoke.revocation.is_none(), Error::AccessGrantRevoked)        *)
NotRevoked(gr) == gr.revocation = NoTime

(* Mutant: the grant is written with set, which overwrites.              *)
KeyFreeOverwrite(g) == TRUE

(* put refuses a key that is already stored (TxKeyAlreadyExists).         *)
KeyFree(g) == ~Stored(g)

(* Mutant: create_grant returns the hashed copy it stored.               *)
CreateResultStored(gr) == Hashed(gr)

(* create_grant returns the original grant, with the plaintext key.       *)
CreateResult(gr) == gr

-----------------------------------------------------------------------------
(* ACCESS ac GRANT FOR subject: a new bearer grant, stored hashed with    *)
(* put (insert-if-absent), returned in plain.  A key id already stored     *)
(* (a collision) makes put fail with TxKeyAlreadyExists.                   *)
Create(s) ==
  /\ Ready(s)
  /\ \E sub \in Subjects, g \in Ids, sec \in Secrets,
        later \in now .. IF now < MaxTime THEN now + 1 ELSE now :
       LET gr == NewGrant(g, sub, sec, later) IN
       /\ CreateError(s, sub) = "ok"
       /\ KeyFree(g)
       /\ TxBegin(s, g :> Hashed(gr))
       /\ Run(s, "create", TRUE, << CreateResult(gr) >>, {}, NoPurge)
       /\ now' = later
  /\ UNCHANGED <<store, issued>>

(* ACCESS ac SHOW GRANT g: the grant, redacted; a missing g is NotFound.  *)
ShowOne(s) ==
  /\ Ready(s)
  /\ \E g \in Ids :
       /\ Stored(g)
       /\ TxBegin(s, << >>)
       /\ Run(s, "show", TRUE, << >>, {Redact(store[g]).key}, NoPurge)
  /\ UNCHANGED <<store, now, issued>>

(* ACCESS ac SHOW [WHERE cond | ALL]: every grant the condition, evaluated *)
(* on the redacted grant, finds truthy; without a condition, every grant.  *)
ShowAll(s) ==
  /\ Ready(s)
  /\ LET all == {g \in Ids : Stored(g)} IN
     \E hasCond \in BOOLEAN, matched \in SUBSET all :
       /\ ~hasCond => matched = all
       /\ TxBegin(s, << >>)
       /\ Run(s, "show", TRUE, << >>,
              KeysOf(RedactAll(GrantsOf(matched))) \cup
                IF hasCond THEN {Redact(store[g]).key : g \in all} ELSE {},
              NoPurge)
  /\ UNCHANGED <<store, now, issued>>

(* ACCESS ac REVOKE GRANT g: fails with AccessGrantRevoked if g is        *)
(* already revoked, otherwise sets its revocation and overwrites it (set). *)
RevokeOne(s) ==
  /\ Ready(s)
  /\ s \in Editors
  /\ \E g \in Ids :
       /\ Stored(g)
       /\ NotRevoked(store[g])
       /\ LET r == Revoked(store[g]) IN
          /\ TxBegin(s, g :> r)
          /\ Run(s, "revoke", TRUE, << >>, {Redact(r).key}, NoPurge)
  /\ UNCHANGED <<store, now, issued>>

(* ACCESS ac REVOKE [WHERE cond | ALL]: skips revoked grants, revokes the *)
(* others the condition matches, one set and one log line at a time; the  *)
(* condition or a set may fail after k of them.                            *)
RevokeAll(s) ==
  /\ Ready(s)
  /\ s \in Editors
  /\ LET open == {g \in Ids : Stored(g) /\ store[g].revocation = NoTime} IN
     \E hasCond \in BOOLEAN, matched \in SUBSET open :
       LET todo == [i \in DOMAIN GrantsOf(matched) |-> Revoked(GrantsOf(matched)[i])]
       IN
       \E k \in 0 .. Len(todo), ok \in BOOLEAN :
         /\ ~hasCond => matched = open
         /\ ok => k = Len(todo)
         /\ TxBegin(s, WritesOf(Prefix(todo, k)))
         /\ Run(s, "revoke", ok, << >>,
                KeysOf(RedactAll(Prefix(todo, k))) \cup
                  IF hasCond THEN {Redact(store[g]).key : g \in open} ELSE {},
                NoPurge)
  /\ UNCHANGED <<store, now, issued>>

(* ACCESS ac PURGE flags FOR grace: deletes every grant past its          *)
(* expiration or revocation by more than grace, one del and one log line  *)
(* at a time; a del may fail after k of them.  The parser rejects a PURGE *)
(* with neither flag.                                                      *)
Purge(s) ==
  /\ Ready(s)
  /\ s \in Editors
  /\ \E ex, rv \in BOOLEAN, grace \in Graces :
       LET st   == [expired |-> ex, revoked |-> rv, grace |-> grace]
           todo == GrantsOf({g \in Ids : Stored(g) /\ PurgeDue(store[g], st)})
       IN
       \E k \in 0 .. Len(todo), ok \in BOOLEAN :
         /\ ex \/ rv
         /\ ok => k = Len(todo)
         /\ TxBegin(s, [g \in {todo[i].id : i \in 1 .. k} |-> NoGrant])
         /\ Run(s, "purge", ok, << >>, KeysOf(RedactAll(Prefix(todo, k))), st)
  /\ UNCHANGED <<store, now, issued>>

-----------------------------------------------------------------------------
(* The end of a statement's transaction.  A commit delivers the result:   *)
(* a create's plaintext key reaches its caller only here.                  *)

Delivered(s) ==
  IF pending[s].op = "create"
  THEN {[id |-> gr.id, key |-> gr.key, creation |-> gr.creation] :
          gr \in {pending[s].created[i] : i \in DOMAIN pending[s].created}}
  ELSE {}

Commit(s) ==
  /\ pending[s].op # "none"
  /\ pending[s].ok
  /\ TxCommit(s)
  /\ issued' = {i \in issued \cup Delivered(s) : store'[i.id] # NoGrant}
  /\ pending' = [pending EXCEPT ![s] = Idle]
  /\ UNCHANGED now

(* The handler failed, or the commit did (a write conflict or a store     *)
(* error): nothing is written and the caller gets the error.               *)
Abort(s) ==
  /\ pending[s].op # "none"
  /\ TxCancel(s)
  /\ pending' = [pending EXCEPT ![s] = Idle]
  /\ UNCHANGED <<now, issued>>

Tick ==
  /\ now < MaxTime
  /\ now' = now + 1
  /\ UNCHANGED <<store, tx, pending, issued>>

Init ==
  /\ StoreInit
  /\ now = 0
  /\ pending = [s \in Sessions |-> Idle]
  /\ issued = {}

Next ==
  \/ Tick
  \/ \E s \in Sessions :
       \/ Create(s) \/ ShowOne(s) \/ ShowAll(s)
       \/ RevokeOne(s) \/ RevokeAll(s) \/ Purge(s)
       \/ Commit(s) \/ Abort(s)

Spec == Init /\ [][Next]_vars

-----------------------------------------------------------------------------
(***************************************************************************)
(* Properties.                                                             *)
(***************************************************************************)

Tokens == {Token(g, sec) : g \in Ids, sec \in Secrets}
Keys   == {Plain(t) : t \in Tokens} \cup {Sha256(t) : t \in Tokens} \cup {Redacted}
Grant  == [id : Ids, creation : Nat, expiration : Nat \cup {NoTime},
           revocation : Nat \cup {NoTime}, subject : Subjects, key : Keys]

TypeOK ==
  /\ TxTypeOK(Grant)
  /\ now \in 0 .. MaxTime
  /\ \A s \in Sessions :
       /\ pending[s].op \in {"none", "create", "show", "revoke", "purge"}
       /\ pending[s].ok \in BOOLEAN
       /\ pending[s].created \in Seq(Grant)
       /\ pending[s].shown \subseteq Keys
       /\ pending[s].purge \in [expired : BOOLEAN, revoked : BOOLEAN, grace : Nat]
  /\ issued \subseteq [id : Ids, key : Keys, creation : Nat]

(* The plaintext bearer key never leaves create_grant except in its own   *)
(* result: the store holds only hashes (GrantBearer::hashed before put),   *)
(* and SHOW, REVOKE and PURGE results, and the documents a WHERE          *)
(* condition is evaluated on, carry only the redaction marker.            *)
SecretsNeverExposed ==
  /\ \A g \in Ids : Stored(g) => store[g].key.kind = "sha256"
  /\ \A s \in Sessions :
       \A k \in pending[s].shown : k = Redacted

(* The key a committed ACCESS GRANT hands its caller authenticates: it is *)
(* the plaintext token, and while a grant with its id is stored, that is  *)
(* the grant the key was issued with and its stored hash is the hash of   *)
(* the key.  Two concurrent creates of one key id, a write that rewrites  *)
(* the key, or a result taken from the stored copy break it.              *)
IssuedKeyAuthenticates ==
  \A i \in issued :
    Stored(i.id) =>
      /\ i.key.kind = "plain"
      /\ store[i.id].creation = i.creation
      /\ store[i.id].key = Sha256(i.key.of)

(* Once stored, a grant changes only by being revoked, once: no later     *)
(* statement alters its id, times, subject or key, and a set revocation   *)
(* time is never moved or cleared (revoke_grant's AccessGrantRevoked      *)
(* check and bulk skip, under concurrent REVOKEs).                         *)
GrantChangesOnlyByRevocation ==
  [][\A g \in Ids :
       Stored(g) /\ store'[g] # NoGrant =>
         \/ store'[g] = store[g]
         \/ /\ store[g].revocation = NoTime
            /\ store'[g].revocation \in 0 .. now'
            /\ store'[g] = [store[g] EXCEPT !.revocation = store'[g].revocation]
    ]_store

(* spec.md 4.5: a grant may be deleted only by a PURGE whose flags it     *)
(* meets: expired (or revoked) at or before now and more than grace       *)
(* seconds ago.  Checked at the commit that deletes it, against the grant *)
(* as it is committed then, so a stale PURGE snapshot is caught too.       *)
DueBySpec(gr, st) ==
  \/ st.expired /\ gr.expiration # NoTime
       /\ now >= gr.expiration /\ now - gr.expiration > st.grace
  \/ st.revoked /\ gr.revocation # NoTime
       /\ now >= gr.revocation /\ now - gr.revocation > st.grace

PurgeOnlyDue ==
  [][\A g \in Ids :
       Stored(g) /\ store'[g] = NoGrant =>
         \E s \in Sessions :
           /\ pending[s].op = "purge"
           /\ g \in DOMAIN tx[s].writes
           /\ DueBySpec(store[g], pending[s].purge)
    ]_vars

(* spec.md 4.2: a stored grant's subject is one the access method takes  *)
(* at this level: record-bearer methods issue only to records, and only   *)
(* at database level; bearer methods issue to the subject kind they are   *)
(* configured for, to users only when the user exists, to records only at *)
(* database level; JWT methods issue nothing.                              *)
SubjectPermitted(sub) ==
  CASE AC.kind = "record" -> sub \in Records /\ Level = "db" /\ AC.bearer
    [] AC.kind = "bearer" /\ sub \in Users ->
         AC.subject = "user" /\ sub \in ExistingUsers
    [] AC.kind = "bearer" /\ sub \in Records ->
         AC.subject = "record" /\ Level = "db"
    [] AC.kind = "jwt" -> FALSE

SubjectsConform == \A g \in Ids : Stored(g) => SubjectPermitted(store[g].subject)

(* The lifecycle refines AbstractGrants: mapping the committed store to  *)
(* its grants and the clock to its clock, every committed statement is    *)
(* one abstract Issue, Revoke or Purge and every other step leaves the    *)
(* grants alone.                                                           *)
Abstract == INSTANCE AbstractGrants WITH
  grants      <- store,
  clock       <- now,
  HashedKeys  <- {Sha256(t) : t \in Tokens},
  Expirations <- IF AC.duration = NoTime THEN {NoTime}
                 ELSE {AC.duration + t : t \in 0 .. MaxTime}

RefinesAbstractGrants == Abstract!Spec

(* spec.md 4.1: the stored grant's expiration is its creation time plus  *)
(* the access method's grant duration.                                     *)
ExpirationIsCreationPlusDuration ==
  \A g \in Ids :
    Stored(g) /\ AC.duration # NoTime =>
      store[g].expiration = store[g].creation + AC.duration

=============================================================================
