---------------------------- MODULE AbstractGrants ----------------------------
(***************************************************************************)
(* What the grant lifecycle promises (spec.md sections 3 and 4), with no  *)
(* transactions, sessions or handlers: the grants of one access method    *)
(* change only in whole statements, each taking effect at once.  A grant  *)
(* is issued into a free key id, unrevoked, with its key hashed; some      *)
(* unrevoked grants are revoked, each once, at a time no later than now;  *)
(* some grants that one PURGE's flags and grace make due are deleted.     *)
(***************************************************************************)
EXTENDS Naturals

CONSTANTS
  Ids,          \* grant identifiers
  Subjects,     \* the subjects a grant may be for
  HashedKeys,   \* the stored forms of bearer keys (hashes only)
  Expirations,  \* the expiration times a new grant may carry, NoTime included
  Graces,       \* grace durations a PURGE may give
  MaxTime,      \* the last second the clock reaches
  NoGrant,      \* the value of a free key id
  NoTime        \* an absent time

VARIABLES grants, clock

absVars == <<grants, clock>>

Held(g) == grants[g] # NoGrant

Due(gr, ex, rv, grace) ==
  \/ ex /\ gr.expiration # NoTime
       /\ clock >= gr.expiration /\ clock - gr.expiration > grace
  \/ rv /\ gr.revocation # NoTime
       /\ clock >= gr.revocation /\ clock - gr.revocation > grace

(* The grants that may be issued under key id g: created by now,          *)
(* unrevoked, with a hashed key.                                           *)
NewGrants(g) ==
  [id : {g}, creation : 0 .. clock, expiration : Expirations,
   revocation : {NoTime}, subject : Subjects, key : HashedKeys]

(* A new grant under a free key id.                                        *)
Issue(g) ==
  /\ ~Held(g)
  /\ \E gr \in NewGrants(g) : grants' = [grants EXCEPT ![g] = gr]
  /\ UNCHANGED clock

(* Grants of `which`, all held and unrevoked, get a revocation time each. *)
Revoke(which) ==
  /\ which # {}
  /\ \A g \in which : Held(g) /\ grants[g].revocation = NoTime
  /\ \E when \in [which -> 0 .. clock] :
       grants' = [g \in Ids |->
                    IF g \in which THEN [grants[g] EXCEPT !.revocation = when[g]]
                    ELSE grants[g]]
  /\ UNCHANGED clock

(* Grants of `which`, all due under one PURGE's flags and grace, go.       *)
Purge(which) ==
  /\ which # {}
  /\ \E ex, rv \in BOOLEAN, grace \in Graces :
       \A g \in which : Held(g) /\ Due(grants[g], ex, rv, grace)
  /\ grants' = [g \in Ids |-> IF g \in which THEN NoGrant ELSE grants[g]]
  /\ UNCHANGED clock

Tick ==
  /\ clock < MaxTime
  /\ clock' = clock + 1
  /\ UNCHANGED grants

Init ==
  /\ grants = [g \in Ids |-> NoGrant]
  /\ clock = 0

Next ==
  \/ Tick
  \/ \E g \in Ids : Issue(g)
  \/ \E which \in SUBSET Ids : Revoke(which) \/ Purge(which)

Spec == Init /\ [][Next]_absVars

=============================================================================
