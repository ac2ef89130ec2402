------------------------- MODULE AuditedAccessGrants -------------------------
(***************************************************************************)
(* AccessGrants with its audit log observed.  create_grant, revoke_grant  *)
(* and compute_purge write one info! line per grant they create, revoke   *)
(* or purge, right after the store call and before the statement's         *)
(* transaction ends.  This module records those lines and the changes the *)
(* store really commits, so the two can be compared.  It adds no           *)
(* behaviour: every step is a step of AccessGrants.                        *)
(***************************************************************************)
EXTENDS AccessGrants

VARIABLES
  inflight,   \* inflight[s]: lines logged by s's statement while it runs
  audit,      \* lines logged by statements that have ended
  committed   \* the changes the store has committed

auditVars == <<inflight, audit, committed>>

Line(op, gr) == [op |-> op, id |-> gr.id, creation |-> gr.creation]

(* One line per write: the created or revoked grant, or the purged one    *)
(* as the statement read it.                                               *)
LinesOf(s) ==
  {Line(pending'[s].op,
        IF tx'[s].writes[g] = NoGrant THEN store[g] ELSE tx'[s].writes[g]) :
     g \in DOMAIN tx'[s].writes}

(* The change a commit makes to key g.                                     *)
ChangeOf(g) ==
  CASE store[g] = NoGrant  -> Line("create", store'[g])
    [] store'[g] = NoGrant -> Line("purge", store[g])
    [] OTHER               -> Line("revoke", store'[g])

Starts(s) == pending[s].op = "none" /\ pending'[s].op # "none"
Ends(s)   == pending[s].op # "none" /\ pending'[s].op = "none"

AuditStep ==
  /\ inflight' = [s \in Sessions |->
                    IF Starts(s) THEN LinesOf(s)
                    ELSE IF Ends(s) THEN {} ELSE inflight[s]]
  /\ audit' = audit \cup UNION {inflight[s] : s \in {t \in Sessions : Ends(t)}}
  /\ committed' = committed \cup {ChangeOf(g) : g \in {k \in Ids : store'[k] # store[k]}}

AuditInit ==
  /\ Init
  /\ inflight = [s \in Sessions |-> {}]
  /\ audit = {}
  /\ committed = {}

AuditSpec == AuditInit /\ [][Next /\ AuditStep]_<<vars, auditVars>>

(* Every audit line of an ended statement describes a change the store   *)
(* committed: no line claims a grant was created, revoked or purged by a  *)
(* statement whose transaction then failed.                                *)
AuditMatchesCommits == audit \subseteq committed

=============================================================================
