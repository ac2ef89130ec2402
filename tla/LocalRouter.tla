----------------------------- MODULE LocalRouter -----------------------------
(***************************************************************************)
(* The embedded-engine router of src/crates/sdk/src/api/engine/local/     *)
(* mod.rs.  One connection's state sits behind three tokio RwLocks:        *)
(* the Session (ns, db and auth), the Variables, and the live-query map   *)
(* of notification senders.  Each client of the connection runs its       *)
(* commands in order; the commands of different clients, and the task an  *)
(* ExportBytesMl spawns, run at the same time, meeting only at the locks.  *)
(*                                                                         *)
(* A tokio RwLock is fair: a task that has to wait joins a FIFO queue and *)
(* later arrivals wait behind it, readers included.  A guard lives until  *)
(* the end of the statement that takes it (a match scrutinee: until the   *)
(* end of the match), so the locks a command holds at once follow from    *)
(* the statements it is written in.  What the datastore does with a       *)
(* query is not modelled: a command's effect here is on the router state. *)
(***************************************************************************)
EXTENDS Naturals, Sequences, FiniteSets, TLC

CONSTANTS
  Clients,     \* tasks sharing one connection, each issuing commands in order
  Workloads,   \* the command sequences the clients issue: functions from
               \* Clients to sequences, an empty one for a client issuing none
  Namespaces,  \* namespace names a Use may select
  Databases,   \* database names a Use may select
  Keys,        \* variable names
  Values,      \* variable values
  Uuids,       \* live-query ids
  NoValue,     \* an absent Option (no ns, no db, an unset variable)
  InitNs,      \* the session's namespace when the clients start
  InitDb,      \* the session's database when the clients start
  InitAu       \* "user" when the session starts signed in, else "none"

Tasks == Clients \X {"main", "spawn"}
Locks == {"session", "vars", "live"}

VARIABLES
  session,    \* the Session: [ns, db, au]
  vars,       \* the Variables: vars[k] is a value or NoValue
  senders,    \* the live-query map: ids with a notification sender
  live,       \* <<client, id>> of live queries registered in the datastore
  lock,       \* lock[l]: [readers, writer, queue] of each RwLock
  prog,       \* prog[c]: the commands client c issues
  idx,        \* idx[c]: the position of client c's current command
  pc,         \* pc[t]: where task t is
  checked,    \* checked[t]: the ns and db ImportMl checked permission on
  spawnIdx    \* spawnIdx[c]: the position of the command that spawned c's task

vars_ == <<session, vars, senders, live, lock, prog, idx, pc, checked,
           spawnIdx>>

Main(c)  == <<c, "main">>
Spawn(c) == <<c, "spawn">>

Cmd(t) == prog[t[1]][IF t[2] = "main" THEN idx[t[1]] ELSE spawnIdx[t[1]]]

(* A live-query id is a Uuid::new_v4 of the LIVE statement its client    *)
(* ran: ids of different clients never meet.                               *)
LiveId(t) == <<t[1], Cmd(t).uuid>>

-----------------------------------------------------------------------------
(* tokio::sync::RwLock.  A request is granted at once only when nobody    *)
(* waits and the lock is free for its mode; otherwise the task queues.    *)

Unlocked == [readers |-> {}, writer |-> {}, queue |-> << >>]

Free(l, mode) ==
  /\ lock[l].writer = {}
  /\ mode = "read" \/ lock[l].readers = {}

Queued(t, l) == \E i \in DOMAIN lock[l].queue : lock[l].queue[i][1] = t

Holding(lk, t, mode) ==
  IF mode = "read" THEN [lk EXCEPT !.readers = @ \cup {t}]
  ELSE [lk EXCEPT !.writer = {t}]

Unlock(lk, t) == [lk EXCEPT !.readers = @ \ {t}, !.writer = @ \ {t}]

(* Every guard t holds on the locks in ls is dropped.                    *)
Release(t, ls) ==
  lock' = [l \in Locks |-> IF l \in ls THEN Unlock(lock[l], t) ELSE lock[l]]

-----------------------------------------------------------------------------
(* Where each command starts and which lock each of its awaits takes.     *)

(* ExportBytes clones the session before it spawns the export task;       *)
(* ExportBytesMl hands the lock itself to the task.                        *)
ReadsSessionBeforeSpawn(cmd) == cmd.op = "exportBytes"

PlanUnderBothOps == {"create", "insertRelation", "run", "importFile"}

PlanOnClonedVarsOps ==
  {"select", "upsert", "update", "insert", "patch", "merge", "delete", "query",
   "rawQuery"}

(* ImportFile and ImportMl open the file before they take any guard.     *)
OpensFileOps == {"importFile", "importMl"}

(* Mutant: the sender is removed only once KILL has succeeded.           *)
KillRemovesSenderLast == FALSE

(* live_queries.write().await.remove(&uuid) comes before kill_live_query. *)
KillRemovesSenderFirst == TRUE

StartPc(cmd) ==
  CASE cmd.op = "use"        -> IF cmd.ns # NoValue THEN "use_ns" ELSE "use_db"
    [] cmd.op \in {"signup", "signin", "authenticate"} -> "auth"
    [] cmd.op = "invalidate" -> "clear"
    [] cmd.op \in PlanUnderBothOps -> "sv_s"
    [] cmd.op \in PlanOnClonedVarsOps -> "vs_v"
    [] cmd.op \in OpensFileOps -> "open"
    [] cmd.op = "set"        -> "set_v"
    [] cmd.op = "unset"      -> "unset"
    [] cmd.op = "subscribe"  -> "sub"
    [] cmd.op = "kill"       -> IF KillRemovesSenderFirst THEN "kill_l" ELSE "kill_s"
    [] cmd.op = "exportFile" -> "ex_s"
    [] cmd.op = "exportMl"   -> "em_s"
    [] cmd.op \in {"exportBytes", "exportBytesMl"} ->
         IF ReadsSessionBeforeSpawn(cmd) THEN "eb_s" ELSE "eb_spawn"

A(l, mode, next) == [lock |-> l, mode |-> mode, next |-> next]

CreateAwaits ==
  [sv_s |-> A("session", "read", "sv_v"), sv_v |-> A("vars", "read", "sv_p")]

Awaits ==
  CreateAwaits @@
  [use_ns |-> A("session", "write", "use_ns!"),
   use_db |-> A("session", "write", "use_db!"),
   auth   |-> A("session", "write", "auth!"),
   clear  |-> A("session", "write", "clear!"),
   vs_v   |-> A("vars", "read", "vs_clone"),
   vs_s   |-> A("session", "read", "vs_p"),
   set_v  |-> A("vars", "read", "set_clone"),
   set_s  |-> A("session", "read", "set_compute"),
   set_w  |-> A("vars", "write", "set_write"),
   unset  |-> A("vars", "write", "unset!"),
   sub    |-> A("live", "write", "sub!"),
   kill_l |-> A("live", "write", "kill_rm"),
   kill_s |-> A("session", "read", "kill_v"),
   kill_v |-> A("vars", "read", "kill_p"),
   ex_s   |-> A("session", "read", "ex_clone"),
   em_s   |-> A("session", "read", "em_run"),
   eb_s   |-> A("session", "read", "eb_clone"),
   xm_s   |-> A("session", "read", "xm_run"),
   im_s1  |-> A("session", "read", "im_ns"),
   im_s2  |-> A("session", "read", "im_perm"),
   im_s3  |-> A("session", "read", "im_v"),
   im_v   |-> A("vars", "read", "im_def")]

-----------------------------------------------------------------------------
(* Taking a guard.  The await resolves at once, or the task queues and    *)
(* is woken in FIFO order once the lock is free for it.                   *)

Request(t) ==
  /\ pc[t] \in DOMAIN Awaits
  /\ LET a == Awaits[pc[t]] IN
     /\ ~Queued(t, a.lock)
     /\ IF lock[a.lock].queue = << >> /\ Free(a.lock, a.mode)
        THEN /\ lock' = [lock EXCEPT ![a.lock] = Holding(@, t, a.mode)]
             /\ pc' = [pc EXCEPT ![t] = a.next]
        ELSE /\ lock' = [lock EXCEPT ![a.lock].queue = Append(@, <<t, a.mode>>)]
             /\ UNCHANGED pc
  /\ UNCHANGED <<session, vars, senders, live, prog, idx, checked, spawnIdx>>

Wake(t) ==
  /\ pc[t] \in DOMAIN Awaits
  /\ LET a == Awaits[pc[t]] IN
     /\ lock[a.lock].queue # << >>
     /\ Head(lock[a.lock].queue) = <<t, a.mode>>
     /\ Free(a.lock, a.mode)
     /\ lock' = [lock EXCEPT ![a.lock] = Holding([@ EXCEPT !.queue = Tail(@)], t, a.mode)]
     /\ pc' = [pc EXCEPT ![t] = a.next]
  /\ UNCHANGED <<session, vars, senders, live, prog, idx, checked, spawnIdx>>

-----------------------------------------------------------------------------
(* The end of a command: the client issues its next one, if any; a       *)
(* spawned task goes idle.                                                 *)
Finish(t) ==
  IF t[2] = "spawn"
  THEN /\ pc' = [pc EXCEPT ![t] = "idle"]
       /\ UNCHANGED idx
  ELSE LET c == t[1] IN
       /\ idx' = [idx EXCEPT ![c] = @ + 1]
       /\ pc' = [pc EXCEPT ![t] = IF idx[c] < Len(prog[c])
                                  THEN StartPc(prog[c][idx[c] + 1]) ELSE "done"]

(* Mutant: the database is taken from the namespace argument.            *)
UseDbFromNs(cmd) == cmd.ns

(* The db a Use writes: Some(db).                                          *)
UseDb(cmd) == cmd.db

(* Command::Use: session.write().await.ns = Some(ns), then, under a       *)
(* second write guard, the db.                                            *)
Use(t) ==
  \/ /\ pc[t] = "use_ns!"
     /\ session' = [session EXCEPT !.ns = Cmd(t).ns]
     /\ Release(t, {"session"})
     /\ IF Cmd(t).db # NoValue
        THEN pc' = [pc EXCEPT ![t] = "use_db"] /\ UNCHANGED idx
        ELSE Finish(t)
  \/ /\ pc[t] = "use_db!"
     /\ session' = [session EXCEPT !.db = UseDb(Cmd(t))]
     /\ Release(t, {"session"}) /\ Finish(t)
  /\ UNCHANGED <<vars, senders, live, prog, checked, spawnIdx>>

(* ImportFile and ImportMl: a file that does not open ends the command   *)
(* with FileOpen before any guard is taken.                                *)
OpenFile(t) ==
  /\ pc[t] = "open"
  /\ \E ok \in BOOLEAN :
       IF ok THEN pc' = [pc EXCEPT ![t] = IF Cmd(t).op = "importMl" THEN "im_s1" ELSE "sv_s"]
                  /\ UNCHANGED idx
       ELSE Finish(t)
  /\ UNCHANGED <<session, vars, senders, live, lock, prog, checked, spawnIdx>>

(* Command::Signin, Signup and Authenticate: the iam call runs under the  *)
(* session write guard and sets the auth only when it succeeds.           *)
Signin(t) ==
  /\ pc[t] = "auth!"
  /\ \E ok \in BOOLEAN :
       IF ok THEN session' = [session EXCEPT !.au = "user"]
       ELSE UNCHANGED session
  /\ Release(t, {"session"}) /\ Finish(t)
  /\ UNCHANGED <<vars, senders, live, prog, checked, spawnIdx>>

(* Command::Invalidate: iam::clear::clear drops the auth.                 *)
Invalidate(t) ==
  /\ pc[t] = "clear!"
  /\ session' = [session EXCEPT !.au = "none"]
  /\ Release(t, {"session"}) /\ Finish(t)
  /\ UNCHANGED <<vars, senders, live, prog, checked, spawnIdx>>

(* Command::Create, InsertRelation, Run and ImportFile: the plan runs     *)
(* holding the session guard and, taken after it, the variables guard;    *)
(* both drop when the plan returns.                                        *)
PlanUnderBothGuards(t, op) ==
  /\ pc[t] = "sv_p" /\ Cmd(t).op = op
  /\ Release(t, {"session", "vars"}) /\ Finish(t)
  /\ UNCHANGED <<session, vars, senders, live, prog, checked, spawnIdx>>

Create(t)         == PlanUnderBothGuards(t, "create")
InsertRelation(t) == PlanUnderBothGuards(t, "insertRelation")
Run(t)            == PlanUnderBothGuards(t, "run")
ImportFile(t)     == PlanUnderBothGuards(t, "importFile")

(* Command::Select, Upsert, Update, Insert, Patch, Merge, Delete, Query   *)
(* and RawQuery: the variables are cloned under a guard dropped at the end *)
(* of the let; the plan then runs holding the session guard.               *)
PlanOnClonedVars(t, op) ==
  /\ pc[t] \in {"vs_clone", "vs_p"} /\ Cmd(t).op = op
  /\ \/ /\ pc[t] = "vs_clone"
        /\ Release(t, {"vars"})
        /\ pc' = [pc EXCEPT ![t] = "vs_s"]
        /\ UNCHANGED idx
     \/ /\ pc[t] = "vs_p"
        /\ Release(t, {"session"}) /\ Finish(t)
  /\ UNCHANGED <<session, vars, senders, live, prog, checked, spawnIdx>>

Select(t)   == PlanOnClonedVars(t, "select")
Upsert(t)   == PlanOnClonedVars(t, "upsert")
Update(t)   == PlanOnClonedVars(t, "update")
Insert(t)   == PlanOnClonedVars(t, "insert")
Patch(t)    == PlanOnClonedVars(t, "patch")
Merge(t)    == PlanOnClonedVars(t, "merge")
Delete(t)   == PlanOnClonedVars(t, "delete")
Query(t)    == PlanOnClonedVars(t, "query")
RawQuery(t) == PlanOnClonedVars(t, "rawQuery")

(* let mut tmp_vars = vars.read().await.clone(): the guard drops at the   *)
(* end of the let.                                                         *)
SetVarsSnapshot(t) == Release(t, {"vars"})

(* Command::Set: the variables are cloned under one guard; the value is   *)
(* computed under a session guard that, being in the match scrutinee,     *)
(* stays held while the arm awaits the variables write guard.  A None     *)
(* result removes the key.                                                 *)
Set(t) ==
  \/ /\ pc[t] = "set_clone"
     /\ SetVarsSnapshot(t)
     /\ pc' = [pc EXCEPT ![t] = "set_s"]
     /\ UNCHANGED <<vars, idx>>
  \/ /\ pc[t] = "set_compute"
     /\ \E ok \in BOOLEAN :
          IF ok THEN pc' = [pc EXCEPT ![t] = "set_w"] /\ UNCHANGED <<lock, idx>>
          ELSE Release(t, {"session"}) /\ Finish(t)
     /\ UNCHANGED vars
  \/ /\ pc[t] = "set_write"
     /\ \E v \in {Cmd(t).val, NoValue} : vars' = [vars EXCEPT ![Cmd(t).key] = v]
     /\ Release(t, {"session", "vars"}) /\ Finish(t)
  /\ UNCHANGED <<session, senders, live>>
  /\ UNCHANGED <<prog, checked, spawnIdx>>

(* Command::Unset: vars.write().await.remove(&key).                       *)
Unset(t) ==
  /\ pc[t] = "unset!"
  /\ vars' = [vars EXCEPT ![Cmd(t).key] = NoValue]
  /\ Release(t, {"vars"}) /\ Finish(t)
  /\ UNCHANGED <<session, senders, live>>
  /\ UNCHANGED <<prog, checked, spawnIdx>>

(* Command::SubscribeLive: the sender goes into the live-query map.        *)
SubscribeLive(t) ==
  /\ pc[t] = "sub!"
  /\ senders' = senders \cup {LiveId(t)}
  /\ Release(t, {"live"}) /\ Finish(t)
  /\ UNCHANGED <<session, vars, live>>
  /\ UNCHANGED <<prog, checked, spawnIdx>>

(* Command::Kill: the sender is removed first, then kill_live_query runs  *)
(* KILL under the session and variables guards; KILL fails for an id the *)
(* datastore does not hold, and may fail for reasons of its own.  Its     *)
(* error returns from the handler at once.                                 *)
Kill(t) ==
  \/ /\ pc[t] = "kill_rm"
     /\ senders' = senders \ {LiveId(t)}
     /\ Release(t, {"live"})
     /\ IF KillRemovesSenderFirst
        THEN pc' = [pc EXCEPT ![t] = "kill_s"] /\ UNCHANGED idx
        ELSE Finish(t)
     /\ UNCHANGED live
  \/ /\ pc[t] = "kill_p"
     /\ \E ok \in BOOLEAN :
          /\ ok => LiveId(t) \in live
          /\ live' = IF ok THEN live \ {LiveId(t)} ELSE live
          /\ IF ok /\ ~KillRemovesSenderFirst
             THEN pc' = [pc EXCEPT ![t] = "kill_l"] /\ UNCHANGED idx
             ELSE Finish(t)
     /\ Release(t, {"session", "vars"})
     /\ UNCHANGED senders
  /\ UNCHANGED <<session, vars>>
  /\ UNCHANGED <<prog, checked, spawnIdx>>

(* Command::ExportFile: session.read().await.clone(), then the export     *)
(* runs on the clone.  Command::ExportMl: the guard itself is kept for the *)
(* whole export.                                                           *)
ExportFile(t) ==
  /\ pc[t] = "ex_clone"
  /\ Release(t, {"session"}) /\ Finish(t)
  /\ UNCHANGED <<session, vars, senders, live>>
  /\ UNCHANGED <<prog, checked, spawnIdx>>

ExportMl(t) ==
  /\ pc[t] = "em_run"
  /\ Release(t, {"session"}) /\ Finish(t)
  /\ UNCHANGED <<session, vars, senders, live>>
  /\ UNCHANGED <<prog, checked, spawnIdx>>

(* Command::ExportBytes and ExportBytesMl: the handler spawns the export  *)
(* and answers at once.  ExportBytes has cloned the session first;        *)
(* ExportBytesMl's task takes session.read() when it runs.                 *)
ExportBytes(t) ==
  \/ /\ pc[t] = "eb_clone"
     /\ Release(t, {"session"}) /\ Finish(t)
     /\ UNCHANGED spawnIdx
  \/ /\ pc[t] = "eb_spawn"
     /\ LET c == t[1] IN
        /\ pc[Spawn(c)] = "idle"
        /\ spawnIdx' = [spawnIdx EXCEPT ![c] = idx[c]]
        /\ idx' = [idx EXCEPT ![c] = @ + 1]
        /\ pc' = [pc EXCEPT ![Spawn(c)] = "xm_s",
                            ![t] = IF idx[c] < Len(prog[c])
                                   THEN StartPc(prog[c][idx[c] + 1]) ELSE "done"]
     /\ UNCHANGED lock
  \/ /\ pc[t] = "xm_run"
     /\ Release(t, {"session"}) /\ Finish(t)
     /\ UNCHANGED spawnIdx
  /\ UNCHANGED <<session, vars, senders, live>>
  /\ UNCHANGED <<prog, checked>>

(* Command::ImportMl: check_ns_db under one session guard, kvs.check for *)
(* Edit on that ns and db under a second; reading, parsing and storing the *)
(* file may then fail; DEFINE MODEL is processed under a third session    *)
(* guard with the variables guard.                                         *)
ImportMl(t) ==
  \/ /\ pc[t] = "im_ns"
     /\ IF session.ns # NoValue /\ session.db # NoValue
        THEN /\ checked' = [checked EXCEPT ![t] = <<session.ns, session.db>>]
             /\ pc' = [pc EXCEPT ![t] = "im_s2"] /\ UNCHANGED idx
        ELSE Finish(t) /\ UNCHANGED checked
     /\ Release(t, {"session"})
  \/ /\ pc[t] = "im_perm"
     /\ IF session.au = "user"
        THEN \E readOk \in BOOLEAN :
               IF readOk THEN pc' = [pc EXCEPT ![t] = "im_s3"] /\ UNCHANGED idx
               ELSE Finish(t)
        ELSE Finish(t)
     /\ Release(t, {"session"})
     /\ UNCHANGED checked
  \/ /\ pc[t] = "im_def"
     /\ Release(t, {"session", "vars"}) /\ Finish(t)
     /\ UNCHANGED checked
  /\ UNCHANGED <<session, vars, senders, live>>
  /\ UNCHANGED <<prog, spawnIdx>>

-----------------------------------------------------------------------------
Init ==
  /\ session = [ns |-> InitNs, db |-> InitDb, au |-> InitAu]
  /\ vars = [k \in Keys |-> NoValue]
  /\ senders = {}
  /\ live = Clients \X Uuids
  /\ lock = [l \in Locks |-> Unlocked]
  /\ prog \in Workloads
  /\ idx = [c \in Clients |-> 1]
  /\ pc = [t \in Tasks |-> IF t[2] = "main" /\ prog[t[1]] # << >>
                           THEN StartPc(prog[t[1]][1])
                           ELSE IF t[2] = "main" THEN "done" ELSE "idle"]
  /\ checked = [t \in Tasks |-> << >>]
  /\ spawnIdx = [c \in Clients |-> 0]

Finished == \A t \in Tasks : pc[t] \in {"done", "idle"}

Step(t) ==
  \/ Request(t) \/ Wake(t)
  \/ OpenFile(t) \/ Use(t) \/ Signin(t) \/ Invalidate(t)
  \/ Create(t) \/ InsertRelation(t) \/ Run(t) \/ ImportFile(t)
  \/ Select(t) \/ Upsert(t) \/ Update(t) \/ Insert(t) \/ Patch(t) \/ Merge(t)
  \/ Delete(t) \/ Query(t) \/ RawQuery(t)
  \/ Set(t) \/ Unset(t) \/ SubscribeLive(t) \/ Kill(t)
  \/ ExportFile(t) \/ ExportMl(t) \/ ExportBytes(t) \/ ImportMl(t)

(* Every client has had all its commands answered: the router idles.      *)
Terminating == Finished /\ UNCHANGED vars_

Next == (\E t \in Tasks : Step(t)) \/ Terminating

(* tokio polls every woken task, and a lock wakes its waiters in order:   *)
(* no task that can proceed is passed over forever.                        *)
Spec == Init /\ [][Next]_vars_ /\ \A t \in Tasks : WF_vars_(Step(t))

-----------------------------------------------------------------------------
(***************************************************************************)
(* Properties.                                                             *)
(***************************************************************************)

Session == [ns : Namespaces \cup {InitNs, NoValue}, db : Databases \cup {InitDb, NoValue},
            au : {"user", "none"}]

LockState == [readers : SUBSET Tasks, writer : SUBSET Tasks,
              queue : Seq(Tasks \X {"read", "write"})]

TypeOK ==
  /\ session \in Session
  /\ vars \in [Keys -> Values \cup {NoValue}]
  /\ senders \subseteq Clients \X Uuids /\ live \subseteq Clients \X Uuids
  /\ lock \in [Locks -> LockState]
  /\ \A l \in Locks : Cardinality(lock[l].writer) <= 1
  /\ idx \in [Clients -> Nat] /\ spawnIdx \in [Clients -> Nat]
  /\ pc \in [Tasks -> STRING]

UseTorn ==
  \E c \in Clients :
    /\ pc[Main(c)] \in {"use_db", "use_db!"}
    /\ Cmd(Main(c)).ns # NoValue

NoTornSessionRead == \A t \in lock["session"].readers : ~UseTorn

(* ImportMl defines the model in the namespace and database on which it  *)
(* checked that the caller may edit models.                                *)
ImportMlDefinesWhereChecked ==
  \A t \in Tasks :
    pc[t] = "im_def" => <<session.ns, session.db>> = checked[t]

(* Once Kill is answered, the client's notification stream for that id  *)
(* is closed, whether or not the KILL statement succeeded: Kill removes   *)
(* the sender before it runs KILL, whose error returns from the handler.   *)
(* (The price is the hazard at mod.rs:1170: a failed KILL leaves the live  *)
(* query registered with no sender.)                                       *)
KillClosesStream ==
  \A c \in Clients : \A i \in 1..(idx[c] - 1) :
    LET cmd == prog[c][i] IN
    /\ cmd.op = "kill"
    /\ ~\E j \in (i + 1)..(idx[c] - 1) :
         prog[c][j].op = "subscribe" /\ prog[c][j].uuid = cmd.uuid
    => <<c, cmd.uuid>> \notin senders

====
