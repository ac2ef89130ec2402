---------------------------- MODULE MCLocalRouter ----------------------------
(* Instantiates LocalRouter: commands over one namespace and database    *)
(* besides the initial ones, one variable, one live query.                *)
EXTENDS LocalRouter

C(op, ns, db, key, val, uuid) ==
  [op |-> op, ns |-> ns, db |-> db, key |-> key, val |-> val, uuid |-> uuid]

UseBoth      == C("use", "n1", "d1", "k", "v", "q")
UseDbOnly        == C("use", NoValue, "d1", "k", "v", "q")
SigninCmd    == C("signin", NoValue, NoValue, "k", "v", "q")
InvalidateCmd == C("invalidate", NoValue, NoValue, "k", "v", "q")
CreateCmd    == C("create", NoValue, NoValue, "k", "v", "q")
SelectCmd    == C("select", NoValue, NoValue, "k", "v", "q")
SetCmd       == C("set", NoValue, NoValue, "k", "v", "q")
UnsetCmd     == C("unset", NoValue, NoValue, "k", "v", "q")
SubscribeCmd == C("subscribe", NoValue, NoValue, "k", "v", "q")
KillCmd      == C("kill", NoValue, NoValue, "k", "v", "q")
ExportFileCmd == C("exportFile", NoValue, NoValue, "k", "v", "q")
ExportMlCmd  == C("exportMl", NoValue, NoValue, "k", "v", "q")
ExportBytesCmd == C("exportBytes", NoValue, NoValue, "k", "v", "q")
ExportBytesMlCmd == C("exportBytesMl", NoValue, NoValue, "k", "v", "q")
ImportMlCmd  == C("importMl", NoValue, NoValue, "k", "v", "q")

(* One command of every kind the router handles.                          *)
Op(op) == C(op, NoValue, NoValue, "k", "v", "q")

EveryCommand ==
  {UseBoth, UseDbOnly, ExportFileCmd, ExportMlCmd, ExportBytesCmd, ExportBytesMlCmd}
  \cup {Op(op) : op \in {"signup", "signin", "authenticate", "invalidate", "set",
                         "unset", "subscribe", "kill", "importMl"}}
  \cup {Op(op) : op \in PlanUnderBothOps \cup PlanOnClonedVarsOps}

(* Single commands on three clients: every handler that takes a lock    *)
(* meets every pair of others at the three locks.                          *)
ProgramsAll ==
  {<<UseBoth>>, <<SigninCmd>>, <<InvalidateCmd>>, <<CreateCmd>>, <<SelectCmd>>,
   <<SetCmd>>, <<UnsetCmd>>, <<SubscribeCmd, KillCmd>>, <<ImportMlCmd>>}

(* The exports, each followed on its client by a command that may touch  *)
(* the session, against a Use of another client.                           *)
ProgramsExport ==
  {<<ExportFileCmd, UseDbOnly>>, <<ExportMlCmd, UseDbOnly>>, <<ExportBytesCmd, UseDbOnly>>,
   <<ExportBytesMlCmd, SelectCmd>>, <<UseBoth>>}

(* Two clients, each issuing any one command, or an export followed by a *)
(* command that may touch the session.                                     *)
ProgramsEach == {<<cmd>> : cmd \in EveryCommand} \cup ProgramsExport

ProgramsImport == {<<ImportMlCmd>>, <<UseBoth>>}

ProgramsTorn == {<<UseBoth>>, <<CreateCmd>>}

(* Every client runs one of the lock-taking programs.                     *)
WorkloadsAll == [Clients -> ProgramsAll]

(* One client stays idle while the others each run any one command, or   *)
(* an export followed by a command that may touch the session.            *)
IdleClient == CHOOSE c \in Clients : TRUE

WorkloadsEach ==
  {w \in [Clients -> ProgramsEach \cup {<< >>}] :
     \A c \in Clients : (w[c] = << >>) <=> (c = IdleClient)}

(* The lock-order workloads and the every-handler workloads together.    *)
WorkloadsRouter == WorkloadsAll \cup WorkloadsEach

WorkloadsImport == [Clients -> ProgramsImport]

WorkloadsTorn == [Clients -> ProgramsTorn]
====
