\* Bearer access method for users at root level: u2 does not exist, and
\* a record subject is outside the database level.
\* The same lifecycle is checked against the abstract grant registry.
CONSTANTS
  Sessions = {a, b}
  Secrets = {k1}
  NoGrant = NoGrant
  NoTime = NoTime
  Ids <- IdsMC
  Editors = {a, b}
  Graces = {0}
  MaxTime <- MaxTimeMC
  U64 <- U64MC
  Users = {u1, u2}
  Records = {r1}
  ExistingUsers = {u1}
  AC <- UserBearerAC
  Level = "root"
  DetectWriteConflicts = TRUE

SPECIFICATION Spec

INVARIANT SubjectsConform
PROPERTY RefinesAbstractGrants
