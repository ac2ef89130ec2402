\* Audit lines of statements whose transaction failed.
CONSTANTS
  Sessions = {a, b}
  Secrets = {k1}
  NoGrant = NoGrant
  NoTime = NoTime
  Ids <- IdsMC
  Editors = {a, b}
  Graces = {0, 1}
  MaxTime <- MaxTimeMC
  U64 <- U64MC
  Users = {u1}
  Records = {r1}
  ExistingUsers = {u1}
  AC <- RecordBearerAC
  Level = "db"
  DetectWriteConflicts = TRUE

SPECIFICATION AuditSpec

INVARIANT AuditMatchesCommits
