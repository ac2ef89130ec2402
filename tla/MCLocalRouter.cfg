SPECIFICATION Spec
CONSTANTS
  Namespaces = {"n1"}
  Databases = {"d1"}
  Keys = {"k"}
  Values = {"v"}
  Uuids = {"q"}
  NoValue = NoValue
  InitNs = NoValue
  InitDb = NoValue
  InitAu = "none"
  Clients = {c1, c2, c3}
  Workloads <- WorkloadsRouter
INVARIANT TypeOK KillClosesStream
 
