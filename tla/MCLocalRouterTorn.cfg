SPECIFICATION Spec
CONSTANTS
  Namespaces = {"n1"}
  Databases = {"d1"}
  Keys = {"k"}
  Values = {"v"}
  Uuids = {"q"}
  NoValue = NoValue
  InitNs = "n0"
  InitDb = "d0"
  InitAu = "user"
  Clients = {c1, c2}
  Workloads <- WorkloadsTorn
INVARIANT NoTornSessionRead
