SPECIFICATION Spec
CONSTANTS
  Docs = {1, 2, 3, 4}
  Orgs = {"a", "b"}
  NoOrg = "none"
  Users = {"u1", "u2"}
  OrgOf <- TwoTenants
  Clients = {c1}
  NoToken = NoToken
  Limit = 2
  Lifetime = 1
  Leeway = 0
  MaxTime = 1
INVARIANTS
  TypeOK
  WalkComplete
  PagesInOrder
  TenantScoped
  CommittedHasFile
