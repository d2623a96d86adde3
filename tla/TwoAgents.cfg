CONSTANTS
  n1 = n1
  n2 = n2
  o = o
  u = u
  r = r
  m1 = m1
  m2 = m2
  mu = mu
  mf = mf
  mr = mr
  Node = {n1, n2}
  Key = {o, u, r}
  Message = {m1, m2}
  NoMessage = NoMessage
  Signer <- MCSigner
  Content <- MCContent
  Verified <- MCVerified
  RpcNode <- MCRpcNode
  OwnerArg <- AlwaysO
  ConfigJson <- NoConfigJson
  ChannelCap = 1
  Crashable = {n2}
SPECIFICATION FairSpec
INVARIANTS
  ServesWhatItInstalled
  Agreement
PROPERTIES
  InstallsOnlyNewer
  ImplementsRegister
  Convergence
