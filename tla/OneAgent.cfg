CONSTANTS
  n1 = n1
  n2 = n2
  o = o
  u = u
  r = r
  m1 = m1
  m2 = m2
  mu = mu
  mf = mf
  mr = mr
  Node = {n1}
  Key = {o, u, r}
  Message = {m1, m2, mu, mf, mr}
  NoMessage = NoMessage
  Signer <- MCSigner
  Content <- MCContent
  Verified <- MCVerified
  RpcNode <- MCRpcNode
  OwnerArg <- OOrR
  ConfigJson <- MCConfigJson
  ChannelCap = 2
  Crashable = {n1}
SPECIFICATION Spec
INVARIANTS
  TypeOK
  Provenance
  DurableNotAhead
PROPERTIES
  ImplementsRegister
  DurableNeverRegresses
