SPECIFICATION FairSpec
CONSTANTS
  Nil = Nil
  Missing = Missing
  Empty = Empty
  a1 = a1
  a2 = a2
  p1 = p1
  p2 = p2
  AuthorityArns = {a1, a2}
  Pairs = {p1, p2}
  InitSpecs <- MCSpecs
  InitAuthority <- NoAuthority
  InitSecrets <- MCSecrets
  NewAuthorities <- MCAuthorities
  NewReferences = {Nil, "empty", "ca"}
  Limits <- MCLimits
INVARIANTS
  IInv
  RefusedOnlyIfBothSet
PROPERTIES
  NeverPublicInstead
  CreationCompletes
  DeletionNotBlocked
