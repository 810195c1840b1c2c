CONSTANTS
  alice = alice
  bob = bob
  carol = carol
  op = op
  a1 = a1
  b1 = b1
  Node = {alice, bob, carol}
  Post = {op, b1}
  Creator = alice
  Op = op
  Preview = Preview
  Author <- MCAuthor
  Parents <- SkewedParents
  Rank <- SkewedRank
  Deleters = {bob}
  Restarters = {bob}
  MaxDownloads <- BobDownloads
SPECIFICATION Spec
INVARIANTS
  TypeOK
  ForeignKeysHold
  HashWasAnnounced
PROPERTIES
  NothingIsForgotten
  ImplementsExchange
