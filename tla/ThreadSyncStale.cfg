CONSTANTS
  alice = alice
  bob = bob
  carol = carol
  op = op
  a1 = a1
  b1 = b1
  Node = {alice, bob}
  Post = {op, a1}
  Creator = alice
  Op = op
  Preview = Preview
  Author <- MCAuthor
  Parents <- ReplyParents
  Rank <- ReplyRank
  Deleters = {}
  Restarters = {}
  MaxDownloads <- BobDownloads
SPECIFICATION Spec
INVARIANT StaleThreadCanResync
