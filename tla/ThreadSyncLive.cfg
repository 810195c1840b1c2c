CONSTANTS
  alice = alice
  bob = bob
  carol = carol
  op = op
  a1 = a1
  b1 = b1
  Node = {alice, bob}
  Post = {op, b1}
  Creator = alice
  Op = op
  Preview = Preview
  Author <- MCAuthor
  Parents <- ChainParents
  Rank <- ChainRank
  Deleters = {}
  Restarters = {alice, bob}
  MaxDownloads <- AllDownload
SPECIFICATION LiveSpec
INVARIANTS
  AnnouncedIsDownloadable
  ForeignKeysHold
PROPERTIES
  UpdateIsStored
  AnnouncedIsDownloaded
