CONSTANTS
  bob = bob
  hello = hello
  reply = reply
  k1 = k1
  k2 = k2
  Me = Me
  Mail = {hello, reply}
  Peer = {bob}
  Key = {k1, k2}
  From <- MCFrom
  To <- MCTo
  KeyOf <- MCKeyOf
  Profiles <- BothKeys
  Codes <- BobCodes
  w1 = w1
  w2 = w2
  Worker = {w1, w2}
  MaxUnread = 2
  Restarts = TRUE
SPECIFICATION LiveSpec
INVARIANTS
  TypeOK
  ReferencesHold
  PendingMailIsSurfaced
PROPERTIES
  ImplementsMailbox
  PendingIsResolved
