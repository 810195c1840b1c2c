CONSTANTS
  bob = bob
  hello = hello
  reply = reply
  k1 = k1
  k2 = k2
  Me = Me
  Mail = {hello}
  Peer = {bob}
  Key = {k1, k2}
  From <- MCFrom
  To <- MCTo
  KeyOf <- MCKeyOf
  Profiles <- FirstKey
  Codes <- ShortCode
  w1 = w1
  w2 = w2
  Worker = {w1}
  MaxUnread = 2
  Restarts = FALSE
SPECIFICATION Spec
INVARIANT CountedOnce
