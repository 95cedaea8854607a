SPECIFICATION Spec
CONSTANTS
  Users = {u1, u2}
  Emails = {e1}
  NoEmail = NoEmail
  Clients = {c1, c2}
  Sessions = {s1, s2}
  NoToken = NoToken
  CodeIds = {k1, k2}
  Wrong = Wrong
  MaxAttempts = 2
SYMMETRY Symmetry
CHECK_DEADLOCK FALSE
INVARIANTS
  FreshActorsKeepAnAdmin
  SessionsFollowAccounts
  OpenCodesAreFew
  AddressesDoNotClash
PROPERTIES
  VerifiedByOwnCode
