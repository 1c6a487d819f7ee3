SPECIFICATION SpecAccess
CONSTANTS
  k1 = k1  j1 = j1  s1 = s1  a1 = a1
  ApiKeys = {k1}
  Jwts = {j1}
  Sessions = {s1}
  Account = {a1}
  Holder <- OneHolder
  Request = {r1, r2}
  KeyTtl = 2
  RefusedTtl = 1
  BearerTtl = 3
  MaxChanges = 2
  Sub = {sub1, sub2}
  Email = {mail1, mail2, mail3}
  NoSub = NoSub
  Login = {login1, login2}
  MaxMailChanges = 2
  User = {user1, user2}
  Token = {t1, t2}
  Code = {code1}
  Redeemer = {red1, red2}
  NoUser = NoUser
  MaxPushFaults = 1
  Caller = {call1}
  MaxAdminFaults = 2
  Export = {x1, x2}
  RowLimit = 2
  MaxEvents = 3
  MaxExportFaults = 2
  Tick = 2
  LastInstant = 3
  RowKey = {1, 2, 3}
  PageSize = 1
SYMMETRY Interchangeable
INVARIANTS OneAccountEach CodeLinksOnce TrailIsTrue DownloadIsWhole PagesComplete
PROPERTIES LiveDeviceStays 
CHECK_DEADLOCK FALSE
