SPECIFICATION SpecFeeds
CONSTANTS
  p1 = p1  q1 = q1  r1 = r1  r2 = r2
  Proc = {p1}
  Reader = {r1, r2, q1}
  Poller = {q1}
  Client = {c1, c2}
  ProcOf <- OneProc
  FeedTtl = 1
  IntercityTtl = 1
  TrackTtl = 1
  StickyTtl = 2
  MaxFailures = 1
  Feeds <- SomeFeeds
  StopSequence = {1, 2}
  MaxStops = 3
  j1 = j1  j2 = j2  j3 = j3  j4 = j4
  Journey = {j1, j2, j3, j4}
  Timetables <- SomeTimetables
  NoTime = NoTime
  AskedFor = {1, 4}
  PerPage = 2
  MaxChanged = 1
  Call = {call1, call2}
  Interval = 2
  PerSecond = 2
  MaxRetries = 2
  Dedicated = FALSE
  MaxCalls = 3
INVARIANTS  TripIsJoined PacedStarts EveryJourneyShown
PROPERTIES  EveryCallEnds
CHECK_DEADLOCK FALSE
