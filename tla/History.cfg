SPECIFICATION SpecHistory
CONSTANTS
  c1 = c1  p1 = p1  s1 = s1
  t1 = t1  t2 = t2  t3 = t3  T1 = T1  T2 = T2  Nowhere = Nowhere
  Trips = {t1, t2, t3}
  TripLine <- TwoLines
  Network = Nowhere
  Inputs <- SomeInputs
  MaxSampled = 2
  Cancelled = {c1, c2}
  Skipped = {k1}
  Sampler = {r1, r2}
  Days = 2
  Retention = 4
  MaxSamples = 3
  MaxAdmin = 1
  MaxFaults = 1
  Line = {l1}
  Scan = {s1, s2}
  Replica = {p1, p2}
  Owner <- FirstOwnsFirst
  Snapshot <- SomeSnapshots
  AlertTtl = 2
  Cooldown = 2
  MaxAlertFaults = 1
INVARIANTS  NotedIsCounted FewOpenAlerts   
PROPERTIES RebuildRestores AlertFollowsLine
CHECK_DEADLOCK FALSE
