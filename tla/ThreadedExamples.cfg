SPECIFICATION Spec
CONSTANTS
  t1 = t1
  t2 = t2
  t3 = t3
  c1 = c1
  c2 = c2
  Tests = {t1, t2, t3}
  PgTests = {t1, t2, t3}
  Conns = {c1, c2}
  Static = Static
  Nobody = Nobody
  PgConns = {c1, c2}
  Fields = {"id", "name"}
  Types = {"i32", "i64", "str"}
  Unprepared = "none"
  Fits <- ColumnTypes
  JobCount = 5
  w1 = w1
  w2 = w2
  w3 = w3
  Workers = {w1, w2, w3}
  Main = Main
  BufferSize = 3
  Data = 4
  Every = 2
  Sleeps = {t1, t2, t3}
INVARIANTS
  TypeOK
  FixedNeverTimesOut
  OneTypeNeverFails
  ContentIsCurrent
PROPERTIES
  TimesOutOnDead
  EveryTestEnds
  ImplementsBoundedJobs
  JobsReturn
  ConfigLoopEnds
  AcceptedFinishes
CHECK_DEADLOCK FALSE
