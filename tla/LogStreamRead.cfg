\* Three logs in batches of two, two instants, one fault.
CONSTANTS
  l1 = l1  l2 = l2  l3 = l3  c1 = c1
  NoLog = NoLog
  Logs = {l1, l2, l3}
  Readers = {c1}
  Times = {1, 2}
  Rank <- RankOf
  Batch = 2
  MaxBreaks = 1
SPECIFICATION StreamFairSpec
INVARIANTS NothingSkipped
CHECK_DEADLOCK FALSE
PROPERTIES LogsArrive StreamsClose
