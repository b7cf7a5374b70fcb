\* Two connections with three applications in one namespace, two workers, two
\* operations on pods.
CONSTANTS
  c1 = c1  c2 = c2  a1 = a1  a2 = a2  a3 = a3  k1 = k1  None = None
  Connections = {c1, c2}
  Apps = {a1, a2, a3}
  Workers = {w1, w2}
  Handlers = {h1}
  ConnOf <- ConnOfApp
  Scope <- OneScope
  Cluster <- ClusterOf
  MaxTargets = 3
  MaxOps = 3
  Enabled = {"restart"}
  MaxPods = 2
SPECIFICATION PodSpec
SYMMETRY Symmetry
INVARIANTS AppHasItsTarget RunningHasASync RestartsApart
PROPERTIES UndisturbedSyncMirrors
ACTION_CONSTRAINT LastJobCounts PodsLast OneEvent OverlapLast ConnectedFirst OneOddReport
CHECK_DEADLOCK FALSE
