SPECIFICATION MCSpec
CONSTANTS
  Producers = {p1, p2}
  Nodes = {n1, n2, n3, n4}
  Items = {i1, i2, i3}
  NULL = NULL
  Alone = {c1}
  Reusing = {c2, c3}
  kInitEventListSize = 2
  Threads = {t1, t2}
  Sockets = {s1}
  Interests = {{"in"}, {"out", "oneshot"}}
  AfdEvents = {"connectFail"}
  MaxGroupSize = 1
  MaxEvents = 2
  Keys = {1, 2, 3, 4, 5, 6, 7, 8}
  Null = 0
SYMMETRY Symmetry
INVARIANTS NoUseAfterFree PollerAgrees WepollAgrees TreeIsBalanced
PROPERTIES ImplementsFuncQueue HandledIsLive
