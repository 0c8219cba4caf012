SPECIFICATION Spec
CONSTANTS
  c1 = c1  c2 = c2  c3 = c3
  Clips = {c1, c2, c3}
  Listings <- Windows
  PrefetchCount = 2
  BackgroundFetch = TRUE
  Objects = {o1, o2}
  Handlers = {h1}
  Queues = {q1, q2}
  Workers = {w1, w2}
  None = None
SYMMETRY Symmetry
INVARIANTS
  TypeOK
  NoStuckMark
  OnlyListedClips
