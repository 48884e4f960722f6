SPECIFICATION Spec
CONSTANTS
  Creates = {k}
  Decides = {d1, d2}
  Resumes = {r1, r2}
  Stale = {d2}
  Bindings = {b1}
  Procs = {p1, p2}
  Hosts = {h1, h2}
  p1 = p1
  p2 = p2
  h1 = h1
  h2 = h2
  Host <- TwoHosts
  None = None
SYMMETRY Symmetry
INVARIANTS
  OneWriter
  NoRival
  ReceiptsAgree
PROPERTY
  NoReplayedEffect
