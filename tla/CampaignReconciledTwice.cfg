SPECIFICATION Spec
CONSTANTS
  Handlers = {h1, h2}
  Assets = {a1}
  Unknown = {}
  Zones = {z1, z2}
  Auditors = {ann, ben}
  Explicit = {a1}
  Scope = {z1}
  MaxScans = 1
  MaxAdjusted = 1
SYMMETRY Symmetry
CHECK_DEADLOCK FALSE
INVARIANT ReconciledOnce
