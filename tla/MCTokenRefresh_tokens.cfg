SPECIFICATION Spec
CONSTANTS
  alice = alice
  g1 = g1
  g2 = g2
  g3 = g3
  g4 = g4
  g5 = g5
  Owner = {alice}
  Grant = {g1, g2, g3, g4, g5}
  Period = 1
  Margin = 13
  Lifetime = 15
  Latency = 2
  MaxUnreachable = 1
  MaxLost = 1
SYMMETRY AnyGrant
INVARIANTS
  TokenInv
  StoredIsFresh
