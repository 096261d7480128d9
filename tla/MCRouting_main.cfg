\* By hand, INVARIANT ChargedIsServed fails: the slot is of another cap.
SPECIFICATION Spec
CONSTANTS
  m1 = m1
  m2 = m2
  k1 = k1
  k2 = k2
  k3 = k3
  None = None
  Key <- MCKey
  Value <- MCValue
  Scheme <- MCScheme
  Media = "media"
  Caps <- MCCaps
  Serves <- MCServes
  Equivalents <- MCEquivalents
  Score <- MCScore
  Masters = {m1, m2}
  Cartridges = {k1, k2, k3}
  Host <- MCHost
  Handlers <- MCHandlers
  MaxChanges = 2
INVARIANTS
  ServedByTheBest
