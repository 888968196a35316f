CONSTANTS
  Workers = {w1, w2, w3}
  Items = {i1, i2, i3, i4}
SPECIFICATION FairSpec
INVARIANTS
  NoLostWakeup
PROPERTIES
  ImplementsChannel
