\* Every interleaving and every event of the environment, three consumers on two pages.
SPECIFICATION Spec
CONSTANTS
  p1 = p1
  p2 = p2
  c1 = c1
  c2 = c2
  c3 = c3
  x = x
  y = y
  None = None
  Producers = {p1, p2}
  Consumers = {c1, c2, c3}
  Residents = {}
  Msg = {x, y}
  MaxItemCount = 1
  NPages = 2
  MaxOrder = 1
  Page <- Pages
  Block <- BuddyBlocks
  PagesOf <- BuddyPages
  Request <- Orders
  BlocksFor <- BlocksOfOrder
  Env <- AllEvents
SYMMETRY Symmetric
INVARIANTS
  TypeOK
  IInv
  OvershootBound
PROPERTY
  MulticastSpec
