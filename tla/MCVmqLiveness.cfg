\* The queue of resident services: one consumer stays, the other comes and
\* goes, and no producer frees a buffer.
SPECIFICATION FairSpec
CONSTANTS
  p1 = p1
  p2 = p2
  c1 = c1
  c2 = c2
  c3 = c3
  x = x
  y = y
  None = None
  Producers = {p1, p2}
  Consumers = {c1, c2}
  Residents = {c1}
  Msg = {x}
  MaxItemCount = 1
  NPages = 2
  MaxOrder = 1
  Page <- Pages
  Block <- BuddyBlocks
  PagesOf <- BuddyPages
  Request <- Orders
  BlocksFor <- BlocksOfOrder
  Env <- QuietEvents
PROPERTIES
  SleepersWoken
  Delivered
