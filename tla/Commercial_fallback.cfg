SPECIFICATION Spec
CONSTANTS
  l1 = l1  l2 = l2  sub1 = sub1  sub2 = sub2  w1 = w1  w2 = w2
  Locations = {l1, l2}
  Included <- Places
  Nobody = Nobody
  Desk = Desk
  MaxChanges = 3
  Subs = {sub1, sub2}
  NoSub = NoSub
  CheckoutPlan <- Checkouts
  Feeds <- FeedSet
  Workers = {w1, w2}
  Budget = 4
  MaxKills = 1
  MaxOverlaps = 1
  Points = {1, 2}
  BatchSize = 1
  Site = l1
  Costs = {1, 2}
  Shop = l1
  Office = l1
  BriefEstimate = 2
  BriefCosts = {3}
  MaxTries = 2
  Scenarios <- BriefScenario
CHECK_DEADLOCK FALSE
INVARIANT ManagedPromptIsAllowed
