SPECIFICATION BillingSpec
CONSTANTS
  l1 = l1  l2 = l2  sub1 = sub1  sub2 = sub2
  Locations = {l1, l2}
  Included <- Places
  Nobody = Nobody
  Desk = Desk
  MaxChanges = 0
  Subs = {sub1, sub2}
  NoSub = NoSub
  CheckoutPlan <- Checkouts
  Feeds <- Unpaid
CHECK_DEADLOCK FALSE
INVARIANT RecoveryClears
