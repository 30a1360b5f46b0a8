SPECIFICATION FairSpec
CONSTANTS
  r1 = r1
  b1 = b1
  o1 = o1
  o2 = o2
  None = None
  Records = {r1}
  Branches = {b1}
  BranchOf <- OneBranch
  Observers = {o1, o2}
  RETRY_AFTER = 1
  MaxCrashes = 1
  MaxRefusals = 1
INVARIANTS DeliveryInv RepeatsHaveCause RetriesAreSpaced
PROPERTIES DeliveredIsFinal ReachesEveryChannel
