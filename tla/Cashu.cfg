SPECIFICATION CashuFairSpec
CONSTANTS
  b1 = b1
  t1 = t1
  Purchase <- One
  MaxOpen = 1
  MaxLost = 1
  Token <- Tokens
  Accepted <- Tokens
  Value <- ValueOf
  Price = 50
  Reserves = {1, 2}
INVARIANTS AccessMatchesStatus GrantedOnlyPaid RejectedKept
PROPERTIES ChoiceKept PaidUnlocks OpenEnds
