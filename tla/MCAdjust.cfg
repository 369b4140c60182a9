CONSTANTS
  AdjustRule <- MCAdjustRule
  Call <- MCCall
SPECIFICATION AdjustSpec
INVARIANTS TypeOK PartsAddUp CheapestOrder EachRuleMovesItsOwnWay
