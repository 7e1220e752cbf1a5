SPECIFICATION Spec
INVARIANT CostFactorMatchesSpec
