SPECIFICATION PartialSpec
CONSTANT Families <- MCFamilies
CHECK_DEADLOCK FALSE
INVARIANTS
  NothingStaleSurvives
  WhatIsMissingIsRun
  ItemsAreUsedOnce
  AssertionsHold
