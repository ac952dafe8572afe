SPECIFICATION FairSpec
CONSTANT
  MaxSetUps = 3
CHECK_DEADLOCK FALSE
INVARIANTS
  InhibitorsCountCalls
  AnswersSettle
PROPERTIES
  DeferredQuitSpec
  QuitsInTheEnd
