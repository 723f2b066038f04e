SPECIFICATION FairSpec
CONSTANT Priority <- MCPriority
INVARIANTS TypeOK ProbesGoOn NoneSleeps BothHandshake AbortNeedsTimer
PROPERTIES Pairs RolesSettle
CHECK_DEADLOCK FALSE
