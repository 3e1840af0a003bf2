SPECIFICATION PullSpec
CONSTANT MaxUpstream = 5
INVARIANT EveryReaderIsServed
CHECK_DEADLOCK FALSE
