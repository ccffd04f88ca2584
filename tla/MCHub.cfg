SPECIFICATION FairHub
CONSTANTS
  run = run
  monitor = monitor
  sse = sse
  alerts = alerts
  audit = audit
  Free = Free
  Publishers <- TwoPublishers
  Plain <- OnePlain
  Buffered <- TwoBuffered
  Capacity = 2
  MaxEvents = 3
CHECK_DEADLOCK FALSE
INVARIANTS
  ChannelsSound
  PlainHasNewest
  BufferedGapFree
PROPERTIES
  CallsEnd
