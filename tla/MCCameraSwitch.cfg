\* The publisher that the monitoring service keeps across a switch of the
\* video source, with no feed that could start it.
CONSTANTS
  Feeds = {}
  MaxInstances = 2
SPECIFICATION SwitchSpec
INVARIANT DiscardedStaysStopped
CHECK_DEADLOCK FALSE
