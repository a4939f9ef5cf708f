\* Two publishers that race for two subscribers whose channels hold one event;
\* a publisher's second event finds the first one still buffered.
SPECIFICATION BrokerFairSpec
CONSTANTS
  Publisher = {"p1", "p2"}
  Channel = {"c1", "c2"}
  Cap = 1
  MaxEvents = 2
INVARIANTS NoPanic InOrder
PROPERTIES PublishReturns ReadersEnd
\* Publishers that have sent their events stop.
CHECK_DEADLOCK FALSE
