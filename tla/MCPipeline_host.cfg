SPECIFICATION Spec
CONSTANTS
  Requested = 1
  Grants <- MCGrants
  MaxHostEvents = 6
  MaxFaults = 1
INVARIANTS TypeOK PumpsOnLiveStreams NoPumpLeak LedShowsPumps MonitorAgrees TableBounded MonitorsPumps
PROPERTIES FollowsHost EventsHandled
