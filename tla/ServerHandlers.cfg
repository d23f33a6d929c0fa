SPECIFICATION FairSpec
CONSTANTS
 c1=c1 c2=c2 c3=c3
 Clients={c1,c2,c3}
 Http<-MixedClients
 MaxItems=3 MaxRequestSize=3 MaxBulkRequests=2
 QueueSize=1 MaxConnections=2
 RetryAfterSecond=10 ResetRetryAfterSecond=16
 MaxClock=2 MaxSignals=2
INVARIANTS ServerTypeOK NoLateEnqueue OverrunNeedsRace AgeNeedsRace
PROPERTIES NeverHeld GracefulStop
CHECK_DEADLOCK FALSE
