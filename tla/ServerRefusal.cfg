SPECIFICATION Spec
CONSTANTS
 c1=c1 c2=c2 c3=c3
 Clients={c1,c2,c3}
 Http<-GoodClients
 MaxItems=3 MaxRequestSize=3 MaxBulkRequests=2
 QueueSize=1 MaxConnections=2
 RetryAfterSecond=10 ResetRetryAfterSecond=60
 MaxClock=3 MaxSignals=2
INVARIANT FullQueueMeans503
CHECK_DEADLOCK FALSE
