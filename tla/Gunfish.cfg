SPECIFICATION FairSpec
CONSTANTS
 c1=c1 c2=c2 n1=n1 n2=n2 w1=w1 s1=s1
 Clients={c1,c2}
 Http<-TwoPosts
 MaxItems=1 MaxRequestSize=3 MaxBulkRequests=2 MaxConnections=2
 RetryAfterSecond=10 ResetRetryAfterSecond=60
 MaxClock=1 MaxSignals=1
 NoNotif=NoNotif
 Notifs={n1,n2}
 Provider<-TwoProviders
 Batch<-OneEach
 Replies<-OkOrNot
 Workers={w1}
 Senders={s1}
 HookCmd=TRUE
 QueueSize=1 RetryqSize=1 CmdqSize=1 WqSize=1 RespqSize=1
 SendRetryCount=1 RetryOnceCount=1 RestartWaitCount=1 MaxBusyPolls=1
INVARIANTS OkMeansTaken EnqueueFindsItRunning
PROPERTIES SignalEndsProcess ImplementsServer
CHECK_DEADLOCK FALSE
