SPECIFICATION Spec
CONSTANTS
 a1=a1 a2=a2 f1=f1 p1=p1 p2=p2 w1=w1 w2=w2 s1=s1 s2=s2
 NoNotif=NoNotif
 Notifs={a1,f1}
 Posts={p1,p2}
 Provider<-MixedProvider
 Batch<-MixedBatch
 Replies<-MixedReplies
 Workers={w1}
 Senders={s1}
 HookCmd=TRUE
 QueueSize=1 RetryqSize=1 CmdqSize=1 WqSize=1 RespqSize=1
 SendRetryCount=1 RetryOnceCount=1 RestartWaitCount=3 MaxBusyPolls=20
INVARIANT NothingInFlightWhenWaitEnds
