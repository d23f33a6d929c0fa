SPECIFICATION Spec
CONSTANTS
 s1=s1 s2=s2
 Senders={s1,s2}
 Slot=30 Lag=10 Refresh=59 Hour=60
 Sizes={1}
 Patience=1 MaxClock=165
SYMMETRY Symm
INVARIANT RecreatedWithinHour
