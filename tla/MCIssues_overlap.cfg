\* Two webhook goroutines and two ticks look at an issue with two labels at once.
CONSTANTS
  Labels = {l1, l2}
  MaxEvents = 2
  Ticks = {t1, t2}
  NoThread = NoThread
  NoLabel = NoLabel
SPECIFICATION FairSpec
INVARIANTS TypeOK OncePerServer RowIsAnswered LockInUse
PROPERTY HandlersEnd
