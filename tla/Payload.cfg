CONSTANTS
  lamp = lamp
  pump = pump
  Items = {lamp, pump}
  Lamps = {lamp}
  NoAnswer = NoAnswer
  NoJob = NoJob
  Burst = 2
  Capacity = 2
SPECIFICATION FairSpec
INVARIANT TypeOK
INVARIANT BusyIsTheJob
INVARIANT OnlyLateAnswersMislead
PROPERTY EveryJobIsReported
