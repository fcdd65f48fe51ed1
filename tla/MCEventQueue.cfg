SPECIFICATION FairSpec
CONSTANTS
  ingestor = ingestor
  generator = generator
  Cap = 4
  Spinners = {ingestor}
  Droppers = {generator}
  MaxEvents = 3
  NoThread = NoThread
  NoEvent = NoEvent
INVARIANT NoSlotRace
PROPERTY ImplementsFifo
PROPERTY AcceptedIsProcessed
PROPERTY ShutdownCompletes
CHECK_DEADLOCK FALSE
