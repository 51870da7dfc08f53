SPECIFICATION FairSpec
CONSTANTS
  MaxCount = 2
  MaxAdds = 5
INVARIANTS IntactOutsideLock
PROPERTIES Delivered ProgramEnds ImplementsFifo
