SPECIFICATION FairSpec
CONSTANTS
  hello = hello
  nan = nan
  Text <- Texts
  HalfFrames <- Durations
  Unending = nan
  MaxInstances = 2
  MaxThreads = 2
INVARIANTS TimedBubblesAreAttended
PROPERTIES LaterSpeechStays SaidForItsTime SayingEnds
