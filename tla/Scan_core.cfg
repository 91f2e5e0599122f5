CONSTANTS
  Transponders <- Freqs
  List <- FreqList
  Same <- SameFreq
  Alike <- AlikeFreq
  Twin <- TwinFreq
  MayStop = TRUE
  NoTransponder = NoTransponder
SPECIFICATION FairSpec
INVARIANTS TypeOK NeverScannedTwice TablesOfTuned ExportComplete NothingUntested NothingAtWork
CHECK_DEADLOCK FALSE
PROPERTIES ScanTerminates
