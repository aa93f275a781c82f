SPECIFICATION Spec
CONSTANTS
  Store = {a, b}
  Source = {0, 1, 7, 8, 9}
  NoSource = 0
  Stamped = {1}
  Witnesses = {1}
  Type = {teach, corpus}
  teach = teach
  corpus = corpus
  TypeOf <- TypeOfSource
  Lag <- OneSlowStore
  HeadThreshold = 2
  HeadKeep = 1
  ChainThreshold = 2
  ChainKeep = 1
  MaxTime = 2
  MaxSaid = 3
  MaxRemovals = 2
  ScopedRemovals = FALSE
INVARIANTS
  EverySourceVotesOnce
PROPERTIES
  RetractionNeverRevives
