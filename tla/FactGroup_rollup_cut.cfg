SPECIFICATION Spec
SYMMETRY StoreSymmetry
CONSTANTS
  Store = {a, b}
  Source = {0, 1, 2}
  NoSource = 0
  Stamped = {1, 2}
  Witnesses = {}
  Type = {teach}
  teach = teach
  corpus = corpus
  TypeOf <- TypeOfSource
  Lag <- NoLag
  HeadThreshold = 2
  HeadKeep = 1
  ChainThreshold = 2
  ChainKeep = 1
  MaxTime = 3
  MaxSaid = 3
  MaxRemovals = 1
  ScopedRemovals = FALSE
INVARIANTS
  RetractionSurvivesSync
