SPECIFICATION Spec
SYMMETRY StoreSymmetry
CONSTANTS
  Store = {a, b}
  Source = {1}
  NoSource = 0
  Stamped = {1}
  Witnesses = {}
  Type = {teach}
  teach = teach
  corpus = corpus
  TypeOf <- TypeOfSource
  Lag <- NoLag
  HeadThreshold = 3
  HeadKeep = 1
  ChainThreshold = 2
  ChainKeep = 1
  MaxTime = 4
  MaxSaid = 4
  MaxRemovals = 0
  ScopedRemovals = FALSE
INVARIANTS
  ChainIsAHistory
PROPERTIES
  LeafNeverRewritten
