SPECIFICATION Spec
CONSTANTS
  Session = {s1, s2}
  s1 = s1
  s2 = s2
  Title <- MCTitle
  Topic <- MCTopic
  Article <- MCArticle
  Links <- MCLinks
  Fanout = 2
  MaxDepth = 2
  MaxTopics = 4
  NoRun = NoRun
  MaxEvents = 2
SYMMETRY Exchange
INVARIANTS
  TypeOK
  ResumesWhereItStood
PROPERTIES
  ForwardUnlessRaced
CHECK_DEADLOCK FALSE
