\* Every value that tells two paths of the code apart, topics and patterns of up
\* to three levels, collections of up to five items in pages of up to three.
SPECIFICATION DataSpec
CONSTANTS
  Given = {"none", "blank", "dot", "A"}
  Set = {"none", "B"}
  MaxSize = 5
  MaxLimit = 3
  MaxPages = 3
  MaxItems = 4
  Receipts = {"", "r1", "r2"}
  MaxAttempts = 2
  Segments = {"a", "b", "$s", "+", "#", "a+"}
  Names = {"a", "b", "$s"}
  MaxLevels = 3
INVARIANTS
  RequestsAreSound
  PagesAreComplete
  AcknowledgementIsTrue
  MatchingIsMqtt
CHECK_DEADLOCK FALSE
