SPECIFICATION Spec
CONSTANTS
  Speeds <- TwoSpeeds
  Sizes = {"7", "8"}
  Parities <- NoneOddMark
  Factory <- EitherFactory
  Unread <- ZeroOrStack
  MaxFailures = 1
 
PROPERTY OpenChangesNothing
