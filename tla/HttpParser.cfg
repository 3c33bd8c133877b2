CONSTANTS
  PortMax = 99
  LenMax = 63
  MaxHeader = 80
  Urls <- Commands
  Plans <- AllPlans
SPECIFICATION Spec
INVARIANT MessagesAreSeen
INVARIANT RefusedIffAmbiguous
INVARIANT CutsAreInvisible
INVARIANT AssertionsHold
INVARIANT UrlIsRead
CHECK_DEADLOCK FALSE
