SPECIFICATION Spec
CONSTANTS
  NoVar = NoVar
  Tests <- Catalogue
  Miscounted <- WrongCount
  Unshowable <- NeverShows
INVARIANTS
  BackInHarness ClobbersDeclared InterestingIsRelaxed ScResultsCounted TestFits
