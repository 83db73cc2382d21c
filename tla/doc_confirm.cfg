\* Confirming the facts of a profile leaves them unconfirmed.
SPECIFICATION OnboardingSpec
CONSTANTS
  Unset = Unset
  MaxOpenings = 2
  MaxRequests = 1
INVARIANTS
  AcceptedMeansConfirmed
CHECK_DEADLOCK FALSE
