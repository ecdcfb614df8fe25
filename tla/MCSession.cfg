\* One player, every kind of client, grants and connections changing at will.
SPECIFICATION Spec
CONSTANTS
  Players = {p1}
  Tokens = {t1, t2, t3, t4, t5}
  Grants = {"nothing", "build", "all"}
  UseGrants = {"build", "all"}
  Kinds = {"axiom", "outdated", "untranslated", "vanilla", "bedrock"}
  SlowPeriod = 3
  MaxInFlight = 2
  None = None
SYMMETRY Symmetry
INVARIANTS
  TypeOK
  NothingOutlivesSession
  EnabledAgrees
  PendingOfferIsAlive
  FramesOfThisSession
  RestrictionsAgree
PROPERTIES
  ActivationIsEarned
  ToldOnce
