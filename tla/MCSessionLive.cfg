\* Fair scheduling, one player; no symmetry, which is unsound for liveness.
SPECIFICATION FairSpec
CONSTANTS
  Players = {p1}
  Tokens = {t1, t2, t3, t4}
  Grants = {"nothing", "build"}
  UseGrants = {"build"}
  Kinds = {"axiom", "untranslated", "vanilla"}
  SlowPeriod = 2
  MaxInFlight = 1
  None = None
PROPERTIES
  PermittedIsEnabled
  RevokedIsDisabled
