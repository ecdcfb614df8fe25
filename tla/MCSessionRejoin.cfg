\* A player that reconnects before the sweep is never offered Axiom again.
SPECIFICATION FairSpec
CONSTANTS
  Players = {p1}
  Tokens = {t1, t2, t3, t4}
  Grants = {"nothing", "build"}
  UseGrants = {"build"}
  Kinds = {"axiom", "untranslated", "vanilla"}
  SlowPeriod = 2
  MaxInFlight = 1
  None = None
PROPERTIES
  OfferedWhilePermitted
