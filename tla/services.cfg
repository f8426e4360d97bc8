CONSTANTS
  Session = {"s1", "s2"}
  Pod = {"p1", "p2"}
  Asks <- MCAsks
  None = None
  Plugin = {kvm}
  MaxRestarts = 1
  MaxCrashes = 1
SPECIFICATION FairSpec
 
PROPERTIES LoneSessionConnects SessionsEnd DevicesKnown
CHECK_DEADLOCK FALSE
