CONSTANTS
  Ifaces = {lan, wlan}
  None = None
  Preferred = lan
  MaxChanges = 2
SPECIFICATION FairSpec
INVARIANT OfOneInterface
PROPERTY EventuallyRight
