\* One client, two ids, two timers, once, twice or for ever.
SPECIFICATION FairSpec
CONSTANTS
  Clients = {c}
  MaxId = 2
  Delays = {0, 1}
  Repeats = {2, 3}
  Infinite = 3
  PollMax = 2
  MaxAdds = 2
  MaxKills = 1
  MaxTime = 3
INVARIANTS OneLiveTimerPerId NoOversleep FiresBounded
PROPERTIES TimersFire
