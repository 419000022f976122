\* Two timers through the bottom and two falls; time counted in clicks.
SPECIFICATION FairSpec
CONSTANTS
  Handlers = {h1, h2}
  LastIdx = 2
  TIME_CLICK = 1
  MaxTimeout = 7
  MaxElapsed = 2
  Falls <- MCFalls
PROPERTIES ImplementsTimers TimersFire
