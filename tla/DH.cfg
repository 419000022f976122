\* Two addresses: a single one would never wait longer than two ticks, and
\* "all bad" would not differ from "this one bad".
SPECIFICATION FairSpec
CONSTANTS
  Addresses = {a1, a2}
  MaxBad = 3
  LateTicks = 4
  Unreliable = {a1}
INVARIANTS TypeOK PingScheduled LateMeansBad
PROPERTIES OnlyPromptAnswersHelp DeadIsFoundOut AliveIsTakenBack
