SPECIFICATION GSpec
CONSTANTS
  Nodes = {a1, a2, a3, a4}
  Snapshots <- MCSnapshots
  MinFilled = 2
  SlowMultiplier <- MCSlowMultiplier
  MaxSlowFraction <- MCHalf
  FaultyThreshold <- MCThreshold
  MaxFaultyFraction <- MCHalf
INVARIANTS
  OneBadAgentIsActedOn
  JudgedByTraffic
