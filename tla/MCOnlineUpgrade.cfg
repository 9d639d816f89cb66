\* All behaviours of one upgrade.  It ends.
SPECIFICATION UpgradeFairSpec
INVARIANTS TrafficServed OneOutcome
PROPERTY UpgradeEnds
CHECK_DEADLOCK FALSE
