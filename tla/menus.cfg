CONSTANTS
    Configs <- AllConfigs
    MaxMenus = 3
SPECIFICATION Spec
INVARIANTS StackIsSound LiesOverItsSource NoRefreshMissed
PROPERTIES OnlyQuitEnds ComesBackOnce
