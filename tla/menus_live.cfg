CONSTANTS
    Configs <- LiveConfigs
    MaxMenus = 2
SPECIFICATION FairSpec
PROPERTIES ListsRefresh StopEnds
