CONSTANTS
    Feeds = {"f1", "f2"}
    Sections = {{"f1", "f2"}, {"f1"}}
    Documents <- MCDocuments
    Configs <- MCConfigs
    MaxTime = 3
    MaxRow = 5
SPECIFICATION Spec
INVARIANTS ValidatorMeansStored NoDuplicates CountersAreSound SkipsAreJustified
PROPERTIES ItemsSurvive
