CONSTANTS
    Feeds = {"f1", "f2"}
    Digits = {"0", "2"}
    Keys = {"x", "y", "/", "enter", "escape", "backspace"}
    Configs <- MCConfigs
    MaxDigits = 2
    MaxTyped = 5
SPECIFICATION Spec
INVARIANTS KeysAreObeyed
PROPERTIES OnlyEnteredSearches YieldIsAnswered
