CONSTANTS
    Feeds = {f1, f2}
    ShellFeeds = {}
    AutoFeeds = {f1}
    NoFeed = NoFeed
    Replies <- AllReplies
    ShellFailures = FALSE
    BatchTransactions = FALSE
    Mode = "regular"
    Signals = TRUE
    UserEdits = FALSE
    BlockReuse = TRUE
SPECIFICATION Spec
INVARIANTS TransfersAreLive FailuresHaveErrors InductiveInvariant
PROPERTIES FreedOnlyAfterVerdict
