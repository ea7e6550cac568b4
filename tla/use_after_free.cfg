CONSTANTS
    Feeds = {f1}
    ShellFeeds = {}
    AutoFeeds = {}
    NoFeed = NoFeed
    Replies <- AllReplies
    ShellFailures = FALSE
    BatchTransactions = TRUE
    Mode = "regular"
    Signals = TRUE
    UserEdits = FALSE
    BlockReuse = FALSE
SPECIFICATION Spec
INVARIANTS NoUseAfterFree
