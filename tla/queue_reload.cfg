CONSTANTS
    Feeds = {f1, f2}
    ShellFeeds = {f2}
    AutoFeeds = {}
    NoFeed = NoFeed
    Replies <- AllReplies
    ShellFailures = TRUE
    BatchTransactions = TRUE
    Mode = "reload"
    Signals = FALSE
    UserEdits = FALSE
    BlockReuse = TRUE
SPECIFICATION FairSpec
PROPERTIES ReloadCompletes
