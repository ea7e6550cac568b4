CONSTANTS
    Feeds = {f1, f2}
    ShellFeeds = {f2}
    AutoFeeds = {}
    NoFeed = NoFeed
    Replies <- PlainReplies
    ShellFailures = TRUE
    BatchTransactions = TRUE
    Mode = "regular"
    Signals = TRUE
    UserEdits = TRUE
    BlockReuse = FALSE
SPECIFICATION FairSpec
INVARIANTS TransactionBracketsQueue SavedWhenDequeued
PROPERTIES ImplementsBatch QueueDrains ShutdownCompletes
