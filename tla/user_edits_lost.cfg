CONSTANTS
    Feeds = {f1}
    ShellFeeds = {}
    AutoFeeds = {}
    NoFeed = NoFeed
    Replies <- PlainReplies
    ShellFailures = FALSE
    BatchTransactions = TRUE
    Mode = "regular"
    Signals = TRUE
    UserEdits = TRUE
    BlockReuse = FALSE
SPECIFICATION Spec
INVARIANTS UserEditsSurvive
