SPECIFICATION Spec
CONSTANTS
    Ids = {a}
    Clients = {c1, c2}
    NoId = NoId
    Cancellable = {c1, c2}
    Concurrency = 1
    QueueCap = 1
    Lifetimes = {2}
    RetryDelays = {1}
INVARIANT CachedIsRefreshed
