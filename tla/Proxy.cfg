SPECIFICATION ProxySpec
CONSTANTS
    Conns = {c1, c2}
    Ctxs = {k1, k2}
    Chans = {d1, d2}
    NoCtx = NoCtx
    NoChan = NoChan
    Tasks = {t1, t2}
    Keys = {w1, w2}
    Hashes = {h1}
    h1 = h1
    HashOf <- MCHashOf
    MaxStreams = 2
    NoConn = NoConn
    f1 = f1
    f2 = f2
    e1 = e1
    Flows = {f1, f2}
    Dests = {e1}
    DestOf <- MCDestOf
    Sizes = {2}
    MaxSessions = 1
    MaxDatagrams = 2
    MaxBytes = 4
    BatchBytes = 6
    MaxReceived = 3
    MaxPerReady = 2
    None = None
INVARIANTS NoStaleAllow NoLeakedEntry TunnelsSound CountExact SessionsAccounted
PROPERTIES DeniedIsClosed NotifiedConnectsResolve DrainContract
