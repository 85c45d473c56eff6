SPECIFICATION PeerSpec
CONSTANTS
    Tasks = {t1, t2}
    Keys = {k1}
    Hashes = {h1}
    h1 = h1
    HashOf <- MCHashOf
    MaxStreams = 2
    NoConn = NoConn
PROPERTY LoserIsWoken
