SPECIFICATION LifeFairSpec
CONSTANTS
    LifeConfigs <- DrainConfigs
    LifeConns = {n1}
    SocketFiles = {"none"}
PROPERTIES HardTimeout
CHECK_DEADLOCK FALSE
