SPECIFICATION FairSpec
CONSTANTS
    Ports <- MCPorts
    Ephemeral <- MCEphemeral
    Addrs <- MCAddrs
    NoAddr = ""
    AllAddr = "0.0.0.0"
    Groups <- MCGroups
    NoGroup = ""
    Ttls = {1, 2}
    Peers <- MCPeers
    NoPeer = ""
    Framings <- MCFramings
    Configs <- MCConfigs
    Default <- MCDefault
CHECK_DEADLOCK FALSE
INVARIANTS TypeOK UdpAgrees TcpAgrees AnswerHolds
PROPERTY Redialed
