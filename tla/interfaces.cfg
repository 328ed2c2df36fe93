CONSTANTS
    localhost = localhost
    ip4 = ip4
    ip6 = ip6
    remote = remote
    p8332 = p8332
    p8334 = p8334
    noPort = noPort
    malformed = malformed
    unset = unset
    noCA = noCA
    userCA = userCA
    appCA = appCA
    pktdCA = pktdCA
    Hosts <- MCHosts
    Localhost = localhost
    LocalHosts <- MCLocalHosts
    LocalhostAddrs <- MCLocalhostAddrs
    Ports <- MCPorts
    ClientPort = p8334
    ServerPort = p8332
    NoPort = noPort
    Malformed = malformed
    Unset = unset
    NoCA = noCA
    UserCA = userCA
    AppCA = appCA
    PktdCA = pktdCA
    Connects <- MCConnects
    Lists <- MCLists
    IOErrors = TRUE
    LookupFaults = TRUE

SPECIFICATION Spec


INVARIANT NoSharedInterface
