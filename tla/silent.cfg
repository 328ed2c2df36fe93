CONSTANTS
    rDefault = rDefault
    rAbs = rAbs
    rTilde = rTilde
    rHome = rHome
    simnet = simnet
    pkt = pkt
    testnet = testnet
    c1 = c1
    c2 = c2
    unset = unset
    badArgs = badArgs
    Roots <- MCRoots
    ExpandRoot <- MCExpandRoot
    DefaultRoot = rDefault
    Names <- MCNames
    Nets <- MCNets
    DefaultNet = pkt
    SimNet = simnet
    Creds <- MCCreds
    LogLevels <- MCLogLevels
    ValidLogLevels <- MCValidLogLevels
    CliLayers <- DataDirCli
    FileLayers <- EmptyFile
    FileFaults = {"absent"}
    PktdConfOutcomes <- MCPktdAll
    IOErrors = FALSE
    ConnectionFaults = FALSE
    Unset = unset
    BadArgs = badArgs

SPECIFICATION Spec
INVARIANT NoSilentFailure
