SPECIFICATION FairSpec
CONSTANTS
    Payloads = {"HTTP", "SSL_Proto", "plain"}
    Ports = {21, 445, 8080}
    MaxMsgs = 2
INVARIANTS OfflineMeansRedirected LoggedPeer
PROPERTIES RightPeer IsRelay Ends
CHECK_DEADLOCK FALSE
