SPECIFICATION Spec
CONSTANTS
    Payloads = {"HTTP", "SSL_Proto", "plain"}
    Ports = {21, 445, 8080}
    MaxMsgs = 1
INVARIANT HalfProxyRedirects
CHECK_DEADLOCK FALSE
