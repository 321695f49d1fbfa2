CONSTANTS
    ha = ha
    hb = hb
    hc = hc
    s1 = s1
    s2 = s2
    p1 = p1
    p2 = p2
    p3 = p3
    r1 = r1
    r2 = r2
    r3 = r3
    r4 = r4
    Handles = {ha, hb, hc}
    Services = {s1, s2}
    Proxies = {p1, p2, p3}
    Requests = {r1, r2, r3, r4}
    serverOf <- MCServerOf
    handleOf <- MCHandleOf
    serviceOf <- MCServiceOf
    proxyOf <- MCProxyOf
    Empty = Empty
    Nothing = Nothing
SPECIFICATION ServerSpec
INVARIANTS
    ServerTypeOK
    ExclusiveRequest
    WireCarriesOwnRequest
    OneResponseValue
    NoMessageIsLost
PROPERTIES
    SentRequestUntouched
