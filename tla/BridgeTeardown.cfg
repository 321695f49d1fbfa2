CONSTANTS
    ha = ha
    hb = hb
    hc = hc
    sb = sb
    pa = pa
    pb = pb
    r1 = r1
    r3 = r3
    Handles = {ha, hb, hc}
    Services = {sb}
    Proxies = {pa, pb}
    Requests = {r1, r3}
    serverOf <- MCServerOf
    handleOf <- MCHandleOf
    serviceOf <- MCServiceOf
    proxyOf <- MCProxyOf
    Empty = Empty
    Nothing = Nothing
SPECIFICATION FairTeardownSpec
INVARIANTS
    DestroyedIsUnused
PROPERTIES
    ImplementsClientProxies
    ThreadsRunOut
    QuitEnds
