CONSTANTS
    ha = ha
    hb = hb
    sa = sa
    sb = sb
    pa = pa
    pb = pb
    r1 = r1
    r2 = r2
    r3 = r3
    Handles = {ha, hb}
    Services = {sa, sb}
    Proxies = {pa, pb}
    Requests = {r1, r2, r3}
    serverOf <- CrossedServerOf
    handleOf <- CrossedHandleOf
    serviceOf <- CrossedServiceOf
    proxyOf <- CrossedProxyOf
    Empty = Empty
    Nothing = Nothing
SPECIFICATION FairSpec
PROPERTIES
    EveryRequestReplied
    EveryAnswerDelivered
    ImplementsClientProxies
