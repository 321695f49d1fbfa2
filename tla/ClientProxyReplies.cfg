CONSTANTS
    ha = ha
    hb = hb
    s = s
    p1 = p1
    p2 = p2
    p3 = p3
    r1 = r1
    r2 = r2
    r3 = r3
    r4 = r4
    Handles = {ha, hb}
    Services = {s}
    Proxies = {p1, p2, p3}
    Requests = {r1, r2, r3}
    serverOf <- MCServerOf
    handleOf <- MCHandleOf
    serviceOf <- MCServiceOf
    proxyOf <- MCProxyOf3
    Empty = Empty
    Nothing = Nothing
SPECIFICATION ClientSpec
INVARIANTS
    ReplyMatchesRequest
