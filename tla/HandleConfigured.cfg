CONSTANTS
    ha = ha
    hb = hb
    m1 = m1
    m2 = m2
    req = req
    resp = resp
    l1 = l1
    l2 = l2
    l3 = l3
    Handles = {ha, hb}
    MessageTypes = {m1, m2}
    RequestTypes = {req}
    ResponseTypes = {resp}
    Declared = {m1}
    Libraries = {l1, l2, l3}
    libraryOf <- MCLibraryOf
    Nothing = Nothing
SPECIFICATION HandleSpec
INVARIANTS
    ConfiguredHasTypes
CHECK_DEADLOCK FALSE
