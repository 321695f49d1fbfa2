CONSTANTS
    Numbers = {1, 2}
    MaxKeys = 4
SPECIFICATION QoSSpec
PROPERTIES
    PoliciesAreIndependent
