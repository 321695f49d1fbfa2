CONSTANTS
    Numbers = {1, 2}
    MaxKeys = 3
SPECIFICATION QoSSpec
INVARIANTS
    LeaseIsTaken
