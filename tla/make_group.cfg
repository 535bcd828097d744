CONSTANTS
    Candidates = {dad, mom, son, granny}
    MaxGroups = 1
SPECIFICATION Spec
INVARIANTS TypeOK LoopIsToggle ChecksFollowTaps 
