CONSTANTS
    walk = walk
    jump = jump
    wave = wave
    Anims = {walk, jump, wave}
    Missing = {dance}
    Length <- MCLength
    NoAnimation = NoAnimation
    MaxStep = 2
    Contract = {"different"}
SPECIFICATION AnimationFairSpec
CHECK_DEADLOCK FALSE
INVARIANT AnimationTypeOK
PROPERTIES
    SomethingShows
    ShortAnimationsFinish
