SPECIFICATION FairSpec
CONSTANTS
    Watchers = {v1}
    Typists = {t1, t2}
    Resolutions = {res1, res2}
    DefaultRes = res1
    NoRes = NoRes
    leftShift = leftShift
    rightShift = rightShift
    leftControl = leftControl
    shift = shift
    control = control
    Modifiers = {shift, control}
    Keys = {leftShift, rightShift, leftControl}
    ModifierOf <- MCModifierOf
    NoKey = NoKey
    Countdown = 3
    MaxSwitches = 2
INVARIANTS NoWakeUpIsLost UpdateFitsScreen ModifiersFollowController
PROPERTIES FrameReachesViewer PictureComesBack
CHECK_DEADLOCK FALSE
