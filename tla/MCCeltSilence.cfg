SPECIFICATION CeltFrameSpec
CONSTANT Clips <- MCClips
INVARIANT SilenceInLockstep
CHECK_DEADLOCK FALSE
