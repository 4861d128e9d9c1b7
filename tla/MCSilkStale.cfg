SPECIFICATION SilkFrameSpec
CONSTANT Talks <- StaleCopies
INVARIANT SilkMirrors
CHECK_DEADLOCK FALSE
