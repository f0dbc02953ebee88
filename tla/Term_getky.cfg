CONSTANT ShellMode = {"cooked", "other"}
SPECIFICATION Spec
INVARIANT GetkyNeverWaits
CHECK_DEADLOCK FALSE
