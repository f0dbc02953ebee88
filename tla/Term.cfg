CONSTANT ShellMode = {"cooked", "other"}
SPECIFICATION Spec
INVARIANTS TypeOK ShellGetsItsMode WinkeySleeps GetkyAnswers
PROPERTY ProgramWritesBlocking
CHECK_DEADLOCK FALSE
