SPECIFICATION Spec
CONSTANT MaxFiles = 6
INVARIANTS TypeOK NothingLeaked ReleasedOnce OnlyWholePrograms ExitCodeTells
CHECK_DEADLOCK FALSE
