SPECIFICATION Spec
CONSTANT MaxInits = 2
INVARIANT ServesContext
CHECK_DEADLOCK FALSE
