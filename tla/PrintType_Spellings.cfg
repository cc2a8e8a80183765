SPECIFICATION Spec
CONSTANT MaxLayers = 5
INVARIANTS TypeOK TypesAgree
CHECK_DEADLOCK FALSE
