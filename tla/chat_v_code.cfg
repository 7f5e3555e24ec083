SPECIFICATION Spec
CONSTANT MaxFaults = 0
PROPERTY CodeIsTakenAsCode
