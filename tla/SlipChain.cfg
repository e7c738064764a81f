CONSTANT MaxLock = 3
SPECIFICATION Spec
INVARIANT TypeOK
PROPERTIES SlipFlagged NoFalseAlarm
