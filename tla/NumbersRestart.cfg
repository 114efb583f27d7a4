\* Expected to fail: a restart starts the sequence over.
SPECIFICATION Spec
CONSTANTS
    Owners = {1}
    Workers = {w1, w2}
    SeqMax = 3
    Ys = {0, 9}
    As = {0}
    MaxRows = 3
PROPERTIES
    SequenceSurvivesRestart
