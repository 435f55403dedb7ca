\* Logs of up to three records over two contents, with up to three changes.
SPECIFICATION Spec
CONSTANTS
    Contents = {c1, c2}
    Nothing = Nothing
    MaxRecords = 3
    MaxEdits = 3
INVARIANTS Localizes EvidentToHead
CHECK_DEADLOCK FALSE
