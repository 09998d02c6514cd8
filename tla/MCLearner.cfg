SPECIFICATION StudySpec
CONSTANTS
    Tabs = {t1, t2}
    Questions = {1, 2}
    Category <- OneCategory
    WithImage = {1}
    Valid = {1, 2}
    FreeLimit = 1
    ExamQuestionCount = 1
    PlacementQuestionCount = 1
    MockMinPct = 60
    MockThresholdPct = 50
    MaxDay = 3
    MaxGrades = 2
    MaxStarts = 1
    DrawSizes = {1}
INVARIANTS
    StudyInv
SYMMETRY StudySymmetry
CHECK_DEADLOCK FALSE
