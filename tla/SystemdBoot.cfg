CONSTANTS
    MaxMishaps = 3
    MaxChanges = 3
SPECIFICATION Spec
INVARIANTS LoaderCurrent CopiesInv OneCopySurvives
PROPERTY Idempotent
