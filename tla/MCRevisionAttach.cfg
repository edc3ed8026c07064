SPECIFICATION Spec
CONSTANTS
    Ids = {a, b}
    Revisions = {1, 2, 3, 4}
    Instances = {u, v}
    Contents = {x, y}
    Unassigned = {y}
    Absent = Absent
    NoAnswer = NoAnswer
INVARIANTS AnswersAreStored
SYMMETRY Symmetry
CHECK_DEADLOCK FALSE
