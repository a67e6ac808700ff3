CONSTANTS
    Words = {"must-revalidate", "no-store", "no-cache", "private", "immutable", "public"}
    MaxAges = {0, 2, 9}
    Lengths = {0, 1}
    IntMax = 4
    YEAR_IN_SECOND = 3
    MaxWords = 2
    MaxLines = 2
SPECIFICATION Spec
INVARIANTS TypeOK ValidNoLongerThanPermitted StoredOnRequestOnly
