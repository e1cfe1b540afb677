\* Any client; the delete of a name that is not listed.
SPECIFICATION Spec
CONSTANTS
    a = a
    b = b
    x = x
    y = y
    Name <- MCName
    Content <- MCContent
    NoFile = NoFile
    Junk = Junk
    Garbage = Garbage
    JunkTotals <- MCJunkTotals
    MaxFiles = 3
    MinTotal <- MCMinTotal
SYMMETRY MCSymmetry
PROPERTY DeleteSparesOthers
