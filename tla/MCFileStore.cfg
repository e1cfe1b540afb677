\* Any client: uploads, downloads, lists and deletes of any name.
SPECIFICATION Spec
CONSTANTS
    a = a
    b = b
    x = x
    y = y
    Name <- MCName
    Content <- MCContent
    NoFile = NoFile
    Junk = Junk
    Garbage = Garbage
    JunkTotals <- MCJunkTotals
    MaxFiles = 3
    MinTotal <- MCMinTotal
SYMMETRY MCSymmetry
INVARIANT TypeOK
PROPERTIES UploadIsReadBack DeleteSparesEarlier DeleteLosesOneBody
