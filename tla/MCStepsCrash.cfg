\* One session, any request; the process may end anywhere.
SPECIFICATION HSpec
CONSTANTS
    a = a
    b = b
    x = x
    y = y
    s1 = s1
    s2 = s2
    Name <- MCName
    Content <- MCContent
    NoFile = NoFile
    Junk = Junk
    Garbage = Garbage
    Blank = Blank
    JunkTotals <- MCJunkTotals
    MaxFiles = 3
    MinTotal <- MCMinTotal
    Session <- MCOne
    May <- MCAll
    Own <- MCAnyOwn
    MayCrash = TRUE
SYMMETRY MCFiles
INVARIANTS StepsTypeOK OtherBodiesSurvive
PROPERTY HandlersAreAtomic
