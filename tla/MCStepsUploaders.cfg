\* Two sessions upload.
SPECIFICATION HSpec
CONSTANTS
    a = a
    b = b
    x = x
    y = y
    s1 = s1
    s2 = s2
    Name <- MCName
    Content <- MCContent
    NoFile = NoFile
    Junk = Junk
    Garbage = Garbage
    Blank = Blank
    JunkTotals <- MCJunkTotals
    MaxFiles = 3
    MinTotal <- MCMinTotal
    Session <- MCTwo
    May <- MCUploaders
    Own <- MCEachOwn
    MayCrash = FALSE
INVARIANT UploadsAreListed
