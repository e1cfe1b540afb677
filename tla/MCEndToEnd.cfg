\* Three names, four entries, two requests under way; any password at a start.
SPECIFICATION E2ESpec
CONSTANTS
    a = a
    b = b
    c1 = c1
    x = x
    y = y
    p = p
    q = q
    r = r
    Name <- MCName
    Content <- MCContent
    NoFile = NoFile
    Junk = Junk
    Garbage = Garbage
    JunkTotals = {}
    MaxFiles = 4
    MinTotal <- MCMinTotal
    Password <- MCPassword
    Hash <- MCHash
    KeyText <- MCKeyText
    Others <- MCOthers
    BlockSize = 2
    Missing = Missing
    Blank = Blank
    NoKey = NoKey
    MaxQueue = 2
SYMMETRY MCSymmetry
INVARIANTS E2ETypeOK Paired ViewsAgree AnswerAsExpected OneKey
PROPERTIES KeepsVault PasswordOpensData
