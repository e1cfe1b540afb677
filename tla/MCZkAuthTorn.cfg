\* One password, two registrations at a time.
SPECIFICATION HSpec
CONSTANTS
    p1 = p1
    q1 = q1
    s1 = s1
    s2 = s2
    a1 = a1
    a2 = a2
    r1 = r1
    r2 = r2
    Missing = Missing
    Blank = Blank
    NoPass = NoPass
    n = 5
    Salt <- MCSalt
    Pass <- MCOnePass
    Kdf <- MCKdf1
    Prover <- MCProver
    Registrar <- MCRegistrars
    Challenge <- MCFew
    MayCrash = FALSE
PROPERTY HonestIsAlwaysAccepted
