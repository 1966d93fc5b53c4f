SPECIFICATION ReplaySpec
CONSTANTS
    h1 = h1
    h2 = h2
    h3 = h3
    s1 = s1
    s2 = s2
    Handler = {h1, h2, h3}
    Offline = {h2, h3}
    Site = {s1, s2}
    Asks <- MCAsks
    Location <- MCLocation
    Loads <- MCLoads
    Null = Null
    Garbage = Garbage
    DummyPage = DummyPage
    ErrorPage = ErrorPage
    EmptyPage = EmptyPage
    MixedPage = MixedPage
    Directory = Directory
INVARIANTS NoEcho AnswersRight HomeKept
CHECK_DEADLOCK FALSE
