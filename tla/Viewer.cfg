\* Two documents, three terms, four acts of the user, one failed fetch; or any file of
\* up to four lines, read once.  A page nobody touches any more does nothing.
CONSTANTS
    readme = readme  setup = setup  t1 = t1  t2 = t2  s1 = s1  nothing = nothing
    Docs <- TwoDocs
    Terms = {t1, t2, s1}
    Short = {s1}
    NoTerm = nothing
    Hits <- HitsOf
    ResultCap = 2
    Sittings <- BrowsingOrReading
    MaxFailures = 1
SPECIFICATION FairSpec
CHECK_DEADLOCK FALSE
INVARIANTS
    TypeOK
    SettledPageIsTheOneAsked
    MarksFollowTheLastSubmit
    StatusAgreesWithResults
    PageIsWhole
PROPERTIES
    SearchEnds
