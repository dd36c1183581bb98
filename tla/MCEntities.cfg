SPECIFICATION FairSpec
CHECK_DEADLOCK FALSE
CONSTANTS
    Adds <- MCAdds
    Events <- MCEvents
    Spellings <- MCSpellings
    Lower <- MCLower
    SqlLower <- MCSqlLower
    Splits = {"cafe"}
    Skipped = {"user"}
    Subject <- MCSubject
    Object <- MCObject
    Mentions <- MCMentions
    Cut <- MCCut
    MaxRestarts = 1
INVARIANTS
    TypeOK
    OnItsPages
    OneEntityPerName
    AloneSucceeds
PROPERTIES
    EventsPassed
