SPECIFICATION FairSpec
CONSTANTS
    Browser = {b1, b2}
    Nobody = Nobody
    MaxMessages = 3
INVARIANTS
    NoDataRace
PROPERTIES
    DeletesWhatWasShown
    OnlyAdminsDelete
    EveryThreadAnswers
