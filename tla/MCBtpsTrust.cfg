\* Each may ask and be asked; a request and its repetition, an answer and a
\* document fit in a behaviour; a date is ahead, reached or past within two
\* instants
CONSTANTS
    None = None
    Garbled = Garbled
    Identities = {"ann$a.org", "bob$b.org", "Bob$b.org"}
    Lower <- MCLower
    CoolingOff = 1
    Choices <- MCChoices
    MaxClock = 1
    MaxSent = 3
    Handlings = {1, 2, 3}

SPECIFICATION Spec

INVARIANTS
    DocumentsAreWanted
    RequestsKeepDistance

PROPERTIES
    AnswersSettle

CHECK_DEADLOCK FALSE
