SPECIFICATION Spec
CONSTANTS
    AddressLetters = {"/", "a", "b"}
    MaxAddress = 4
    Base = 25
    Digit <- MCDigit
    Chars = {"/", "a", "p", "!"}
    OscLetters = {"a", "p"}
    AppName <- MCAppName
    Grammars <- MCGrammars
    MessageAddresses <- MCMessageAddresses
    Kinds <- MCKinds
    Times = {1, 2, 3}
    Sizes = {0, 3, 996}
    Longest = 400
    MaxDepth = 3
    MaxItems = 3
    NameLetters = {"/", "a", "!"}
    MaxName = 2
    Arriving <- MCArriving
CHECK_DEADLOCK FALSE
INVARIANTS NoMiss NoStray RoundTrip NoShortRead BundleMeaning BusHears BusAnswers
