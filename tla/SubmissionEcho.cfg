SPECIFICATION FairSpec
CONSTANTS
    Prompts = {p}
    Foreign = {f}
    MinMessages = 1
    MinTurns = 1
    MaxTwists = 2
INVARIANTS TypeOK ReceiptsTrue HonestVerdicts HandoffSeamless
PROPERTIES EchoesSettle
CHECK_DEADLOCK FALSE
