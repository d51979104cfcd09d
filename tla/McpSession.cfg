SPECIFICATION McpSpec
CONSTANTS
    r1 = r1
    r2 = r2
    NoRun = NoRun
    Loaded <- FirstSession
    Calls <- TwoSlots
    Tasks <- OneTask
    Threshold = 3
    RemindAfter = 1
INVARIANTS PaidByAnswers
PROPERTIES RemindsUntilPaid
SYMMETRY SwapSlots
