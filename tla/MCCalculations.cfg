SPECIFICATION Spec
CONSTANT Inputs <- MCInputs
INVARIANTS
    ExtractionScored
    ReceivablesAddUp
    EarningsAddUp
    GoalsMeasured
    AdviceSettles
    
    TextIsKept
CHECK_DEADLOCK FALSE
