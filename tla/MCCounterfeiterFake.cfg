\* Invocations() read by the test while the handler calls the fake.
CONSTANTS
    handler = handler
    test = test
    Methods = {"Lookup", "Register"}
    Returning = {"Lookup"}
    MethodOrder <- MCMethodOrder
    Goroutines = {handler, test}
    Script <- MCScript
    Args = {"uri"}
    Values = {"pool", "surgicalPool", "stub"}
SPECIFICATION FairSpec
CHECK_DEADLOCK FALSE
PROPERTY EveryCallReturns
