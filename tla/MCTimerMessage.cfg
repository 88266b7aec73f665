CONSTANTS
    Coroutine = {c1, c2}
    Middleware = middleware
    MaxLate = 1
SPECIFICATION FairScriptedSpec
INVARIANTS
    ScriptedInv
    SettledIsRemoved
    RepublishedIsSpared
PROPERTIES
    KeepsVerdicts
    CallsEnd
