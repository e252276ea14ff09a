\* Two operators, the portal and a cycle over two entities of one name.
CONSTANTS
    None = None
    day = day
    night = night
    Keys <- MCKeys
    Operators = {o1, o2}
    Windows <- MCWindows
    Payloads <- MCPayloads
    ConfigPayloads <- MCConfigPayloads
    Entities <- MCEntities
    ConfigEntities <- MCConfigEntities
SPECIFICATION Spec
INVARIANT DisabledStaysOut
