SPECIFICATION Spec
CONSTANTS
    Plans <- ThePlans
INVARIANTS
    TypeOK
    ByeRestoresTerminal
    SaveKeepsAVersion
    
    DescriptorsReturn
    GlossaryIsFresh
CHECK_DEADLOCK FALSE
