CONSTANTS
    None = None
    Failed = Failed
    Spec <- MCSpec
    Name <- MCName
    Prop = {"a", "b", "c", "k"}
    Tag = {"ta", "tb", "tc", "other"}
    Op = {"call", "other"}
    Input <- MCInput
    Documents <- MCDocuments
SPECIFICATION GeneratorSpec
INVARIANTS
    TypeOK
    VariantsImplementTheirUnion
    NothingUnsetIsSent
    ReadOnlyIsNotSent
    TagNamesTheVariant
    
    
PROPERTIES
    GeneratorEnds
CHECK_DEADLOCK FALSE
