CONSTANTS
    None = None
    Failed = Failed
    Spec <- MCSpec
    Name <- MCName
    Prop = {"a", "b", "c", "k"}
    Tag = {"ta", "tb", "tc", "other"}
    Op = {"call", "other"}
    Input <- MCInput
    Documents <- MCDocuments
SPECIFICATION GeneratorSpec
INVARIANT EveryReplyDecodes
CHECK_DEADLOCK FALSE
