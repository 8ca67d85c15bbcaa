SPECIFICATION Spec
CONSTANTS
    ScopeLists <- Lists
    Fields <- SmallFields
    Fallback <- HardCoded
INVARIANTS BestScopeChosen FieldPrecedence
CHECK_DEADLOCK FALSE
