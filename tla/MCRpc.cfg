\* Texts of any length.
SPECIFICATION Spec
CONSTANTS
    MaxDepth = 3
    Values = {}
    MaxObject = 16
    Bytes <- MCBytes
INVARIANTS TypeOK FieldsAreTopLevel SupportedIsAccepted SessionIsTheCallers
PROPERTY LaxOnlyInValues
\* A text ends.
CHECK_DEADLOCK FALSE
