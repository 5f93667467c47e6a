SPECIFICATION Spec
CONSTANTS
  Fields <- MCFields
  MaxFields <- MCMaxFields
  MaxLen <- MCMaxLen
INVARIANTS
  TypeOK
  FieldsReadBack
  FailsOnTheField
CHECK_DEADLOCK FALSE
