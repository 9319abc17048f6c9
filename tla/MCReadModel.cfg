SPECIFICATION Spec
CONSTANTS
  Null = Null
  Now = 9
  MaxEvents = 7
  Documents <- MCDocuments
INVARIANTS
  JobEdgesAreLatest
  SchemaIsLatest
  ColumnLineageIsLatest
  RunIsAsFarAsAnyEventSays
  NewestMetaIsShown
  TablesAgree
CHECK_DEADLOCK FALSE
