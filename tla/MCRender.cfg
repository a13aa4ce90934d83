SPECIFICATION RenderSpec
CONSTANTS
  Kinds <- AllKinds
  Records <- SomeRecords
  Asked <- SomeAsked
  MaxLines <- SomeLines
  Sinks <- SomeSinks
  MaxRows = 2
INVARIANTS
  OutputIsWellFormed
  ColumnsHaveValues
  RowsFollowHeader
