SPECIFICATION Spec
INVARIANTS
  WorkflowsSound
  SelectionsSound
  EvidenceSound
  ValuesSound
  ToolCallsSound
CHECK_DEADLOCK FALSE
