CONSTANTS
  Operator = Operator
  Other = Other
  Telemetry <- MCTelemetry
SPECIFICATION FairSpec
INVARIANT TypeOK
INVARIANT MarchMemory
INVARIANT OneLateFrame
PROPERTY MarchEndsByCommand
PROPERTY StartResolves
PROPERTY SitResolves
