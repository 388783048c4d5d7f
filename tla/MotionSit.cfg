CONSTANTS
  Operator = Operator
  Other = Other
  Telemetry <- MCTelemetry
SPECIFICATION Spec
INVARIANT SitLeavesMarch
