CONSTANTS
  Faults = {}
  MaxTries = 2
SPECIFICATION Spec
PROPERTIES
  DrainKeepsMetrics
