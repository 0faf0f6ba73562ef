CONSTANTS
  Throws = {e1, e2}
  MaxScopes = 4
SPECIFICATION TryCatchSpec
PROPERTIES
  EnteredClean
  DeliveryOK
