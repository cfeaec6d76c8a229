SPECIFICATION DriversSpec
CONSTANTS
  NDrivers = 2
  AmesCar = 1
  BehnCar = 2
  NEggs = 4
  Cap = 2
  Batch = 2
  MaxTry = 1
  Bounds <- Shapes
  MaxRequests = 2
  MaxParts = 2
  MaxChans = 2
  MaxAsks = 2
INVARIANTS LinksAgree EyreIsHeard IrisIsAnswered ClientsAreAnswered
PROPERTIES QueuesSpec
\* Drivers may have nothing to do.
CHECK_DEADLOCK FALSE
