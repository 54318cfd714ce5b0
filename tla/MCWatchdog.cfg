SPECIFICATION FairDogSpec
CONSTANT MaxLosses = 2
CONSTANT MaxCrashes = 2
INVARIANT DogTypeOK
INVARIANT ServiceReported
PROPERTY MountComesBack
PROPERTY DisconnectedLoggedOff
CHECK_DEADLOCK FALSE
