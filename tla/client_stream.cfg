SPECIFICATION FairSpec
CONSTANTS
    MaxPackets = 3
CHECK_DEADLOCK FALSE
INVARIANTS TypeOK AcceptedIsReady GoneIsDisconnected  AudioIsAskedFor
PROPERTIES NothingAfterDisconnect DeliverySpec OfferIsAnswered WorkerIsFreed
