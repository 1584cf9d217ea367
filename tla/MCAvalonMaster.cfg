CONSTANTS
  Request <- Requests
  Nothing = Nothing
SPECIFICATION FairMasterSpec
PROPERTIES ReadsServedInOrder EveryReadAnswered
