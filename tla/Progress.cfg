SPECIFICATION FairSpec
CHECK_DEADLOCK FALSE
PROPERTIES EveryCallSettles OutboxDrains CommandsEnd DueIsServed QuestionEnds CatchesUp EventSettles CancelStopsRunner RouteRecovers
