CONSTANTS
  Clients <- ManyClients
  MaxRequest = 6
SPECIFICATION Spec
INVARIANTS RepliesInOrder OutcomeUnlessBad
PROPERTIES OwnBytes NoneForgotten
CHECK_DEADLOCK FALSE
