CONSTANTS
  Initiators <- MCInitiators
  Sequences = {0, 1}
  Lists <- MCLists
  Leftovers <- MCLeftovers
  InvitationTimeout = 0
  SyncTimeout = 1
  ReceiverFeedbackPeriod = 0
SPECIFICATION Spec
INVARIANT CommandsDelivered
PROPERTIES SessionSpec InvitationsAnswered SessionEnds
