SPECIFICATION Spec
CONSTANTS
  Jobs = {1, 2}
  InboxIds = {"inbox 1"}
  DemoMailbox <- DemoMessages
INVARIANT
  ErasedVaultForgetsJobs
