CONSTANTS
  MaxVersion = 2
  MaxGen = 1
  MaxReviews = 2
  MaxEvents = 1
  Reviewers = {c1}
  ann = ann
  bob = bob
  Admins = {ann, bob}
  Uploader = ann
  Policies <- StrictPolicy
  Spaces = {"managed", "user-uploads"}
  Permissions = {"internal"}
  Advice = {"publish", "publish_high"}
  None = None
SPECIFICATION Spec
INVARIANTS ReleaseHasItsApprovals DeletionRevokesForGood
PROPERTIES ClosedStaysClosed CandidateIsReviewed
CHECK_DEADLOCK FALSE
