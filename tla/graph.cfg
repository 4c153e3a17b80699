SPECIFICATION GraphSpec
CONSTANTS
  Topics = {"survey", "digest", "report", "greeting", "clarify"}
  Clarification = "clarify"
  Noise = {"greeting"}
  Filed = {"survey"}
  Batchable = {"digest", "report"}
  Reviewed = {"digest", "report"}
  Messages = {letter}
  letter = letter
  Fragments <- MCFragments
  Plans <- MCPlans
  Answers = {"yes", "no"}
  Required = 2
  MaxTasks = 5
  MaxReviewers <- MCReviewers
  MaxGraphCrashes = 1
INVARIANTS ConsensusEarned DuplicateKept FollowUpsOnce  AnsweredStays
PROPERTIES ReviewsEnd
