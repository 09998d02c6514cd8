SPECIFICATION BroadcastSpec
CONSTANTS
  Workers = {w1, w2}
  Learners = {1, 2}
  Subscribers = {1}
  MaxAttempts = 2
  PageSize = 1
  Limits = {1, 2}
  MaxUpsets = 1
  MaxExpiries = 1
PROPERTIES
  BroadcastSafe
  CampaignEnds
CHECK_DEADLOCK FALSE
