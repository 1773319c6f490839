SPECIFICATION FairSpec
CONSTANTS
  h1 = h1
  n1 = n1
  Main = main
  Handlers = {h1}
  Chans = {n1}
  Outages = {"hang"}
  MaxGen = 3
  MaxSubs = 1
  MaxBreaks = 1
PROPERTIES
  HealthyAnswers
