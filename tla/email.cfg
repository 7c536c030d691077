\* A batch of two records, any of them malformed, every configuration of both ends, and a
\* reply to each message that got out.
SPECIFICATION FlowSpec
CONSTANTS
  BatchSize = 2
  MaxDeaths = 1
  NoAnswer = NoAnswer
  NoError = NoError
INVARIANTS TypeOK DeliveredMeansAccepted RefusedMeansNotSent AtMostOnce
INVARIANTS LossIsLogged DuplicatesFollowDeaths
PROPERTY BatchEnds
