SPECIFICATION FairSpec
CONSTANTS
  MaxRetries = 3
  RetryDelay = 2
  Fields = {premium, validity}
INVARIANTS ExhaustedMeansAll BackoffDoubles
PROPERTIES SendsWhileWanted Returns
