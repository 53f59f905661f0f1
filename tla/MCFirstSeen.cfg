CONSTANTS
  Voter = {v1, v2}
  Resolver = {v1, v2}
  Dissenter = {}
  Candidate = {1, 2, 3}
  Weight <- MCWeight
  Window = 1
  LastVoteStep = 1
  MaxVotes = 3
SPECIFICATION FSSpec
INVARIANT
  FirstSeenWins
CHECK_DEADLOCK FALSE
