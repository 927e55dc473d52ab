SPECIFICATION FairSpec
CONSTANTS
  Persons = {p1, p2}
  Requests = {r1, r2}
  Nobody = Nobody
  Suffixes = {x1, x2}
  Plain = Plain
  NoSlug = NoSlug
  MaxTries = 2
  Base = 100
  PerDeal = 25
  Cap = 140
  Freelancers = {p1}
  MaxDeals = 2
INVARIANTS
  TypeOK
  SlugIdentifiesUser
  ScoreEarned
PROPERTIES
  EverybodyGetsIn
  ScoreCatchesUp
