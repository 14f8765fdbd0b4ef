SPECIFICATION FairSpec
CONSTANTS
  Users = {u1, u2, u3}
  Nobody = Nobody
  MaxTrouble = 4
INVARIANT TypeOK
INVARIANT OneOpenConnection
INVARIANT CutOnlyOnSuspicion
PROPERTY ClientReturns
PROPERTY Heals
