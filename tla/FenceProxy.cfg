\* One connection, from the client or from elsewhere; every deadline counts the
\* same duration.
CONSTANTS
  c1 = c1
  Conn <- Conns
  Identity <- Identities
  Nobody = Nobody
  Grants = {2}
  MaxAge = 2
  MaxTime = 3
  MaxRenewals = 2
SPECIFICATION FairSpec
INVARIANTS TypeOK NoSurvivor
PROPERTIES ForwardsWithinAuthority FencedExits ExpiryFences
