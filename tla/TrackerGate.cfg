\* One person leaves, another one enters elsewhere.
CONSTANTS
  Spots = {0, 1, 3}
  Drift = 1
  MaxTracks = 2
  ConfirmHits = 2
  MaxAge = 2
  MaxLost = 2
  MaxOccluded = 3
  Patience = 1
  MaxDets = 2
  MaxIds = 3
SPECIFICATION TrackerSpec
INVARIANT GatedOut
