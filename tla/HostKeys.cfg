\* Two hosts, one of which may be killed, beside a panic wipe and a user of two
\* keys, one of which names the program in its comment.
SPECIFICATION Spec
CONSTANTS
  Hosts = {h1, h2}
  UserKeys = {u1, u2}
  Branded = {u2}
  MaxKills = 1
INVARIANTS SoloKeepsUserKeys AdvertisedAccepted
PROPERTY CleanEnd
CONSTRAINT Whole
SYMMETRY Alike
CHECK_DEADLOCK FALSE
