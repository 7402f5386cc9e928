SPECIFICATION Spec
CONSTANTS
  Unused = Unused
  Parts = {"killed", "twoJobs", "copied", "impatient", "torn",
           "stopped", "full", "interrupted", "restarted", "failing",
           "managed", "found", "first", "data",
           "mqtt", "nostr", "vps", "families", "relays", "brokers", "beside", "mute", "crowded", "silent",
           "dials", "redials", "limits"}
INVARIANTS RunsAreExact PathsAreSound
 
CHECK_DEADLOCK FALSE
