SPECIFICATION FairSpec
CONSTANTS
  Unused = Unused
  Parts = {"families", "handshake", "queues", "text", "kernel", "terminal", "broker", "nostr", "server", "streams"}
PROPERTY EverythingSettles
CHECK_DEADLOCK FALSE
