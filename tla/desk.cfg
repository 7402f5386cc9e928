SPECIFICATION Spec
CONSTANTS
  Unused = Unused
  Parts = {"sync", "typing", "turns", "saving", "renaming", "trees", "choosing", "moving", "hidden", "binaries",
           "commands", "stops", "handover", "newHost", "output", "breaks", "lost", "restarts", "again", "moved"}
INVARIANT WhatIsShownIsTrue
PROPERTY WorkIsKept
CHECK_DEADLOCK FALSE
