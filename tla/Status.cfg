\* Two connections; a request meets the cap of 8 bytes exactly (3 + 3 + 2),
\* passes it with a header (3 + 3 + 3), or with the blank line only (8 + 2).
CONSTANTS
  Clients = {"h1", "h2"}
  MaxHeader = 8
  LineSizes = {3, 8}
SPECIFICATION FairSpec
INVARIANTS TypeOK OneAnswer ServedWithinCap StopDrains
PROPERTIES RequestsEnd StopCompletes
CHECK_DEADLOCK FALSE
