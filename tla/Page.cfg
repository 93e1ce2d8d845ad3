\* One pause or one row opened again, one failure of the socket, two messages and two responses under way.
CONSTANTS
  MaxWire = 2
  MaxPolls = 2
  MaxTurns = 1
  MaxDrops = 1
SPECIFICATION Spec
INVARIANTS TypeOK ToldOnce
PROPERTIES OnlyResponsesUnsettle PageCatchesUp
\* A page that shows the end of its task asks for nothing more.
CHECK_DEADLOCK FALSE
