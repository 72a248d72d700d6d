SPECIFICATION ApprovalsSpec
CONSTANTS
  Channels = {c1}
  Deciders = {h1, h2}
  Modes = {"required_internal_and_client"}
  MaxMoves = 2
PROPERTIES
  GateCoversEveryPath
CHECK_DEADLOCK FALSE
