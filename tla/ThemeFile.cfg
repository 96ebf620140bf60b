CONSTANTS
  LogLines <- MCLogLines
  MaxLines = 4
  MaxLog = 6
SPECIFICATION Spec
INVARIANTS ObjectsAsWritten LostAreReported LogShowsLastLines
