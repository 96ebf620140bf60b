CONSTANTS
  a = a
  b = b
  Services <- MCServices
  MaxWaiting = 2
  Settings <- MCSettings
SYMMETRY ServiceSymmetry
SPECIFICATION Spec
INVARIANTS ScreenUpToDate CountsEachOnce NeverAhead PromptVisible LeftVisible
VIEW View
