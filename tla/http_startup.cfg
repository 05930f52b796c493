SPECIFICATION StartupSpec
CONSTANTS
  NotDigits = NotDigits
  Args <- MCArgsFit
  ArgcMax = 3
  Ephemeral = {32768, 60999}
INVARIANT
  ListensOnGivenPort
\* Start-up ends in serve() or in fatal().
CHECK_DEADLOCK FALSE
