SPECIFICATION CrcSpec
CONSTANTS
  Payloads <- MCPayloads
  Bursts <- MCBursts
INVARIANTS TablesArePolynomials IntactFramesPass BurstsAreCaught
CHECK_DEADLOCK FALSE
