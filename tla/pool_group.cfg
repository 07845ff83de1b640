SPECIFICATION PoolSpec
CONSTANTS
  Lo = 99
  Hi = 10
  Radix = 10
  MaxInt = 92233
PROPERTY
  GivesUpOnlyWhenCrowded
