CONSTANTS
  Capacity = 1
  Limit = 1
  MaxOneTime = 1
  MaxFallback = 3
  Chans = {s1}
  Handles = {h1}
  MaxMessages = 1
  NULL = NULL
SPECIFICATION Spec
PROPERTY
  ReturnsNewFallbackKey
