CONSTANTS
  a = a
  b = b
  Base = 8
  WordLen = 2
  MaxVarintLen = 6
  itemSizeHolder = 8
  Names <- TwoNames
  Values <- SomeValues
  Typed <- SomeTyped
  Settings <- SomeSettings
  CryptKeys = {a, b}
  NoKey = NoKey
  Durations = {1, 255}
  Sources <- SomeSources
  HeaderSize = 2
  PageSize = 24
  MaxNow = 2
  MaxPairs = 3
  MaxFaults = 1

SPECIFICATION Spec
SYMMETRY SwapKeys
INVARIANT RemoveIsVisible
