\* An average of three candles, a window of five, and the pause of the code.
SPECIFICATION Spec
CONSTANTS
  Prices = {1, 2}
  WindowSize = 5
  EmaWindow = 3
  Pause = 5
  LastMinute = 14
INVARIANTS
  SignalInv
  OncePerCandle
  SettledSignals
  EnoughCandles
