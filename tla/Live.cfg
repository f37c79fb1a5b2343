SPECIFICATION Spec
CHECK_DEADLOCK FALSE
CONSTANTS
  Null = Null
  Dialects = {"openai", "gemini_audio"}
  Views = {v1}
  v1 = v1
  MaxEvents = 2
  MaxBytes = 3
  MaxFrames = 2
  MaxSends = 1
  ServerFrames <- MCServerFrames
  EndFrames <- MCEndFrames
  ClientEvents <- MCClientEvents
INVARIANTS EventsAreKept TurnBillIsItsFrames
PROPERTY EveryCallSettles
