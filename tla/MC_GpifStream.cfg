SPECIFICATION Spec
CONSTANTS
  BufWords = 2
  BufCount = 2
  FrameLengths = {1, 2, 3}
  MaxFrames = 4
INVARIANTS
  TypeOK
  WholeFrames
  CounterTracksBuffer
  SocketsInTurn
  FrameIdFlipsAtEnd
  NeverWaitsUnheard

  
