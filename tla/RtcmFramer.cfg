\* Frames of 6 to 8 bytes in chunks of 1 to 7 bytes: a frame is cut at every
\* place and gathered over up to 8 chunks, and a chunk can end one frame and
\* hold the whole of the next.
SPECIFICATION FramerSpec
CONSTANTS
  P = P
  o = o
  Byte <- MCByte
  Preamble = P
  Length <- MCLength
  ParityOK <- MCParityOK
  BuffSize = 8
  MaxChunk = 7
INVARIANTS BufferSound ReadsAlike
