SPECIFICATION ValuesSpec
CONSTANTS
  Micros = 10
  Wrap = 64
  MaxArgs = 2
  MaxLetters = 3
  Strings <- MCStrings
  Chars <- MCChars
  Ints <- MCInts
  Times <- MCTimes
  Blobs <- MCBlobs
INVARIANTS
  Faithful
  RoomEnough
  Characters
