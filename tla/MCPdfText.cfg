\* Every page of up to four bytes over ten, and some thousand written files.
SPECIFICATION FairSpec
CONSTANTS
  Files <- MCFiles
  Kerning <- MCKerning
  unreadable = unreadable
  Unreadable = unreadable
  NoiseBytes = {37, 39, 40, 41, 52, 60, 62, 91, 92, 10}
  NoiseLength = 4
  Glyphs = {40, 41, 92, 65, 128}
INVARIANT TypeOK
INVARIANT NoLongerThanPage
INVARIANT ShowsDocument
PROPERTY MovesOn
PROPERTY ImplementsStream
PROPERTY ExtractionEnds
\* The extraction is over.
CHECK_DEADLOCK FALSE
