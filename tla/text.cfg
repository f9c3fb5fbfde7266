SPECIFICATION Spec
CONSTANTS
  Texts <- MCTexts
  Behind <- MCBehind
  ByteOf <- MCByteOf
INVARIANTS
  TypeOK
  TokensFollowText
  LongestPunctuators
  WritesWhatItCounted
  LiteralsKept
CHECK_DEADLOCK FALSE
