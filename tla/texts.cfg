\* Every byte through a packet, and texts of up to four characters through BizzBuzz.
SPECIFICATION Spec
CONSTANTS
  Messages <- MCMessages
  Texts <- MCTextsOfFour
  Behind <- MCBehind
INVARIANTS Carried Translated
CHECK_DEADLOCK FALSE
