SPECIFICATION Spec
CONSTANTS
  MinInt <- MCMinInt
  MaxInt = 1
  NullWord = null
  Word = {null, w}
  NoText = none
  Text = {none}
INVARIANTS TypeOK KeysAreFresh
PROPERTY HandleKeepsItsMeaning
