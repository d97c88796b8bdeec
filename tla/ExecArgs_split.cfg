\* Commands of up to four characters, among them two words without quotes.
SPECIFICATION SplitSpec
CONSTANTS
  Letters = {"x"}
  Quotes = {"single", "double"}
  Blank = "blank"
  NUL = "nul"
  MaxLength = 4
INVARIANT EveryWordPassed
CHECK_DEADLOCK FALSE
