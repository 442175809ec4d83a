SPECIFICATION Spec
CONSTANTS
  MaxLen = 6
  Alphabets = {{"a", "1", "sq", "dq", "bq", "esc"}, {"a", ";", "-", "/", "*", "nl"},
               {"K", "a", "(", " ", ";"}, {"K", "fold", "rest", "cr", " "}, {"K", "sq", "-", "nl"}, {"K", "dq", "/", "*"}}
INVARIANTS WordsAgree ClassifiedIsLexed StatementsAgree
CHECK_DEADLOCK FALSE
