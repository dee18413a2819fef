\* Requests of every form, one chat, two windows, channels of one.
CONSTANTS
  c1 = c1  c2 = c2  c3 = c3  c4 = c4  c5 = c5
  Calls = {c1, c2, c3, c4, c5}
  FormOf <- MCFormOf
  Loads <- MCLoads
  Chats = {q1}
  Windows = {w1, w2}
  RequestCap = 1  EventCap = 1
  None = None
SPECIFICATION FairSpec
INVARIANTS
  TypeOK
  RepliesAreTrue
  FirstAnswerDecides
PROPERTIES
  RequestsSettle
  QuestionsReachWindows
CHECK_DEADLOCK FALSE
