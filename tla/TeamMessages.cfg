CONSTANTS
  Agent = {a1, a2}
  Request = {notice, reply, again}
  Ask = {question}
  None = None
  from <- Senders
  to <- Receivers
  answers <- Answered
  QueueLimit = 1
  Sessions = 2
  Restless = {a2}
  MaxMessages = 3
  MaxMishaps = 2
  a1 = a1  a2 = a2
  notice = notice  reply = reply  again = again  question = question
SPECIFICATION FairSpec
INVARIANTS
  StoredOnce
  ShownRightly
  OneReply
PROPERTIES NoneWaits ImplementsMailbox
CHECK_DEADLOCK FALSE
