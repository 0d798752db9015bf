SPECIFICATION Spec
CONSTANTS
  Calls <- Clients
  Existing <- InReview
  Pending <- ItsReview
  Sessions = {s1, s2}
  Workers = {w1}
  Nobody = nobody
  Genesis = genesis
INVARIANTS TypeOK HandlersNeverDeadlock HandlerSeesCurrentRow AtMostOnce AnswersAreTrue ChainVerifiesAlone
SYMMETRY Symmetry
