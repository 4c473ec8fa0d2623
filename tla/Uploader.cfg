SPECIFICATION UploaderFairSpec
CONSTANTS
  r1 = r1
  r2 = r2
  r3 = r3
  NoReq = NoReq
  Reqs = {r1, r2, r3}
  MaxRetry = 1
INVARIANTS
  NoForgottenWork
  AnsweredOnce
PROPERTY AcceptedIsAnswered
CHECK_DEADLOCK FALSE
