SPECIFICATION TicksFairSpec
CONSTANTS
  Timers = {t1, t2, t3, t4}
  NoTimer = NoTimer
INVARIANTS
  OneChain
  ChainUnbroken
  StopIsFinal
PROPERTY PollsGoOn
