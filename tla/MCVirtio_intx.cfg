SPECIFICATION BlkSpec
CONSTANTS
  QSize = 2
  IdxMod = 4
  MaxReq = 3
  BlkMsix = {FALSE}
  BlkResetBusy = FALSE
INVARIANT NoSelfDeadlock
