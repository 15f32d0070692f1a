SPECIFICATION BoundedSpec
CONSTANTS
  Senders = {s1, s2}
  Receivers = {r1, r2}
  Msgs = {m1, m2}
  NoMsg = NoMsg
  Nobody = Nobody
  MaxMsgs = 2
  CounterMod = 1
  DeleteWhenBusy = FALSE
  MaxSends = 4
INVARIANTS IInv NoLostWakeup
PROPERTIES FifoSpec NoStrandedMessage
