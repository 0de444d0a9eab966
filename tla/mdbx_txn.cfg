SPECIFICATION FairTxnSpec
CONSTANTS
    s1 = s1  s2 = s2  v1 = v1  a1 = a1  a2 = a2  h1 = h1  c1 = c1  c2 = c2
    Zero = Zero  NoNode = NoNode  NoWrite = NoWrite  NoHead = NoHead
    NoAddress = NoAddress  NoClient = NoClient
    Stem <- MCStem
    SubIndex <- MCSubIndex
    Value = {v1}
    NomtHistory = 0
    Client = {c1, c2}
    Block <- MCBlock
    HeadRecord = {h1}
    Address = {a1, a2}
    Asked <- MCAsked
    MaxCalls = 3
INVARIANTS TxnTypeOK HandlesSound
PROPERTIES CallsAreAtomic AddressesStay LockReleased
CHECK_DEADLOCK FALSE
