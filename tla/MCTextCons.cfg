CONSTANTS
    a = a
    b = b
    NoByte = NoByte
    Conns <- MCConns
    Bytes <- MCBytes
    Garbage = NoByte
    MaxSend = 2
    MaxAcceptErr = 1
    FdNums <- MCFdNums

SPECIFICATION Spec

\* Once every client has been served the server thread blocks in accept()
\* for ever: the program really stops there.
CHECK_DEADLOCK FALSE

INVARIANTS
    TypeOK
    ScreenGoesToItsClient

PROPERTIES
    HungUpClientReleased
