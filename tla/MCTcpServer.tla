---------------------------- MODULE MCTcpServer ----------------------------
EXTENDS TcpServer
CONSTANTS c1, c2
MCConns == {c1, c2}
Program(n, cs, os) == [pool |-> n, clients |-> cs, ops |-> os]
Serving == {
    Program(0, {c1, c2}, {"send", "writeComplete"}),
    Program(0, {c1, c2}, {"send", "hold"}),
    Program(1, {c1, c2}, {"shutdown", "hold"}),
    Program(0, {c1}, {"send", "hold", "writeComplete"}),
    Program(1, {c1}, {"send", "shutdown", "hold"}),
    Program(2, {c1, c2}, {"send"}),
    Program(2, {c1, c2}, {"shutdown"})}
Ending == {
    Program(0, {c1, c2}, {"hold", "quit"}),
    Program(1, {c1}, {"send", "quit"})}
Careless == {
    Program(1, {c1}, {"send", "shutdown", "hold", "worker"}),
    Program(1, {c1}, {"shutdown", "hold", "worker"}),
    Program(1, {c1}, {"send", "shutdown", "close", "hold"})}
MCPrograms == Serving \cup Ending \cup Careless

\* One program each, for the runs that find a violation.
Resending == {Program(1, {c1}, {"send", "writeComplete"})}
Closing == {Program(0, {c1}, {"close"})}
Quitting == {Program(1, {c1}, {"quit"})}
=============================================================================
