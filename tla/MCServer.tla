------------------------------ MODULE MCServer ------------------------------
(***************************************************************************)
(* Instances of Server for TLC: configurations with no eval thread (the    *)
(* main thread evaluates), with one and two loops, and with two and one.   *)
(***************************************************************************)
EXTENDS Server

CONSTANTS l1, l2, e1, e2

AllPools == {{}, {e1}, {e1, e2}}
\* The main thread ends, or something asks for a shutdown.
AllEnds == {{"exit"}, {"socket"}, {"shutdown", "handler", "signal"}}
NoEnds == {{}}
ExitSignal == {{"exit", "signal"}}
OnlyShutdown == {{"shutdown"}}
OnlyServer == {{"server_shutdown"}}
OnlySignal == {{"signal"}}
Socket == {{"socket", "shutdown"}}
FewEnds == {{"exit", "server_shutdown"}, {"signal"}}
Deaf == {{"signal", "server_shutdown"}}
OnePool == {{e1}}
FewPools == {{}, {e1, e2}}
=============================================================================
