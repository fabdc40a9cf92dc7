--------------------------- MODULE MCAppLifecycle ---------------------------
(* AppLifecycle for TLC: a server with three callers, and a desktop app whose *)
(* installation and exits meet two.                                           *)
EXTENDS AppLifecycle, TLC

CONSTANTS w1, w2, w3

Asks(exits, checks, installs) == [exit |-> exits, check |-> checks, install |-> installs]

ServersAndDesktops ==
    {[app |-> "server", callers |-> {w1, w2, w3}, asks |-> Asks(1, 0, 0)],
     [app |-> "desktop", callers |-> {w1, w2}, asks |-> Asks(1, 1, 1)],
     [app |-> "desktop", callers |-> {w1}, asks |-> Asks(2, 2, 2)]}
=============================================================================
