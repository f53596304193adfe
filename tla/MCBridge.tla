------------------------------ MODULE MCBridge ------------------------------
(* Two instances: the first listens to notifications, the second polls.     *)
EXTENDS Bridge

CONSTANT Second

Conf(allow_unsynced, windows, valid, merged) ==
    [allow_unsynced |-> allow_unsynced, windows |-> windows, valid |-> valid, merged |-> merged]

SomeConfigs ==
    {Conf(FALSE, FALSE, TRUE, TRUE), Conf(TRUE, TRUE, TRUE, TRUE),
     Conf(FALSE, TRUE, TRUE, FALSE), Conf(TRUE, FALSE, FALSE, FALSE)}
Bootstrap == {Conf(TRUE, FALSE, TRUE, FALSE)}
=============================================================================
