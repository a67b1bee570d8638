---------------------------- MODULE MCServerTasks ---------------------------
(***************************************************************************)
(* Flights for TLC: those of two clients, each sent from any address and   *)
(* as often as one likes; the second was made for another key pair.        *)
(***************************************************************************)
EXTENDS ServerTasks

CONSTANTS HomeIp, OtherIp, Key, OtherKey, N1, N2, Ts1, Ts2

MCServerPk == {Key}

MCFlight ==
    {build_payload("alice", Key, HomeIp, Ts1, N1),
     build_payload("bob", OtherKey, HomeIp, Ts2, N2)}

MCIp == {HomeIp, OtherIp}
=============================================================================
