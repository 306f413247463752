----------------------------- MODULE MCFrontEnd -----------------------------
(***************************************************************************)
(* Instances of the front end for TLC.                                     *)
(***************************************************************************)
EXTENDS FrontEnd

Direct(client, port) ==
    [client |-> client, forwarded |-> None, realIP |-> None,
     remote |-> <<client, port>>]

Proxied(client, header) ==
    [client |-> client, forwarded |-> header, realIP |-> None,
     remote |-> <<"proxy", 1>>]

(* One address with two connections.                                       *)
MCTwoPorts == {Direct("a", 1), Direct("a", 2)}

(* One client behind a proxy.                                              *)
MCProxied == {Proxied("a", <<"a">>)}

Configured(httpPort, complete) ==
    [grpcPort |-> 9090, httpPort |-> httpPort, threshold |-> 2 * 1024 * 1024,
     rps |-> 1, burst |-> 2, complete |-> complete]

(* One that works, one with both servers on one port, one without a bucket.*)
MCSetting == {Configured(8080, TRUE), Configured(9090, TRUE),
              Configured(8080, FALSE)}
MCOneSetting == {Configured(8080, TRUE)}
=============================================================================
