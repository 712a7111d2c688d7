------------------------ MODULE MCWebSocketChannel ------------------------
(* Options for WebSocketChannel.                                           *)
EXTENDS WebSocketChannel

\* No reconnect; two, without keepalive; any number, with keepalive.
MCSetups ==
    {[reconnect |-> FALSE, maxReconnects |-> 0, keepalive |-> TRUE, conns |-> 1],
     [reconnect |-> TRUE, maxReconnects |-> 2, keepalive |-> FALSE, conns |-> 4],
     [reconnect |-> TRUE, maxReconnects |-> 0, keepalive |-> TRUE, conns |-> 2]}
=============================================================================
