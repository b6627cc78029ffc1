------------------------------- MODULE MCWebsocket -------------------------------
(* Small clients for Websocket. *)
EXTENDS Websocket

F(op, fin, key, data) == [op |-> op, fin |-> fin, key |-> key, data |-> data]

Text(key, data) == F("TEXT", TRUE, key, data)
First(key, data) == F("TEXT", FALSE, key, data)
More(key, data) == F("CONTINUE", FALSE, key, data)
Final(key, data) == F("CONTINUE", TRUE, key, data)
Ping(key, data) == F("PING", TRUE, key, data)
Pong(key) == F("PONG", TRUE, key, <<>>)
Close(key, data) == F("CLOSE", TRUE, key, data)

\* Clients that put control frames between messages only, mask a ping with the key
\* of the frame before it and send a status with a close frame.
Messages1 == {<<Text(1, <<"a", "b">>)>>, <<First(1, <<"a">>), Final(2, <<"b">>)>>,
              <<First(1, <<"a">>), More(2, <<"b">>), Final(1, <<"c">>)>>,
              <<Text(1, <<"a", "b", "c">>)>>}
Ends == {<<Close(2, <<"s", "s">>)>>, <<Text(2, <<"d">>)>>,
         <<F("RESERVED", TRUE, 1, <<>>)>>, <<Text(NoKey, <<"d">>)>>}
Controls == {<<Ping(1, <<"p">>), Ping(1, <<"q">>)>>, <<Pong(2), Ping(1, <<>>)>>}
Orderly == {m \o e : m \in Messages1, e \in Ends} \cup
           {<<Text(1, <<"a">>)>> \o p \o e : p \in Controls, e \in Ends}

Interleaved == {<<First(1, <<"a">>), Ping(2, <<>>), Final(1, <<"b">>)>>}

\* Clients for which the README says what happens
Pinging == {<<Text(1, <<"a">>), Ping(2, <<"p">>)>>}
BareClose == {<<Text(1, <<"a">>), Close(1, <<>>)>>}
================================================================================
