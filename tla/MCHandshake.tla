---------------------------- MODULE MCHandshake ----------------------------
(* The three writers of one connection, and the ways a miner is told its    *)
(* extranonce.                                                              *)
EXTENDS Handshake

AllWriters == {Reader, Worker, Watchdog}
SomeKinds == {<<"bitmain", FALSE>>, <<"iceriver", FALSE>>, <<"other", FALSE>>, <<"bitmain", TRUE>>}
OneKind == {<<"other", FALSE>>}
IcmKind == {<<"icm", FALSE>>}
=============================================================================
