---------------------------- MODULE MCWsService ----------------------------
(***************************************************************************)
(* Small instances of WsService: lists of one key and of two.              *)
(***************************************************************************)
EXTENDS WsService

CONSTANTS u1, start, none

TwoTopics == {"t1", "t2"}
TwoLists  == {<<"t1">>, <<"t1", "t2">>}
OneTopic  == {"t1"}
OneList   == {<<"t1">>}
=============================================================================
