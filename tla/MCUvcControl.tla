------------------------------ MODULE MCUvcControl ------------------------------
(***************************************************************************)
(* UvcControl for TLC: a request for each outcome of the dispatch, and two   *)
(* controls whose data phases could be confused.                             *)
(***************************************************************************)
EXTENDS UvcControl

MCAsks == {<<"ErrorCode", "GET_CUR">>, <<"Missing", "GET_CUR">>, <<"AeMode", "GET_MAX">>,
           <<"Brightness", "SET_CUR">>, <<"Probe", "SET_CUR">>, <<"Commit", "SET_CUR">>}
=================================================================================
