------------------------------- MODULE MCSse -------------------------------
(* Instances of Sse for TLC.                                                *)
EXTENDS Sse

SomeLines == {
  <<"data", ":", " ", "x">>, <<"data", ":", ":">>, <<"data", ":", " ", " ">>, <<"data">>,
  <<"event", ":", "x">>, <<"event">>, <<"id", ":", " ", "9">>, <<"id", ":", "NUL">>, <<"id", ":">>,
  <<"retry", ":", "9">>, <<"retry", ":", "x">>, <<"retry", ":", "HUGE">>, <<"retry">>,
  <<":", "data">>, <<"x", "data", ":", "x">>}
=============================================================================
