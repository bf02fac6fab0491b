---------------------------- MODULE MCDeviceCalls ---------------------------
(* Small instance of DeviceCalls for TLC: music and videos, named in the    *)
(* table of MIME types or not, and some of everything else.                 *)
EXTENDS DeviceCalls

SomeMimes == {<<"video", "webm">>, <<"audio", "mpeg">>, <<"audio", "aac">>,
              <<"application", "ogg">>, <<"text", "plain">>}
=============================================================================
