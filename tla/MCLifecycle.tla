---------------------------- MODULE MCLifecycle ----------------------------
(* Instances of Lifecycle for TLC. *)
EXTENDS Lifecycle

CONSTANTS get, post, json, search, raw, u, host, ctype, f1, f2

\* The first two routes share a file, the third has its own.
SomeShared == <<f1, f1, f2>>

ThreeModes == <<"enforce", "shadow", "enforce">>

OneOfEach == <<1, 1, 1>>

\* A POST with a parameter and a body, and a GET with a name JSON cannot hold.
Posted == [method |-> post, ctype |-> json, params |-> {search},
           headers |-> {host, ctype}, body |-> 2]
Rawly == [method |-> get, ctype |-> NoType, params |-> {raw}, headers |-> {host},
          body |-> 1]

PostedAndRaw == {Posted, Rawly}
=============================================================================
