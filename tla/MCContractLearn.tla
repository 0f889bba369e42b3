-------------------------- MODULE MCContractLearn --------------------------
(* Instances of ContractLearn for TLC. *)
EXTENDS ContractLearn, TLC

CONSTANTS get, post, json, search, u, host, ctype

\* A plain GET, and a POST with a media type, a parameter and a body.
Plainly == [method |-> get, ctype |-> NoType, params |-> {}, headers |-> {host},
            body |-> 1]
Posted == [method |-> post, ctype |-> json, params |-> {search},
           headers |-> {host, ctype}, body |-> 2]

TwoRequests == {Plainly, Posted}

HandlerSymmetry == Permutations(Handlers)
=============================================================================
