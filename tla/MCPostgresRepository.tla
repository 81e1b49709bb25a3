------------------------ MODULE MCPostgresRepository ------------------------
(***************************************************************************)
(* The instance of PostgresRepository that TLC checks.                     *)
(***************************************************************************)
EXTENDS PostgresRepository

WithoutKey == <<>>

\* a and b are one request, sent twice; c is an inbound call without a SIP call
\* id; d is another principal's request with the key of a.
KeyOfRequest == [r \in Request |-> CASE r \in {"a", "b"} -> <<"p", "k">>
                                     [] r = "c" -> WithoutKey
                                     [] r = "d" -> <<"q", "k">>]
OwnerOfRequest == [r \in Request |-> IF r = "d" THEN "q" ELSE "p"]
IdOrder == [r \in Request |-> CASE r = "a" -> 2 [] r = "b" -> 1 [] r = "c" -> 3 [] r = "d" -> 4]

\* The jobs v and w work for whatever calls there are.
DoesWhat == [s \in Session |-> CASE s \in {"a", "b", "d"} -> {"validating"}
                                 [] s = "c" -> {"inbound"}
                                 [] OTHER -> {"connected", "turn", "save"}]

\* Writers of one call; a client that pages; two principals.
SomeLoads == {{"a", "b", "v", "w"}, {"a", "c", "v", "client"}, {"a", "b", "d"}}

=============================================================================
