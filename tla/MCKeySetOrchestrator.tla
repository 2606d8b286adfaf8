-------------------------- MODULE MCKeySetOrchestrator --------------------------
(* Values for KeySetOrchestrator: two key fields, and connections sending different mixes. *)
EXTENDS KeySetOrchestrator

web == << <<"a">>, <<"b">> >>
db  == << <<"b">>, <<"a">> >>

\* A key with a comma: the ID of its queue directory is split into three.
odd == << <<"a", ",">>, <<"b">> >>

Mixed == << <<web, db, web>>, <<db, odd>> >>

\* Two key sets with the same merged key.
ab_c == << <<"a", "b">>, <<"c">> >>
a_bc == << <<"a">>, <<"b", "c">> >>

Merging == << <<ab_c>>, <<a_bc>> >>

=============================================================================
