---------------------------- MODULE MCSyslogInput ----------------------------
(* Small instances of SyslogInput for TLC. *)
EXTENDS SyslogInput

\* <13>1 and <999>1, which may start a record, <+13>1 and <-5>1, which may not.
Pris == {"p", "q"}
Values == [p |-> 13, q |-> 999, r |-> 13, s |-> -5]
Drops == {<<"z">>}

Line(s) == Append(s, Newline)
Valid == <<"p", " ", "x", " ", "a">>
NoMessage == <<"p", " ", "x">>
Long == <<"p", " ", "x", " ", "u", "v", "u", "v">>
Broken == <<"p", " ", "x", " ", "v", "u", "v">>
Ends == <<"p", " ", "z", " ", "a">>
BadFacility == <<"q", " ", "x", " ", "a">>
TooShort == <<"p", " ">>
OneBytePri == <<"<", " ", "x", " ", "a">>
Signed == <<"r", " ", "x", " ", "a">>
Negative == <<"s", " ", "x", " ", "a">>
More == <<"m", " ">>

Beginnings == {<<>>, Line(More), Line(Valid)}
Middles == {Line(Valid) \o Line(TooShort), Line(Long), Line(NoMessage) \o Line(<<>>), Line(Ends), Line(BadFacility)}
Endings == {Valid, Line(More)}
Overflowing == {Valid \o [i \in 1..12 |-> "m"], Line(Valid) \o Line(Long) \o [i \in 1..9 |-> "m"],
                [i \in 1..13 |-> "m"] \o Line(More) \o Valid}

SmallStreams == {a \o b \o c : a \in Beginnings, b \in Middles, c \in Endings} \cup Overflowing
                    \cup {Line(Broken) \o Valid}
                    \cup {Line(first) \o Line(Valid) : first \in {OneBytePri, Signed, Negative}}
Pieces == {2, 5}
=============================================================================
