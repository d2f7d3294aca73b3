---------------------------- MODULE MCRedaction -----------------------------
EXTENDS Redaction

Ones(n) == [i \in 1..n |-> "1"]

Date == <<"2", "0", "2", "4", "-", "0", "1", "-", "1", "5">>
Moment == Date \o <<" ", "1", "0", ":", "3", "0", ":", "0", "5", ".", "7", "Z">>
Ssn == <<"1", "2", "3", "-", "4", "5", "-", "6", "7", "8", "9">>

\* 4111 1111 1111 1111 passes the Luhn check, fourteen ones do not.
Cards == {<<"4">> \o Ones(15),
          <<"4">> \o Ones(3) \o <<" ">> \o Ones(4) \o <<"-">> \o Ones(8)}
NotCard == Ones(14)

Emails == {<<"a", "1", "@", "b", ".", "c", "c">>, <<"A", "1", "@", "b", ".", "c", "c">>}
Phones == {<<"+", "1", " ", "(", "5", "5", "5", ")", " ", "0", "1", "0", "-", "1">>,
           <<"1", "-", "5", "5", "5", "-", "0", "1", "0", "1">>}

MCThings ==
    {Text(s) : s \in {Date, Moment, Ssn, NotCard, <<"a", "b">>, <<"7">>}
                        \cup Cards \cup Emails \cup Phones}
MCLeads == {Text(s) : s \in {<<>>, <<"b", " ">>}}
MCGaps ==
    {Text(s) : s \in {<<>>, <<" ">>, <<"-">>, <<",", " ">>, <<" ", "a", " ">>, <<".">>, <<":">>, <<" ", "(">>, <<")">>}}

=============================================================================
