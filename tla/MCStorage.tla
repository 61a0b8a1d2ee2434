------------------------------- MODULE MCStorage -------------------------------
(* Objects with lists of several lengths, of the size they have, in the layouts *)
(* of today and of before.  Every field holds a number of its own.              *)
EXTENDS Storage

\* The fields of a layout whose lists have the given numbers of elements.
Filled(layout, sizes) ==
    FlattenSeq([i \in 1..Len(layout) |->
        IF layout[i].type # "list" THEN <<layout[i]>>
        ELSE LET lists == SelectSeq(SubSeq(layout, 1, i), LAMBDA f : f.type = "list")
                 n     == sizes[Len(lists)]
             IN  <<[layout[i] EXCEPT !.element = n]>>
                   \o FlattenSeq([j \in 1..n |-> layout[i].element])])

Contents(layout, sizes) ==
    LET fields == Filled(layout, sizes)
    IN  [i \in 1..Len(fields) |->
            CASE fields[i].type = "list" -> <<0, 0, 0, fields[i].element>>
              [] fields[i].type = "flag" -> <<1>>
              [] OTHER                   -> [b \in 1..fields[i].length |-> i]]

Now(k, sizes) ==
    LET whole == Contents(Layout(k, Versions[k]), sizes)
    IN  [version |-> Versions[k], stored |-> whole, object |-> whole]

\* An older pickle has the same object in it, without or with the field in question.
LoggedSession(sizes) ==
    LET whole == Now("session", sizes).object
    IN  [version |-> LOGGING_VERSION, stored |-> Append(whole, <<0, 0, 0, 7>>),
         object |-> whole]

OldInbound ==
    LET whole == Now("inbound_session", <<>>).object
    IN  [version |-> <<0, 0, 0, 1>>, stored |-> Front(whole), object |-> whole]

SessionSizes == {<<1, 0, 0>>, <<0, 1, 0>>, <<1, 1, 0>>, <<1, 2, 1>>}

MCObjects ==
    [account          |-> { Now("account", <<n>>) : n \in {0, 1, 2} },
     session          |-> { Now("session", sizes) : sizes \in SessionSizes }
                            \union { LoggedSession(sizes) : sizes \in SessionSizes },
     pk_decryption    |-> { Now("pk_decryption", <<>>) },
     outbound_session |-> { Now("outbound_session", <<>>) },
     inbound_session  |-> { Now("inbound_session", <<>>), OldInbound }]
===============================================================================
