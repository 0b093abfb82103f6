---------------------------- MODULE MCEdgeEmbed ----------------------------
(* Instances of EdgeEmbed for TLC.                                         *)
EXTENDS EdgeEmbed

\* Clients in C:\<version>: recent enough, recent but without the entry point,
\* too old, with text in the third place, too short, and a value without a
\* directory or without anything
Client(version, found) == [path |-> <<<<-1>>, version>>, entry |-> found]
Recent == Client(<<99, 0, 1150, 38>>, TRUE)
Broken == Client(<<99, 0, 1200, 5>>, FALSE)
Refused == {Client(<<98, 0, 1149, 99, 2000>>, TRUE), Client(<<99, 0, -1>>, TRUE),
            Client(<<1200, 1200>>, TRUE), [path |-> <<<<99, 0, 1200>>>>, entry |-> TRUE],
            [path |-> <<>>, entry |-> TRUE]}

Keys == {{}, {Recent}, {Broken}}
MCMachines ==
  [loader : {{}, {"version"}, {"create"}, {"create", "version"}}, system : Keys, user : Keys]
    \cup [loader : {{}}, system : {{c} : c \in Refused}, user : {{}, {Recent}}]
    \cup [loader : {{}}, system : {{}}, user : {{c} : c \in Refused}]

\* A machine where everything is in place
GoodMachine == [loader |-> {}, system |-> {Recent}, user |-> {}]
Good == {GoodMachine}
=============================================================================
