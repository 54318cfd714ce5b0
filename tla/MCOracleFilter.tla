--------------------------- MODULE MCOracleFilter ---------------------------
(* Two connections; statements of up to three words. *)
EXTENDS OracleFilter

CONSTANTS c1, c2

MCConns == {c1, c2}
MCTexts == UNION {[1..n -> Words] : n \in 1..3}

Item(command, tables) == [command |-> command, tables |-> tables]

\* The command lists, and the kinds of servers and clients.
MCLists ==
  LET verb == CHOOSE v \in Verbs : TRUE
      other == CHOOSE o \in Others : TRUE
  IN  { <<>>, << <<>> >>, << <<Item(verb, Tables)>> >>,
        << <<Item(other, Tables)>>, <<Item(verb, {}), Item(other, {})>> >> }

\* The lists: one statement, of every text.
ListWorlds ==
  {[version |-> 11, bits |-> 64, plain |-> TRUE, tool |-> [c \in MCConns |-> "other"],
    lists |-> l, cmdFlag |-> f, audit |-> FALSE, text |-> <<t>>] :
     l \in MCLists, f \in 1..2, t \in MCTexts}

\* The servers and clients: two statements.
ServerWorlds ==
  {[version |-> s[1], bits |-> s[2], plain |-> s[3],
    tool |-> [c \in MCConns |-> IF c = c1 THEN t[1] ELSE t[2]],
    lists |-> <<>>, cmdFlag |-> 1, audit |-> TRUE, text |-> <<x, x>>] :
     s \in {<<9, 32, TRUE>>, <<10, 64, TRUE>>, <<11, 32, TRUE>>, <<11, 64, FALSE>>},
     t \in {<<"plsql", "plsql">>, <<"toad", "other">>},
     x \in {<<CHOOSE v \in Verbs : TRUE, CHOOSE u \in Tables : TRUE>>}}

MCWorlds == ListWorlds \cup ServerWorlds
=============================================================================
