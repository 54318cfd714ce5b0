--------------------------- MODULE CommandPolicy ---------------------------
(***************************************************************************)
(* Which statements the command lists of the policies forbid (DBRecord:    *)
(* MatchCclItem, FindDBTable, strsplit).  A statement is the sequence of   *)
(* its words that a list may name, in upper case as strupr leaves them:    *)
(* the four verbs at which strsplit cuts, other commands, and tables.      *)
(* No word is part of another one.                                         *)
(***************************************************************************)
EXTENDS Naturals, Sequences

CONSTANTS
  Verbs,    \* SELECT, INSERT, UPDATE, DELETE, or some of them
  Others,   \* other commands (DROP, CREATE, ...)
  Tables

Words == Verbs \cup Others \cup Tables

ASSUME WordsDisjoint ==
  Verbs \cap Others = {} /\ Verbs \cap Tables = {} /\ Others \cap Tables = {}

\* pr_command and pr_table, the tables of the list split at its commas; no table
\* stands for an empty pr_table.
Items == [command : Verbs \cup Others, tables : SUBSET Tables]

\* strstr
Has(text, word) == \E k \in DOMAIN text : text[k] = word

\* The place of the first separator in the rest of s from place b on, or the end.
Front(s, b) ==
  LET at == {k \in b..Len(s) : s[k] \in Verbs}
  IN  IF at = {} THEN Len(s) + 1 ELSE CHOOSE k \in at : \A j \in at : k <= j

\* Mutant: keep_separator is 0.
SplitOnly(s) ==
  LET from[b \in 1..(Len(s) + 1)] ==
        IF b > Len(s) THEN <<>>
        ELSE LET e == Front(s, b)
             IN  (IF e > b THEN <<SubSeq(s, b, e - 1)>> ELSE <<>>)
                 \o (IF e > Len(s) THEN <<>> ELSE from[e + 1])
  IN  from[1]

\* strsplit with compress_separator and keep_separator: the parts between the verbs
\* that are not empty, and the verbs; an empty separator follows the last part.
strsplit(s) ==
  LET from[b \in 1..(Len(s) + 1)] ==
        IF b > Len(s) THEN <<>>
        ELSE LET e == Front(s, b)
             IN  (IF e > b THEN <<SubSeq(s, b, e - 1)>> ELSE <<>>)
                 \o (IF e > Len(s) THEN <<<<>>>> ELSE <<<<s[e]>>>> \o from[e + 1])
  IN  from[1]

\* The command in one part and the table in the next one; without any verb, both
\* anywhere.
FindDBTable(s, cmd, table) ==
  IF \E k \in DOMAIN s : s[k] \in Verbs
    THEN LET part == strsplit(s)
         IN  \E i \in 1..(Len(part) - 1) : Has(part[i], cmd) /\ Has(part[i + 1], table)
    ELSE Has(s, cmd) /\ Has(s, table)

\* MatchCclItem # 0.  cmdFlag 2: the list names what is permitted; otherwise it
\* names what is forbidden.
MatchCclItem(items, s, cmdFlag) ==
  LET item(i) == IF items[i].tables = {} THEN Has(s, items[i].command)
                 ELSE \E t \in items[i].tables : FindDBTable(s, items[i].command, t)
      found == \E i \in DOMAIN items : item(i)
  IN  /\ items # <<>>
      /\ IF cmdFlag = 2 THEN ~found ELSE found

(***************************************************************************)
(* What an item means, without the parts: a verb and a table after it      *)
(* before the next verb; any other command counts together with a table    *)
(* only in a statement that has no verb.                                   *)
(***************************************************************************)
Names(item, s) ==
  IF item.tables = {} THEN Has(s, item.command)
  ELSE IF item.command \in Verbs
    THEN \E v, k \in DOMAIN s :
            /\ v < k /\ s[v] = item.command /\ s[k] \in item.tables
            /\ \A j \in (v + 1)..k : s[j] \notin Verbs
    ELSE /\ \A j \in DOMAIN s : s[j] \notin Verbs
         /\ Has(s, item.command) /\ \E t \in item.tables : Has(s, t)

\* A black list forbids what one of its items names, a white list what none does.
ForbiddenBy(items, s, cmdFlag) ==
  /\ Len(items) > 0
  /\ (cmdFlag = 2) <=> (\A i \in DOMAIN items : ~Names(items[i], s))
=============================================================================
