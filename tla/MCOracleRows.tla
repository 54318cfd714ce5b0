---------------------------- MODULE MCOracleRows ----------------------------
EXTENDS OracleRows, TLC

\* Connections and texts are only compared.
Symmetric == Permutations(Conns) \cup Permutations(Texts)
MCClients == {<<0, 10>>, <<1, 11>>}
=============================================================================
