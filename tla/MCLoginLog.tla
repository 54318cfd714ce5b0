----------------------------- MODULE MCLoginLog -----------------------------
(* One session's three threads: both kinds of database, with and without the *)
(* debug level.                                                              *)
EXTENDS LoginLog
=============================================================================
