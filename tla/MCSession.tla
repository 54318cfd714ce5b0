----------------------------- MODULE MCSession ------------------------------
(* The session's threads: a recorded remote session, and sessions without    *)
(* video of a tool with children, remote and on the console.                 *)
EXTENDS Session

RemoteVideo == [console |-> FALSE, video |-> TRUE, haschild |-> FALSE]
Children == [console : BOOLEAN, video : {FALSE}, haschild : {TRUE}]
Several == {RemoteVideo} \cup Children
RemoteOnly == {RemoteVideo}
=============================================================================
