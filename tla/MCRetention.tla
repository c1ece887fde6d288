---------------------------- MODULE MCRetention ----------------------------
(* Small instances of RestoreDrill.                                         *)
EXTENDS RestoreDrill

One(S) == {CHOOSE x \in S : TRUE}

\* All workers race for one content, some of it old; or one worker is served both
\* contents and the stores are backed up and restored.
MCSites ==
    [workers : {Workers}, contents : {One(Contents)}, legacy : {TRUE}, drilled : {FALSE}]
    \cup [workers : {One(Workers)}, contents : {Contents}, legacy : {FALSE}, drilled : {TRUE}]
============================================================================
