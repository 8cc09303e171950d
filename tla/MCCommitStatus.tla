--------------------------- MODULE MCCommitStatus ---------------------------
(* Small instances of CommitStatus: every job is another event of one commit.  *)
EXTENDS CommitStatus

KeyPerJob == [j \in Jobs |-> j]
=============================================================================
