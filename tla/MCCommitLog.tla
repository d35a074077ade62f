---------------------------- MODULE MCCommitLog ----------------------------
EXTENDS CommitProperties, MCDags
=============================================================================
