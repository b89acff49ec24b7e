--------------------------- MODULE MCNikitaAgent ---------------------------
EXTENDS NikitaAgent

MailboxThreads == {"agent", "client"}
MailboxFiles == {"req", "res"}
Second == {2}
============================================================================
