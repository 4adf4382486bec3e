-------------------------------- MODULE MCJournal --------------------------------
EXTENDS Journal
MCRuntimes == {"fixed", "automatic", "plain"}
================================================================================
