------------------------ MODULE MCInstallTransaction ------------------------
\* InstallTransaction with the numbers its configurations give.
EXTENDS InstallTransaction
=============================================================================
