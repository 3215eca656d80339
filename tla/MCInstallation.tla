--------------------------- MODULE MCInstallation ---------------------------
EXTENDS Installation
=============================================================================
