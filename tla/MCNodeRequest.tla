---------------------------- MODULE MCNodeRequest ----------------------------
EXTENDS NodeRequest

CONSTANTS C1, C2

\* Two 'http' configurations with different proxies and authorizations.
MCConfigs == {C1, C2}
=============================================================================
