--------------------------- MODULE MCPingRegistry ---------------------------
\* One firewall whose runs may overlap, a second source label, and targets
\* probed by every source or by the two of a list.
EXTENDS PingRegistry

CONSTANTS f1, hq

MCSites == {f1}
MCSources == {f1, hq}
MCFilters == {{All}, {f1, hq}}
=============================================================================
