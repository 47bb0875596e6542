--------------------------- MODULE MCStatusUpdate ---------------------------
EXTENDS StatusUpdate

CONSTANTS c, r, x

MCClasses    == {c}
MCHTTPRoutes == {r}
MCOthers     == {x}
MCStatuses   == {NoStatus, "accepted"}
=============================================================================
