---------------------------- MODULE MCWebAccount ----------------------------
EXTENDS WebAccount

\* The console's widgets: a later release has a new one and has lost one.
SomeReleases == <<<<"users", "plans", "health">>, <<"audit", "health", "users">>>>
=============================================================================
