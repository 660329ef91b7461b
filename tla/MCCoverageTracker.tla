-------------------------- MODULE MCCoverageTracker --------------------------
EXTENDS CoverageTracker
=============================================================================
