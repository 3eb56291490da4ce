-------------------------- MODULE MCAnalysisPaging --------------------------
EXTENDS AnalysisPaging

CONSTANTS c1, c2

MCCameras == {c1, c2}
MCFilters == {{c1}}
MCRanks == 1 .. 2
MCOffsets == {-1, 0}
=============================================================================
