--------------------------- MODULE MCProgramCache ---------------------------
EXTENDS ProgramCache, TLC
=============================================================================
