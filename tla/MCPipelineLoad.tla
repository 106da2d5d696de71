--------------------------- MODULE MCPipelineLoad ---------------------------
\* Small instances of PipelineLoad.
EXTENDS PipelineLoad, TLC

MCSymmetry == Permutations(Workers)
=============================================================================
