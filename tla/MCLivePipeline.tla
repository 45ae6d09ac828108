--------------------------- MODULE MCLivePipeline ---------------------------
EXTENDS LivePipeline

CONSTANTS a, b

=============================================================================
