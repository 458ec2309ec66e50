---------------------------- MODULE MCElfMemory ----------------------------
\* Pages of two bytes, two under a table; the frames end while the second of
\* two programs is loaded, and four pages lie above their images.
EXTENDS ElfMemory
=============================================================================
