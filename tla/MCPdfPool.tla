----------------------------- MODULE MCPdfPool -----------------------------
(* PdfPool for TLC. Liveness is checked: no symmetry.                        *)
EXTENDS PdfPool, TLC
=============================================================================
