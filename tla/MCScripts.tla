----------------------------- MODULE MCScripts -----------------------------
(* The four multi-header sample scripts, superp_ipproto at its default.    *)
EXTENDS Scripts

MCScriptNames == {"make_uet_pds", "make_uet_ses", "make_superp", "make_sunh"}
=============================================================================
