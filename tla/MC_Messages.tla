----------------------------- MODULE MC_Messages -----------------------------
EXTENDS Messages

\* Messages live four passes, and up to four are queued: enough for two
\* messages pushed in one tick to expire in the same pass, with older and
\* younger ones on both sides of them.
MC_MaxAge == 4
MC_MaxLen == 4
=============================================================================
