----------------------------- MODULE MCLogFormat -----------------------------
EXTENDS LogFormat

CONSTANTS v1, v2, v3

\* Every format of up to five characters over {'%', c}: escapes, adjacent
\* placeholders, "%%%", and a trailing '%'.
MCMaxLen == 5

\* Up to three arguments: fewer, as many and more than the placeholders.
MCArgVal == <<v1, v2, v3>>

=============================================================================
