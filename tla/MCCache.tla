------------------------------ MODULE MCCache ------------------------------
\* Two clients, so that one can load before an update and store after it
\* while the other calls; the third version tells a late old value from the
\* one before the last.
EXTENDS Cache
=============================================================================
