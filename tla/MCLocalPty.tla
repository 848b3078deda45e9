------------------------------ MODULE MCLocalPty ------------------------------
EXTENDS LocalPty

\* Two terminals opened and closed, or one terminal subscribed twice while it
\* writes and exits.
MCLoads == {[opens |-> 2, chunks |-> 0, subs |-> 0],
            [opens |-> 1, chunks |-> 2, subs |-> 2]}
=============================================================================
