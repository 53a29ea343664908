---------------------------- MODULE MCMailboxSync ----------------------------
(* Finite instances of MailboxSync for TLC. *)
EXTENDS MailboxSync, TLC

One == [condstore |-> TRUE, uids |-> 3, mods |-> 4, tries |-> 2, bodies |-> 1,
        maxFaults |-> 1, faults |-> {"link", "db", "bare", "crash"}]

\* A server without mod-sequences; two bodies of one mailbox, without and with them;
\* a mailbox that is made anew.
Plain == [One EXCEPT !.condstore = FALSE, !.uids = 2, !.mods = 2, !.faults = {"link", "db", "crash"}]
Bodies == [condstore |-> FALSE, uids |-> 1, mods |-> 2, tries |-> 1, bodies |-> 2,
           maxFaults |-> 0, faults |-> {"overlap"}]
Overlap == [Bodies EXCEPT !.condstore = TRUE, !.uids = 1, !.mods = 3]
Anew == [One EXCEPT !.uids = 2, !.mods = 2, !.maxFaults = 2, !.faults = {"link", "crash", "era"}]

\* Runs are interchangeable; used without temporal properties.
RunSymmetry == Permutations(Runs)

AllSettings == {One, Plain, Bodies, Overlap, Anew}
LiveSettings == {[One EXCEPT !.uids = 2]}
=============================================================================
