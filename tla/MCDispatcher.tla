------------------------------ MODULE MCDispatcher ------------------------------
\* Small instances of XLinkDispatcher.
EXTENDS XLinkDispatcher, TLC

ThreadSymmetry == Permutations(Threads)

=============================================================================
