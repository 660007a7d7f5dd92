------------------------------- MODULE MCSlab --------------------------------
EXTENDS Slab
\* One group is a block of the largest order; the others are what _pagegroup_create
\* leaves over, blocks of two pages and of one, whose buddies lie beyond the end.
MCRanges == <<[base |-> 0, end |-> 4], [base |-> 9, end |-> 12], [base |-> 20, end |-> 22]>>
MCBuckets == <<4, 16>>
MCCaches == <<32>>
MCSizes == {3, 4}
MCRequests == {1, 2, 3}
=============================================================================
