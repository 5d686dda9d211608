-------------------------- MODULE MCReleaseCenter --------------------------
EXTENDS ReleaseCenter, TLC
CONSTANTS ann, bob

\* The uploader may approve too, but one approval is not enough.
StrictPolicy == {[required |-> 2, requesterMay |-> TRUE]}
=============================================================================
