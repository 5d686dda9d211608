------------------------------ MODULE MCUpload ------------------------------
EXTENDS Upload
\* Two requests with one key, of which the second has other content, and one
\* without a key that has the bytes of the first and replaces a document.
TwoForOneKey == {[key |-> "k1", sig |-> "s1", content |-> "c1", doc |-> None],
                 [key |-> "k1", sig |-> "s2", content |-> "c2", doc |-> None],
                 [key |-> None, sig |-> "s1", content |-> "c1", doc |-> "d"]}
OneVersion == [n0 |-> [key |-> None, sig |-> "s0", content |-> "c0",
                       doc |-> "d"]]
=============================================================================
