------------------------------ MODULE MCH2Link ------------------------------
(* Instances of H2Link for TLC: which bodies the exchanges carry.          *)
EXTENDS H2Link

\* A download (GET) or an upload (POST answered by headers alone).
OneWay == {<<0, 3>>, <<2, 0>>}

\* Both sides raise their windows, and have to say so.
Raised == {<<3, 3>>}

=============================================================================
