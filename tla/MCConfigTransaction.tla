------------------------ MODULE MCConfigTransaction ------------------------
EXTENDS ConfigTransaction, TLC

I(p, a, x, s) == [port |-> p, auto |-> a, addr |-> IF x = NoAddr THEN NoAddr ELSE <<x, s>>]
C(first, second, shared, cert) ==
    [gateways |-> <<first, second>>, shared |-> shared, cert |-> cert]

\* Two instances; one with another certificate, or another scheme, in place;
\* both moved, one to the port of the other; one removed, its port and address
\* used again.  With the shared listener its instances change, its certificate,
\* its address and its scheme.
MCConfigs == {
    C(I(1, TRUE, "x", "https"), I(2, TRUE, "y", "http"), NoAddr, "k"),
    C(I(1, TRUE, "x", "https"), I(2, FALSE, "y", "http"), NoAddr, "l"),
    C(I(1, TRUE, "x", "http"), I(2, TRUE, "y", "http"), NoAddr, "k"),
    C(I(3, TRUE, "x", "https"), I(1, FALSE, "z", "http"), NoAddr, "k"),
    C(Absent, I(1, TRUE, "y", "http"), NoAddr, "k"),
    C(I(1, TRUE, NoAddr, "http"), I(2, FALSE, NoAddr, "http"), <<"x", "https">>, "k"),
    C(I(2, FALSE, NoAddr, "http"), Absent, <<"x", "https">>, "k"),
    C(I(2, FALSE, NoAddr, "http"), Absent, <<"x", "https">>, "l"),
    C(I(1, TRUE, NoAddr, "http"), Absent, <<"y", "http">>, "k") }

TokensAlike == Permutations(Tokens)
==============================================================================
