---------------------------- MODULE MCUserPages ----------------------------
(***************************************************************************)
(* UserPages for TLC.  Accounts, e-mails and clients are alike.            *)
(***************************************************************************)
EXTENDS UserPages, TLC

CONSTANTS e1, e2, e3, e4, u1, u2, u3, u4, c1, c2

FourUsers == {u1, u2, u3, u4}
ThreeUsers == {u1, u2, u3}
FourEmails == {e1, e2, e3, e4}
TwoClients == {c1, c2}

\* Of the times of the first accounts only the order matters, ties included.
Dense == \A u \in Seeded : stamp[u] = 1 \/ \E v \in Seeded : stamp[v] = stamp[u] - 1
DenseInit == PagesInit /\ Dense
DenseSpec == DenseInit /\ [][PagesNext]_allVars

Alike ==
    Permutations(ThreeUsers) \union Permutations(FourEmails) \union Permutations(TwoClients)
=============================================================================
