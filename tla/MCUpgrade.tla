------------------------------ MODULE MCUpgrade ------------------------------
EXTENDS Upgrade, TLC

CONSTANTS c1, w1, w2

MCGroups == Kinds \X BOOLEAN
MCLayouts == { <<{c1}, {w1, w2}>> }
On(c, w, x) == (c1 :> c) @@ (w1 :> w) @@ (w2 :> x)
MCStarts == { On("old", "old", "old"), On("want", "old", "old"), On("want", "want", "want"), On("want", "old", "want"), On("want", "want", "old"),
              On("old", "newer", "old"), On("old", "old", "newer") }
MCFlags == { {}, {"snapshot"}, {"snapshot", "force"}, {"dry-run"}, {"dry-run", "force"}, {"allow-downgrades"} }
WorkersAlike == Permutations({w1, w2})
=============================================================================
