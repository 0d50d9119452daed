-------------------------- MODULE MCBotNavigation --------------------------
(* Instances of BotNavigation: a straight line that is not the way, a step *)
(* aside that is not shorter than another, two halves, one tile.           *)
EXTENDS BotNavigation

Tiles(w, h) == (0..w - 1) \X (0..h - 1)

\* round the wall, at first away from where one wants to go
Wall == Tiles(3, 3) \ {<<1, 0>>, <<1, 1>>}
\* a row with a gap, and the way past it in the next
Notch == Tiles(5, 2) \ {<<3, 0>>}
\* two halves with no way between them
Split == Tiles(3, 2) \ {<<1, 0>>, <<1, 1>>}
Cell == {<<0, 0>>}

Maps == {Wall, Notch, Split, Cell}
=============================================================================
