-------------------------- MODULE MCTrustReconcile --------------------------
(* "docs" is a directory the user may trust, with one of the images in it. *)
EXTENDS TrustReconcile, TLC

CONSTANTS tool, memo, game, docs, nTool, nMemo, nGame

MCNeedleOf == (tool :> nTool) @@ (memo :> nMemo) @@ (game :> nGame)
MCInside == (docs :> {memo})
=============================================================================
