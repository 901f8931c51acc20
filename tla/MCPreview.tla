----------------------------- MODULE MCPreview ------------------------------
(***************************************************************************)
(* Preview for TLC.  A view drops what no step and no property reads: how  *)
(* current the copy of a thread is that has none.                          *)
(***************************************************************************)
EXTENDS PreviewProperties, TLC

Symmetry == Permutations(Handlers) \cup Permutations(SHAs)

Busy == {h \in Handlers : handler[h].pc # "idle"}
          \cup (IF rec.pc = "idle" THEN {} ELSE {"reconciler"})

View == << prd, cachedPrd, app, cachedApp, gitrepo, faults,
           fresh \cap (Busy \cup {"cache"}), shared \cap Busy,
           prdeploymentVars, handler, platformVars >>
=============================================================================
