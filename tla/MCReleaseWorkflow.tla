------------------------- MODULE MCReleaseWorkflow -------------------------
(* Three releases; the third one changes the schema.                         *)
EXTENDS ReleaseWorkflow

MCReleases == 1..3
MCSchema == <<1, 1, 2>>
=============================================================================
