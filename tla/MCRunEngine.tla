----------------------------- MODULE MCRunEngine -----------------------------
(* Small instances of RunEngine for TLC.                                    *)
EXTENDS RunEngine

FullPlaybook    == <<"Prepare", "Plan", "Code", "Commands", "ReviewSwarm", "CreatePr">>
ShortPlaybook   == <<"Prepare", "Plan", "Code">>
=============================================================================
