-------------------------- MODULE MCPackageInstall --------------------------
(* An instance of PackageInstall for TLC.                                    *)
EXTENDS PackageInstall

CONSTANTS s1, s2
MCSessions == {s1, s2}
=============================================================================
