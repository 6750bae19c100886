------------------------------ MODULE MCRawDisk ------------------------------
(* The var disk and one external disk, with two versions; the UUIDs of the  *)
(* images, of uuid= and of the embedded image may all coincide.             *)
EXTENDS RawDisk

CONSTANT d1

OneExternal == <<d1>>
=============================================================================
